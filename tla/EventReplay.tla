----------------------------- MODULE EventReplay -----------------------------
(***************************************************************************)
(* The append-only records of a shared project -- its decisions and         *)
(* learnings, or its sessions -- in the stores of several editors.          *)
(*                                                                         *)
(* A store replays what it recorded since its time cursor to the broker, an *)
(* event a request, among the events of its sprints, whose time is the date *)
(* they are planned for, and pulls what is behind its position in the broker's   *)
(* log, page by page, with an INSERT that does nothing when the id is       *)
(* there.  A clone starts from the broker's snapshot.  Requests fail or     *)
(* lose their answer, a replay is cut off by its time limit, a page rolls   *)
(* back, processes die, and the clocks of two machines differ.              *)
(***************************************************************************)
EXTENDS Integers, Sequences, FiniteSetsExt

CONSTANTS
  Stores,     \* a store per editor's machine
  Calls,      \* calls that may be in flight: of a store, and a number
  Texts,      \* what a record says
  Numbered,   \* TRUE for decisions and learnings: ids are drawn from a counter
              \* of the store and equal contents are pushed once a run
  None,
  Fallible,   \* stores whose requests, pages and processes may fail
  Newcomers,  \* stores that may be cloned from the snapshot
  PageLimit,  \* events per page of a pull
  Ahead,      \* how far the wall clock of each store is ahead
  Ticks,      \* how far time may move from one record to the next
  Leads,      \* how far ahead of its clock a store's sprints may be dated
  MaxRecords, \* bounds; the last is per store
  MaxLog,
  MaxSprints

ASSUME EventReplayAssumption ==
  /\ Numbered \in BOOLEAN /\ None \notin Stores /\ Calls \subseteq Stores \X Nat
  /\ Fallible \cup Newcomers \subseteq Stores
  /\ PageLimit \in Nat \ {0} /\ MaxRecords \in Nat /\ MaxLog \in Nat
  /\ Ahead \in [Stores -> Nat] /\ Ticks \subseteq Nat /\ Leads \in [Stores -> SUBSET Nat]
  /\ MaxSprints \in Nat

VARIABLES
  rows,     \* the table of each store
  planned,  \* the dates of each store's sprints, its own and pulled ones
  pushed,   \* metadata backfill_cursor: a time, 0 for none
  pulled,   \* metadata pull_cursor: how much of the log was pulled
  log,      \* the broker's rbook_sync_log
  call,     \* the calls in flight
  now,      \* time
  failures, \* history: texts that a replay counted as failed and moved past
  gaps,     \* history: stores told to reset their pull cursor, or to clone again
  behind    \* history: records whose time a cursor, or a list, had reached
            \* before they were made

vars == <<rows, planned, pushed, pulled, log, call, now, failures, gaps, behind>>

StoreOf(c) == c[1]

Date(s) == now + Ahead[s]

\* A row with its genesis provenance: by and the time of its creation.
Record == [id : [of : Stores \cup {None}, n : Nat], by : Stores, at : Nat, text : Texts]

IdsIn(S) == {r.id : r \in S}

\* Mutant: the counter is one of the store's own records.
NextOfOwn(s) ==
  LET of == IF Numbered THEN None ELSE s
  IN [of |-> of, n |-> 1 + Cardinality({r \in rows[s] : r.by = s})]

\* The id of a new row: the next of AUTOINCREMENT, or one that is the store's own.
NextId(s) ==
  LET of == IF Numbered THEN None ELSE s
  IN [of |-> of, n |-> 1 + Max({0} \cup {id.n : id \in {x \in IdsIn(rows[s]) : x.of = of}})]

IdleCall == [pc |-> "idle", since |-> 0, todo |-> {}, plans |-> {}, done |-> 0,
             failed |-> {}, from |-> 0, to |-> 0, more |-> FALSE, gap |-> FALSE]

Init ==
  /\ rows = [s \in Stores |-> {}]
  /\ planned = [s \in Stores |-> {}]
  /\ pushed = [s \in Stores |-> 0]
  /\ pulled = [s \in Stores |-> 0]
  /\ log = <<>>
  /\ call = [c \in Calls |-> IdleCall]
  /\ now = 1
  /\ failures = [s \in Stores |-> {}]
  /\ gaps = {}
  /\ behind = [s \in Stores |-> {}]

-----------------------------------------------------------------------------
(* A record is made, or a sprint. *)

Total == Cardinality(UNION {rows[s] : s \in Stores})

\* The time of a record that store s makes now is one that its cursor, or a replay
\* under way, has reached or will reach without it; or it is that of a sprint.
Reached(s) ==
  \/ Date(s) <= pushed[s] \/ Date(s) \in planned[s]
  \/ \E c \in Calls :
       /\ StoreOf(c) = s
       /\ \/ Date(s) <= call[c].since \/ Date(s) <= call[c].done
          \/ \E p \in call[c].plans \cup {x.at : x \in call[c].todo} : Date(s) <= p

Create(s, text, tick) ==
  LET new == [id |-> NextId(s), by |-> s, at |-> Date(s), text |-> text]
  IN /\ Total < MaxRecords
     /\ now' = now + tick
     /\ rows' = [rows EXCEPT ![s] = @ \cup {new}]
     /\ behind' = IF Reached(s) THEN [behind EXCEPT ![s] = @ \cup {new}] ELSE behind
     /\ UNCHANGED <<planned, pushed, pulled, log, call, failures, gaps>>

\* A sprint is added with the date it is planned for, or one that is pulled is.
Plan(s, lead) ==
  /\ Cardinality(planned[s]) < MaxSprints
  /\ planned' = [planned EXCEPT ![s] = @ \cup {Date(s) + lead}]
  /\ UNCHANGED <<rows, pushed, pulled, log, call, now, failures, gaps, behind>>

-----------------------------------------------------------------------------
(* The replay: rbook_db(action="backfill") when no file is uploaded. *)

\* The order of the query; in which order it takes rows of one time is not said,
\* and is here that of their ids.
Earlier(q, r) == q.at < r.at \/ (q.at = r.at /\ q.id.n < r.id.n)

Since(s) == {r \in rows[s] : r.at > pushed[s]}

\* Of rows with one content hash the first is pushed.
Deduplicated(S) ==
  {r \in S : Numbered => \A q \in S : q.text = r.text => ~Earlier(q, r)}

Replay(c) ==
  LET s == StoreOf(c)
      plans == {p \in planned[s] : p > pushed[s]}
  IN /\ call[c].pc = "idle"
     /\ Since(s) # {} \/ plans # {}
     /\ call' = [call EXCEPT ![c].pc = "push", ![c].since = pushed[s],
                             ![c].todo = Deduplicated(Since(s)), ![c].plans = plans]
     /\ UNCHANGED <<rows, planned, pushed, pulled, log, now, failures, gaps, behind>>

\* The first record of the list in the order of time; a sprint of its time is first.
IsNext(c, r) ==
  /\ \A q \in call[c].todo \ {r} : ~Earlier(q, r)
  /\ \A p \in call[c].plans : r.at < p

\* Mutant: a request without an answer counts as taken.
PushAssumed(c) ==
  /\ call[c].pc = "push"
  /\ \E r \in call[c].todo :
       /\ IsNext(c, r)
       /\ log' \in (IF StoreOf(c) \in Fallible THEN {log} ELSE {}) \cup {Append(log, r)}
       /\ call' = [call EXCEPT ![c].todo = @ \ {r}, ![c].done = r.at]
  /\ Len(log') <= MaxLog
  /\ UNCHANGED <<rows, planned, pushed, pulled, now, failures, gaps, behind>>

\* The next event is that of a record.  A failed one is counted and passed; the
\* broker may have taken it all the same.
Push(c) ==
  /\ call[c].pc = "push"
  /\ \E r \in call[c].todo :
       /\ IsNext(c, r)
       /\ \/ /\ log' = Append(log, r)
             /\ call' = [call EXCEPT ![c].todo = @ \ {r}, ![c].done = r.at]
          \/ /\ StoreOf(c) \in Fallible
             /\ log' \in {log, Append(log, r)}
             /\ call' = [call EXCEPT ![c].todo = @ \ {r}, ![c].failed = @ \cup {r}]
  /\ Len(log') <= MaxLog
  /\ UNCHANGED <<rows, planned, pushed, pulled, now, failures, gaps, behind>>

\* Mutant: the list is in the order of the kinds of events.
SprintsFirst(c) ==
  /\ call[c].pc = "push"
  /\ \E p \in call[c].plans :
       \/ call' = [call EXCEPT ![c].plans = @ \ {p}, ![c].done = p]
       \/ StoreOf(c) \in Fallible /\ call' = [call EXCEPT ![c].plans = @ \ {p}]
  /\ UNCHANGED <<rows, planned, pushed, pulled, log, now, failures, gaps, behind>>

\* The next event is that of a sprint.  Its table is not in this model, but the list
\* and the cursor are one for all kinds of events.
PushSprint(c) ==
  /\ call[c].pc = "push"
  /\ \E p \in call[c].plans :
       /\ \A q \in call[c].plans \cup {x.at : x \in call[c].todo} : p <= q
       /\ \/ call' = [call EXCEPT ![c].plans = @ \ {p}, ![c].done = p]
          \/ StoreOf(c) \in Fallible /\ call' = [call EXCEPT ![c].plans = @ \ {p}]
  /\ UNCHANGED <<rows, planned, pushed, pulled, log, now, failures, gaps, behind>>

\* Mutant: the cursor is where the list ended, also when the time limit cut it off.
FinishAtEnd(c) ==
  LET s == StoreOf(c)
      reached == IF call[c].todo # {} THEN (CHOOSE r \in call[c].todo : TRUE).at
                 ELSE call[c].done
      next == IF reached > call[c].since THEN reached ELSE pushed[s]
  IN /\ call[c].pc = "push"
     /\ pushed' = [pushed EXCEPT ![s] = next]
     /\ failures' = [failures EXCEPT ![s] =
                       @ \cup {r.text : r \in {x \in call[c].failed : x.at <= next}}]
     /\ call' = [call EXCEPT ![c] = IdleCall]
     /\ UNCHANGED <<rows, planned, pulled, log, now, gaps, behind>>

\* The list is done, or its time is up: the cursor goes to the last event that was
\* pushed, unless it was there when this call read it.
Finish(c) ==
  LET s == StoreOf(c)
      next == IF call[c].done > call[c].since THEN call[c].done ELSE pushed[s]
  IN /\ call[c].pc = "push"
     /\ pushed' = [pushed EXCEPT ![s] = next]
     /\ failures' = [failures EXCEPT ![s] =
                       @ \cup {r.text : r \in {x \in call[c].failed : x.at <= next}}]
     /\ call' = [call EXCEPT ![c] = IdleCall]
     /\ UNCHANGED <<rows, planned, pulled, log, now, gaps, behind>>

-----------------------------------------------------------------------------
(* The pull. *)

Least(a, b) == IF a < b THEN a ELSE b

\* A page behind position from, as the broker sends it.
Fetch(c, from, gap) ==
  LET to == Least(Len(log), from + PageLimit)
  IN call' = [call EXCEPT ![c] = [IdleCall EXCEPT !.pc = "merge", !.from = from, !.to = to,
                                                  !.more = to < Len(log), !.gap = gap]]

OpenPull(c) ==
  /\ call[c].pc = "idle" /\ pulled[StoreOf(c)] < Len(log)
  /\ Fetch(c, pulled[StoreOf(c)], FALSE)
  /\ UNCHANGED <<rows, planned, pushed, pulled, log, now, failures, gaps, behind>>

\* ON CONFLICT(id) DO NOTHING.
InsertUnion(S, incoming) == S \cup {r \in incoming : r.id \notin IdsIn(S)}

\* The rows that a page has for a table: of events with one id the first is
\* inserted, and the broker's mirror, which takes upserts, has the last.
Incoming(c) ==
  LET page == (call[c].from + 1)..call[c].to
      Stays(i, j) == IF call[c].pc = "merge" THEN i <= j ELSE j <= i
  IN {log[i] : i \in {x \in page : \A j \in page : log[j].id = log[x].id => Stays(x, j)}}

\* A page is one transaction.  An INSERT that fails is counted and passed; if the
\* citations cannot be repaired the page rolls back.
Merge(c) ==
  LET s == StoreOf(c)
  IN /\ call[c].pc \in {"merge", "state"}
     /\ \E failed \in SUBSET Incoming(c) :
          /\ failed # {} => s \in Fallible
          /\ rows' = [rows EXCEPT ![s] = InsertUnion(@, Incoming(c) \ failed)]
          /\ call' = [call EXCEPT ![c].pc = IF @ = "merge" THEN "cursor" ELSE "seed",
                                  ![c].gap = @ \/ failed # {}]
     /\ UNCHANGED <<planned, pushed, pulled, log, now, failures, gaps, behind>>

\* The cursor moves past the page, also when it rolled back: the answer says so.
\* Then the next page, unless the broker does not answer.
PersistCursor(c) ==
  LET s == StoreOf(c)
  IN /\ call[c].pc = "cursor"
     /\ pulled' = [pulled EXCEPT ![s] = call[c].to]
     /\ gaps' = IF call[c].gap THEN gaps \cup {s} ELSE gaps
     /\ \/ call[c].more /\ Fetch(c, call[c].to, call[c].gap)
        \/ /\ ~call[c].more \/ s \in Fallible
           /\ call' = [call EXCEPT ![c] = IdleCall]
     /\ UNCHANGED <<rows, planned, pushed, log, now, failures, behind>>

\* "reset the pull cursor and re-pull".
ResetPull(s) ==
  /\ s \in gaps
  /\ \A c \in Calls : StoreOf(c) = s => call[c].pc = "idle"
  /\ pulled' = [pulled EXCEPT ![s] = 0]
  /\ gaps' = gaps \ {s}
  /\ UNCHANGED <<rows, planned, pushed, log, call, now, failures, behind>>

-----------------------------------------------------------------------------
(* The clone. *)

\* The broker's mirror has a row per id, and the position its snapshot is of.
OpenClone(c) ==
  /\ call[c].pc = "idle"
  /\ StoreOf(c) \in Newcomers
  /\ pushed[StoreOf(c)] = 0 /\ pulled[StoreOf(c)] = 0 /\ log # <<>>
  /\ call' = [call EXCEPT ![c].pc = "state", ![c].to = Len(log)]
  /\ UNCHANGED <<rows, planned, pushed, pulled, log, now, failures, gaps, behind>>

\* Mutant: the position is set to where the log is by now.
SeedAtEnd(c) ==
  LET s == StoreOf(c)
  IN /\ call[c].pc = "seed"
     /\ pulled' = [pulled EXCEPT ![s] = Len(log)]
     /\ gaps' = IF call[c].gap THEN gaps \cup {s} ELSE gaps
     /\ call' = [call EXCEPT ![c] = IdleCall]
     /\ UNCHANGED <<rows, planned, pushed, log, now, failures, behind>>

\* The position of the snapshot, never behind one that is there.
Seed(c) ==
  LET s == StoreOf(c)
  IN /\ call[c].pc = "seed"
     /\ pulled' = [pulled EXCEPT ![s] = IF call[c].to > @ THEN call[c].to ELSE @]
     /\ gaps' = IF call[c].gap THEN gaps \cup {s} ELSE gaps
     /\ call' = [call EXCEPT ![c] = IdleCall]
     /\ UNCHANGED <<rows, planned, pushed, log, now, failures, behind>>

\* The process ends between two statements.
Die(c) ==
  /\ call[c].pc # "idle" /\ StoreOf(c) \in Fallible
  /\ call' = [call EXCEPT ![c] = IdleCall]
  /\ UNCHANGED <<rows, planned, pushed, pulled, log, now, failures, gaps, behind>>

-----------------------------------------------------------------------------
Step(c) ==
  \/ Replay(c) \/ Push(c) \/ PushSprint(c) \/ Finish(c)
  \/ OpenPull(c) \/ Merge(c) \/ PersistCursor(c)
  \/ OpenClone(c) \/ Seed(c)
  \/ Die(c)

Next ==
  \/ \E s \in Stores, text \in Texts, tick \in Ticks : Create(s, text, tick)
  \/ \E s \in Stores : \E lead \in Leads[s] : Plan(s, lead)
  \/ \E s \in Stores : ResetPull(s)
  \/ \E c \in Calls : Step(c)

Spec == Init /\ [][Next]_vars

-----------------------------------------------------------------------------
(* Properties. *)

\* Types of all variables, and one row per id in each table.
TypeOK ==
  /\ \A s \in Stores : rows[s] \subseteq Record
  /\ \A s \in Stores : \A q, r \in rows[s] : q.id = r.id => q = r
  /\ planned \in [Stores -> SUBSET Nat]
  /\ pushed \in [Stores -> Nat]
  /\ pulled \in [Stores -> 0..Len(log)]
  /\ log \in Seq(Record)
  /\ \A c \in Calls :
       /\ call[c].pc \in {"idle", "push", "merge", "cursor", "state", "seed"}
       /\ call[c].todo \cup call[c].failed \subseteq Record /\ call[c].plans \subseteq Nat
       /\ call[c].since \in Nat /\ call[c].done \in Nat /\ call[c].from \in Nat /\ call[c].to \in 0..Len(log)
       /\ call[c].more \in BOOLEAN /\ call[c].gap \in BOOLEAN
  /\ now \in Nat
  /\ failures \in [Stores -> SUBSET Texts]
  /\ gaps \subseteq Stores
  /\ behind \in [Stores -> SUBSET Record]

\* What a record says, or the record itself where equal records are two.
Pushed(r) == \E i \in 1..Len(log) : IF Numbered THEN log[i].text = r.text ELSE log[i] = r

\* The time cursor of the replay passes nothing that did not reach the broker,
\* unless the answer counted it as failed, or its time was reached before it was
\* made: not by a time limit, an overlapping replay, a record that was pulled
\* meanwhile, one that looks like another, or a sprint that is pushed among them
\* (rbook-db-backfill.ts: "Re-running only pushes events with timestamps after the
\* cursor").
NothingSkipped ==
  \A s \in Stores : \A r \in rows[s] :
    r.at <= pushed[s] => Pushed(r) \/ r.text \in failures[s] \/ r \in behind[s]

\* The same for all records: those are kept too whose time the cursor had reached
\* (rbook-db-backfill.ts:868 sorts events as instants, because otherwise "the cursor
\* then skips rows it never pushed").
CursorSkipsNone ==
  \A s \in Stores : \A r \in rows[s] :
    r.at <= pushed[s] => Pushed(r) \/ r.text \in failures[s]

\* A store whose position passed an event has a row with its id, unless it was told
\* to pull it again: over pages, rollbacks, clones and overlapping pulls.
PulledIsHeld ==
  \A s \in Stores : s \notin gaps =>
    \A i \in 1..pulled[s] : log[i].id \in IdsIn(rows[s])

\* Nothing to push, to pull, or to repeat, and no record was made too late.
Settled(s) ==
  /\ \A r \in rows[s] : r.at <= pushed[s]
  /\ pulled[s] = Len(log)
  /\ failures[s] = {} /\ s \notin gaps /\ behind[s] = {}

TextsIn(s) == {r.text : r \in rows[s]}

\* Two stores that are through hold the same records, where no two records were
\* given one id.
Agree ==
  \A s, t \in Stores :
    /\ Settled(s) /\ Settled(t)
    /\ \A q, r \in rows[s] \cup rows[t] : q.id = r.id => q = r
    => IF Numbered THEN TextsIn(s) = TextsIn(t) ELSE rows[s] = rows[t]

\* The same for all records: the merge of the append-only records is free of
\* conflicts.
ConflictFree ==
  \A s, t \in Stores : Settled(s) /\ Settled(t) => TextsIn(s) = TextsIn(t)
=============================================================================
