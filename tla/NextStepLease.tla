---------------------------- MODULE NextStepLease ----------------------------
(***************************************************************************)
(* The lease of next steps.  An open next step is dropped by the close of a *)
(* sprint when it has survived LAPSE_AT closes since it was last carried,   *)
(* or since it was made, and is old enough.  Closes are not counted by an   *)
(* event: they are read off the sprints, by status and end_date, a column   *)
(* that also holds planned dates, and that several tools, another machine   *)
(* and a repair write.                                                      *)
(***************************************************************************)
EXTENDS Naturals, FiniteSets

CONSTANTS
  Calls, Steps, Sprints,
  LAPSE_AT,   \* LEASE_LAPSE_AT, closes
  MIN_AGE,    \* LEASE_MIN_AGE_DAYS
  Dates,      \* the end dates that callers give: planned ones, and 0 for none
  MAX_TIME    \* bound

Bounds ==
  /\ LAPSE_AT \in Nat \ {0} /\ MIN_AGE \in Nat /\ MAX_TIME \in Nat
  /\ Dates \subseteq Nat /\ 0 \in Dates
  /\ IsFiniteSet(Sprints)

ASSUME NextStepLeaseAssumption == Bounds

VARIABLES
  sprint,    \* sprints: status ("absent", "open" for all but Completed, "Completed"), end_date
  event,     \* when a sprint was closed last as session_events has it, or else the
             \* context_snapshots, 0 for never
  repaired,  \* metadata sprint_end_date_repair_v1
  step,      \* next_steps: status ("resolved" for completed and dropped), created_at, resolved_at (0 for NULL)
  call,      \* calls that have read the clock, or a row, and not yet written
  now,
  closed     \* history: when the close was committed that wrote the end_date of a
             \* sprint; 0 if its end_date is of another origin

vars == <<sprint, event, repaired, step, call, now, closed>>

IdleCall == [pc |-> "idle", at |-> 0, steps |-> {}]

\* A store of an older version, which closed some sprints at time 1, left their
\* planned end dates in place, and did not record all of the closes.
Init ==
  /\ now = 2
  /\ \E old \in SUBSET Sprints, end \in [Sprints -> Dates], recorded \in BOOLEAN :
       /\ sprint = [s \in Sprints |->
                      IF s \notin old THEN [status |-> "absent", end |-> 0]
                      ELSE [status |-> "Completed", end |-> IF end[s] = 0 THEN 1 ELSE end[s]]]
       /\ event = [s \in Sprints |-> IF s \in old /\ recorded THEN 1 ELSE 0]
  /\ closed = event
  /\ repaired = FALSE
  /\ step = [n \in Steps |-> [status |-> "absent", created |-> 0, resolved |-> 0]]
  /\ call = [c \in Calls |-> IdleCall]

Tick ==
  /\ now < MAX_TIME
  /\ now' = now + 1
  /\ UNCHANGED <<sprint, event, repaired, step, call, closed>>

Idle(c) == call[c].pc = "idle"

Return(c) == call' = [call EXCEPT ![c] = IdleCall]

-----------------------------------------------------------------------------
(* Next steps.                                                             *)

Open(n) == step[n].status \in {"pending", "carried"}

\* The completion of a session reads the clock when it starts ...
StartInsert(c, n) ==
  /\ Idle(c) /\ step[n].status = "absent"
  /\ call' = [call EXCEPT ![c] = [IdleCall EXCEPT !.pc = "insert", !.at = now, !.steps = {n}]]
  /\ UNCHANGED <<sprint, event, repaired, step, now, closed>>

\* ... and inserts what is not there yet after it has awaited embeddings.
Insert(c) ==
  /\ call[c].pc = "insert"
  /\ step' = [n \in Steps |->
                IF n \in call[c].steps /\ step[n].status = "absent"
                  THEN [status |-> "pending", created |-> call[c].at, resolved |-> 0] ELSE step[n]]
  /\ Return(c)
  /\ UNCHANGED <<sprint, event, repaired, now, closed>>

\* A carry reads the clock, and then waits for the database.
StartCarry(c, S) ==
  /\ Idle(c)
  /\ call' = [call EXCEPT ![c] = [IdleCall EXCEPT !.pc = IF S = {} THEN "carryAll" ELSE "carry",
                                                  !.at = now, !.steps = S]]
  /\ UNCHANGED <<sprint, event, repaired, step, now, closed>>

Carried(n, at) == [step[n] EXCEPT !.status = "carried", !.resolved = at]

\* One statement for each id that was named ...
Carry(c, n) ==
  /\ call[c].pc = "carry" /\ n \in call[c].steps
  /\ step' = IF Open(n) THEN [step EXCEPT ![n] = Carried(n, call[c].at)] ELSE step
  /\ IF call[c].steps = {n} THEN Return(c) ELSE call' = [call EXCEPT ![c].steps = @ \ {n}]
  /\ UNCHANGED <<sprint, event, repaired, now, closed>>

\* ... or one for all open rows, when none was.
CarryAll(c) ==
  /\ call[c].pc = "carryAll"
  /\ step' = [n \in Steps |-> IF Open(n) THEN Carried(n, call[c].at) ELSE step[n]]
  /\ Return(c)
  /\ UNCHANGED <<sprint, event, repaired, now, closed>>

\* complete, and drop by hand.
Resolve(n) ==
  /\ Open(n)
  /\ step' = [step EXCEPT ![n].status = "resolved", ![n].resolved = now]
  /\ UNCHANGED <<sprint, event, repaired, call, now, closed>>

Reopen(n) ==
  /\ step[n].status \in {"resolved", "carried"}
  /\ step' = [step EXCEPT ![n].status = "pending",
                          ![n].resolved = IF step[n].status = "carried" THEN @ ELSE 0]
  /\ UNCHANGED <<sprint, event, repaired, call, now, closed>>

-----------------------------------------------------------------------------
(* Sprints.                                                                *)

AddSprint(s, status, end) ==
  /\ sprint[s].status = "absent"
  /\ sprint' = [sprint EXCEPT ![s] = [status |-> status, end |-> end]]
  /\ UNCHANGED <<event, repaired, step, call, now, closed>>

\* rbook_sprint(update) reads the row, and with it decides whether it closes the
\* sprint.  `to' and `end' are what it was given, "" and {} for nothing.  A close
\* brings the time, unless an end date was given.
StartUpdate(c, s, to, end) ==
  /\ Idle(c) /\ sprint[s].status # "absent"
  /\ LET closing == to = "Completed" /\ sprint[s].status # "Completed" /\ end \subseteq {0}
     IN call' = [call EXCEPT ![c] = [pc |-> "update", sprint |-> s, to |-> to,
                                     closing |-> closing, end |-> IF closing THEN {now} ELSE end]]
  /\ UNCHANGED <<sprint, event, repaired, step, now, closed>>

\* The row is written whatever it has become.
WriteSprint(c) ==
  /\ call[c].pc = "update"
  /\ LET s == call[c].sprint
         to == call[c].to
     IN /\ sprint' = [sprint EXCEPT ![s].status = IF to = "" THEN @ ELSE to,
                                    ![s].end = IF call[c].end = {} THEN @ ELSE CHOOSE d \in call[c].end : TRUE]
        /\ closed' = [closed EXCEPT ![s] = IF call[c].closing THEN now
                                           ELSE IF call[c].end # {} \/ to = "Completed" THEN 0 ELSE @]
  /\ Return(c)
  /\ UNCHANGED <<event, repaired, step, now>>

\* A status from another machine; the end_date that it has there does not come along.
ReceiveStatus(s, status) ==
  /\ sprint[s].status # "absent"
  /\ sprint' = [sprint EXCEPT ![s].status = status]
  /\ closed' = IF status = "Completed" THEN [closed EXCEPT ![s] = 0] ELSE closed
  /\ UNCHANGED <<event, repaired, step, call, now>>

-----------------------------------------------------------------------------
(* The close of a sprint.                                                  *)

\* The repair of end dates, until it went through once: a later date than the
\* recorded close is that of a plan.
Misdated ==
  {s \in Sprints : /\ ~repaired /\ event[s] # 0
                   /\ sprint[s].status = "Completed" /\ sprint[s].end > event[s]}

Repaired(S) ==
  [s \in Sprints |-> IF s \in S THEN [sprint[s] EXCEPT !.end = event[s]] ELSE sprint[s]]

Anchor(n) == IF step[n].resolved # 0 THEN step[n].resolved ELSE step[n].created

\* CLOSES_SURVIVED_SQL.
ClosesSurvived(n, rows) ==
  Cardinality({s \in Sprints : /\ rows[s].status = "Completed" /\ rows[s].end # 0
                               /\ rows[s].end <= now /\ rows[s].end > Anchor(n)})

\* leaseState "lapsing" for an open row, as the survey of the close finds it.
Lapsed(rows) ==
  {n \in Steps : Open(n) /\ ClosesSurvived(n, rows) >= LAPSE_AT /\ now - Anchor(n) >= MIN_AGE}

DropLapsed(rows) ==
  step' = [n \in Steps |-> IF n \in Lapsed(rows) THEN [step[n] EXCEPT !.status = "resolved", !.resolved = now]
                           ELSE step[n]]

\* Mutant: a planned end date is kept, as COALESCE(end_date, ?) did.
KeepPlanned(rows, s) == [rows EXCEPT ![s] = [status |-> "Completed", end |-> IF @.end = 0 THEN now ELSE @.end]]

CompleteSprintRecord(rows, s) == [rows EXCEPT ![s] = [status |-> "Completed", end |-> now]]

\* rbook_sprint(complete), one transaction: the repair, the survey of what lapses
\* and its drop, and only then the end date of this close.  A statement of the
\* repair may fail: the close goes on, and the next one repairs again.  The snapshot
\* is of the transaction, the event follows the commit, if the process lives; only
\* a repair yet to come reads them.
Close(s) ==
  \E S \in SUBSET Misdated :
     /\ sprint[s].status = "open"
     /\ repaired' \in IF S = Misdated THEN {repaired, TRUE} ELSE {FALSE}
     /\ DropLapsed(Repaired(S))
     /\ sprint' = CompleteSprintRecord(Repaired(S), s)
     /\ \E e \in IF repaired' THEN {event[s]} ELSE {now} \cup ({event[s]} \ {0}) :
          event' = [event EXCEPT ![s] = e]
     /\ closed' = [closed EXCEPT ![s] = now]
     /\ UNCHANGED <<call, now>>

\* The process ends, or a statement fails: what is committed stays.
Interrupt(c) ==
  /\ ~Idle(c)
  /\ Return(c)
  /\ UNCHANGED <<sprint, event, repaired, step, now, closed>>

CallStep(c) ==
  \/ \E n \in Steps : StartInsert(c, n) \/ Carry(c, n)
  \/ \E S \in SUBSET Steps : StartCarry(c, S)
  \/ \E s \in Sprints, to \in {"", "open", "Completed"}, end \in {{}} \cup {{d} : d \in Dates} :
       StartUpdate(c, s, to, end)
  \/ Insert(c) \/ CarryAll(c) \/ WriteSprint(c)
  \/ Interrupt(c)

Next ==
  \/ Tick
  \/ \E c \in Calls : CallStep(c)
  \/ \E n \in Steps : Resolve(n) \/ Reopen(n)
  \/ \E s \in Sprints, status \in {"open", "Completed"} :
       ReceiveStatus(s, status) \/ \E end \in Dates : AddSprint(s, status, end)
  \/ \E s \in Sprints : Close(s)

Spec == Init /\ [][Next]_vars

-----------------------------------------------------------------------------
(* Correctness.                                                            *)

\* A close drops a next step only if at least LAPSE_AT sprints were closed after
\* the step was made or carried, by a tool that ran here: no planned date, no date
\* of an older version, no sprint that was closed before, and not the close itself
\* is counted.  Sprints whose end date no close wrote (it was given by hand, or the
\* close was another machine's) count as their repaired dates say.  A close whose
\* repair failed still goes by the dates that it found.
DroppedAfterRealCloses ==
  [][\A s \in Sprints, n \in Steps :
       Close(s) /\ repaired' /\ Open(n) /\ step'[n].status = "resolved" =>
         /\ Cardinality({t \in Sprints \ {s} :
                            IF closed[t] # 0 THEN closed[t] > Anchor(n)
                            ELSE /\ sprint[t].status = "Completed"
                                 /\ Repaired(Misdated)[t].end \in (Anchor(n) + 1)..now})
              >= LAPSE_AT
         /\ now >= Anchor(n) + MIN_AGE]_vars

=============================================================================
