---------------------------- MODULE MissionSprint ----------------------------
(***************************************************************************)
(* Missions, the sprints they belong to, and the pointers to the current   *)
(* and the last completed sprint that master_context carries                *)
(* (sprint_tracking), as the tool calls of several server processes change *)
(* them in one store.                                                      *)
(*                                                                         *)
(* Some handlers do all their work inside BEGIN IMMEDIATE (drop, update,   *)
(* the close of a sprint): they are one step.  The others read the rows,   *)
(* decide, and write in later statements, which other processes may run    *)
(* between: they keep what they read in `call'.                            *)
(***************************************************************************)
EXTENDS Naturals, FiniteSets

CONSTANTS
  Calls,      \* tool calls in flight, each in a process of its own
  Missions, Sprints,
  None,       \* SQL NULL, JSON null
  Added,      \* the statuses that missions are added with
  Written,    \* the statuses that callers give to sprints
  Inbound,    \* the sprint statuses that another machine may send
  InboundMission,  \* and the mission statuses
  Fallible    \* calls whose process may die between two statements

ASSUME FallibleAreCalls == Fallible \subseteq Calls
ASSUME NoneIsNothing == None \notin Missions \cup Sprints

VARIABLES
  sprint,    \* sprints.status of each sprint; no tool deletes a sprint
  mission,   \* missions.status and missions.sprint_id
  tracking,  \* master_context.sprint_tracking
  call       \* where each call is, and what it has read

vars == <<sprint, mission, tracking, call>>

\* "Active" stands for the three open statuses, "active" for one of them in
\* another case, and "Archived" for the dead statuses.
SPRINT_OPEN_STATUSES == {"Active", "active"}
SPRINT_NO_OPEN_WORK_STATUSES == {"Completed", "Archived"}
SprintStatus == {"Planned"} \cup SPRINT_OPEN_STATUSES \cup SPRINT_NO_OPEN_WORK_STATUSES

MissionStatus ==
  {"Queued", "Current", "In Progress", "Completed", "Blocked", "Dropped", "Deferred"}

ASSUME AddedAreMissionStatuses == Added \cup InboundMission \subseteq MissionStatus
ASSUME WrittenAreSprintStatuses == Written \cup Inbound \subseteq SprintStatus

\* VALID_STATE_TRANSITIONS; nothing for the terminal statuses, nor for a legacy
\* status that the table does not know ("Archived").
TransitionsFrom(status) ==
  CASE status = "Queued"      -> {"Current", "In Progress", "Dropped", "Deferred"}
    [] status = "Current"     -> {"In Progress", "Blocked", "Dropped", "Deferred"}
    [] status = "In Progress" -> {"Completed", "Blocked", "Dropped", "Deferred"}
    [] status = "Blocked"     -> {"In Progress", "Current", "Dropped", "Deferred"}
    [] status = "Deferred"    -> {"Queued", "Current", "Dropped"}
    [] OTHER                  -> {}

Terminal == {"Completed", "Dropped"}

\* What rbook_mission(update) may repair an unrecognized status to.
Repairs == {"Queued", "Deferred", "Dropped"}

Mission == [status : MissionStatus \cup {"absent", "Archived"}, sprint : Sprints \cup {None}]

Tracking == [current : Sprints \cup {None}, last : Sprints \cup {None}]

NoTracking == [current |-> None, last |-> None]

Call == [pc : {"idle", "start", "status", "moving", "move", "add", "addSprint",
               "sync", "derive", "persist"},
         mission : Missions \cup {None}, sprint : Sprints \cup {None},
         from : MissionStatus \cup {"absent", "Archived"},
         to : MissionStatus \cup SprintStatus \cup {"absent"},
         read : Tracking, current : Sprints \cup {None}]

IdleCall == [pc |-> "idle", mission |-> None, sprint |-> None, from |-> "absent",
             to |-> "absent", read |-> NoTracking, current |-> None]

TypeOK ==
  /\ sprint \in [Sprints -> SprintStatus \cup {"absent"}]
  /\ mission \in [Missions -> Mission]
  /\ tracking \in Tracking
  /\ call \in [Calls -> Call]

\* A new store, or one with missions left by an older version.
Init ==
  /\ sprint = [s \in Sprints |-> "absent"]
  /\ mission \in [Missions -> [status : {"absent", "Archived"}, sprint : {None}]]
  /\ tracking = NoTracking
  /\ call = [c \in Calls |-> IdleCall]

Exists(m) == mission[m].status # "absent"

OpenSprints == {s \in Sprints : sprint[s] \in SPRINT_OPEN_STATUSES}

\* openSprintPointer compares the status exactly; with several open rows it
\* takes the newest.
OpenSprintPointers ==
  LET open == {s \in Sprints : sprint[s] = "Active"}
  IN IF open = {} THEN {None} ELSE open

\* Mutant: the call keeps the wrong column of the row it read.
ProceedWithRow(c, pc, m, s, to) ==
  call' = [call EXCEPT ![c] =
    [pc |-> pc, mission |-> m, sprint |-> s, to |-> to,
     from |-> IF m = None THEN "absent" ELSE mission[m].sprint,
     read |-> NoTracking, current |-> None]]

\* A call goes on at pc, with what it learnt; or it returns.
Proceed(c, pc, m, s, to) ==
  call' = [call EXCEPT ![c] =
    [pc |-> pc, mission |-> m, sprint |-> s, to |-> to,
     from |-> IF m = None THEN "absent" ELSE mission[m].status,
     read |-> NoTracking, current |-> None]]

Return(c) == call' = [call EXCEPT ![c] = IdleCall]

Idle(c) == call[c].pc = "idle"

-----------------------------------------------------------------------------
(* Mission transitions that read first and write later.                    *)

\* Mutant: the handler trusts the status it is asked for.
UncheckedTransition(c, m, to) ==
  /\ Idle(c)
  /\ Exists(m)
  /\ Proceed(c, "status", m, None, to)
  /\ UNCHANGED <<sprint, mission, tracking>>

\* The row is read and the transition found legal.
CheckTransition(c, m, to) ==
  /\ Idle(c)
  /\ Exists(m)
  /\ to \in TransitionsFrom(mission[m].status)
  /\ Proceed(c, "status", m, None, to)
  /\ UNCHANGED <<sprint, mission, tracking>>

Block(c, m) == CheckTransition(c, m, "Blocked")

Unblock(c, m) ==
  /\ mission[m].status = "Blocked"
  /\ \E to \in {"In Progress", "Current"} : CheckTransition(c, m, to)

Defer(c, m) == CheckTransition(c, m, "Deferred")

Complete(c, m) == CheckTransition(c, m, "Completed")

\* UPDATE missions SET status = ? WHERE id = ?: whatever the row holds by now.
WriteTransition(c) ==
  /\ call[c].pc = "status"
  /\ mission' = [mission EXCEPT ![call[c].mission].status = call[c].to]
  /\ Return(c)
  /\ UNCHANGED <<sprint, tracking>>

\* start refuses a blocked mission, which must be unblocked first.
Start(c, m) ==
  /\ Idle(c)
  /\ Exists(m)
  /\ mission[m].status # "Blocked"
  /\ "In Progress" \in TransitionsFrom(mission[m].status)
  /\ Proceed(c, "start", m, mission[m].sprint, "In Progress")
  /\ UNCHANGED <<sprint, mission, tracking>>

\* Mutant: the start activates a planned parent beside another open sprint.
ActivatesAnyPlanned(s) == s # None /\ sprint[s] = "Planned"

\* A planned parent is activated unless another sprint is open.
Activates(s) == s # None /\ sprint[s] = "Planned" /\ OpenSprints \ {s} = {}

\* The transaction of start: the parent it read may be activated, the mission
\* goes In Progress, and an activation is followed by syncSprintTracking.
CommitStart(c) ==
  LET parent == call[c].sprint IN
  /\ call[c].pc = "start"
  /\ mission' = [mission EXCEPT ![call[c].mission].status = call[c].to]
  /\ \/ /\ Activates(parent)
        /\ sprint' = [sprint EXCEPT ![parent] = "Active"]
        /\ Proceed(c, "sync", None, None, "absent")
     \/ /\ ~Activates(parent)
        /\ Return(c)
        /\ UNCHANGED sprint
  /\ UNCHANGED tracking

-----------------------------------------------------------------------------
(* Mission operations inside one transaction.                              *)

Drop(c, m) ==
  /\ Idle(c)
  /\ Exists(m)
  /\ "Dropped" \in TransitionsFrom(mission[m].status)
  /\ mission' = [mission EXCEPT ![m].status = "Dropped"]
  /\ UNCHANGED <<sprint, tracking, call>>

\* rbook_mission(update) with a status; it alone may repair a legacy status.
Update(c, m, to) ==
  /\ Idle(c)
  /\ Exists(m)
  /\ \/ to \in TransitionsFrom(mission[m].status)
     \/ mission[m].status = "Archived" /\ to \in Repairs
  /\ mission' = [mission EXCEPT ![m].status = to]
  /\ UNCHANGED <<sprint, tracking, call>>

\* applyInboundMutableStatus writes the status that another machine sent, whatever
\* the row holds; so it does with the answer to a push of this machine's own.
ReceiveMissionStatus(c, m, status) ==
  /\ Idle(c)
  /\ Exists(m)
  /\ mission' = [mission EXCEPT ![m].status = status]
  /\ UNCHANGED <<sprint, tracking, call>>

-----------------------------------------------------------------------------
(* Missions bound to sprints.                                              *)

\* add: the sprint is named, or inferred when exactly one is open, or none; the
\* status is any valid one.
AddMission(c, m, s, status) ==
  /\ Idle(c)
  /\ ~Exists(m)
  /\ s # None => sprint[s] # "absent"
  /\ Proceed(c, "add", m, s, status)
  /\ UNCHANGED <<sprint, mission, tracking>>

\* Its INSERT fails on an id that another call has taken.
InsertMission(c) ==
  LET m == call[c].mission IN
  /\ call[c].pc = "add"
  /\ mission' = IF Exists(m) THEN mission
                ELSE [mission EXCEPT ![m] = [status |-> call[c].to, sprint |-> call[c].sprint]]
  /\ Return(c)
  /\ UNCHANGED <<sprint, tracking>>

\* move reads the mission first ...
Move(c, m, s) ==
  /\ Idle(c)
  /\ Exists(m)
  /\ mission[m].sprint # s
  /\ Proceed(c, "moving", m, s, "absent")
  /\ UNCHANGED <<sprint, mission, tracking>>

LiveDestination(s) == sprint[s] \notin {"absent"} \cup SPRINT_NO_OPEN_WORK_STATUSES

\* ... then the destination, and refuses a dead one or a mission without future.
CheckMove(c) ==
  /\ call[c].pc = "moving"
  /\ IF LiveDestination(call[c].sprint) /\ TransitionsFrom(call[c].from) # {}
       THEN call' = [call EXCEPT ![c].pc = "move"]
       ELSE Return(c)
  /\ UNCHANGED <<sprint, mission, tracking>>

WriteMove(c) ==
  /\ call[c].pc = "move"
  /\ mission' = [mission EXCEPT ![call[c].mission].sprint = call[c].sprint]
  /\ Return(c)
  /\ UNCHANGED <<sprint, tracking>>

-----------------------------------------------------------------------------
(* Sprints.                                                                *)

\* writeSingleCurrentSprint: every other open sprint is demoted with the write.
WithSingleCurrent(s, status) ==
  [t \in Sprints |-> IF t = s THEN status
                     ELSE IF t \in OpenSprints THEN "Planned" ELSE sprint[t]]

SetSprint(s, status) ==
  sprint' = IF status \in SPRINT_OPEN_STATUSES THEN WithSingleCurrent(s, status)
            ELSE [sprint EXCEPT ![s] = status]

AddSprint(c, s, status) ==
  /\ Idle(c)
  /\ sprint[s] = "absent"
  /\ Proceed(c, "addSprint", None, s, status)
  /\ UNCHANGED <<sprint, mission, tracking>>

\* Mutant: the demotion is committed although the INSERT fails.
InsertSprintAfterDemotion(c) ==
  LET s == call[c].sprint  status == call[c].to IN
  /\ call[c].pc = "addSprint"
  /\ IF sprint[s] # "absent"
       THEN /\ sprint' = IF status \in SPRINT_OPEN_STATUSES
                           THEN WithSingleCurrent(s, sprint[s]) ELSE sprint
            /\ Return(c)
       ELSE /\ SetSprint(s, status)
            /\ IF status \in SPRINT_OPEN_STATUSES
                 THEN Proceed(c, "sync", None, None, "absent")
                 ELSE Return(c)
  /\ UNCHANGED <<mission, tracking>>

\* The INSERT of a taken id fails and rolls back the demotions before it; only
\* an open sprint is followed by syncSprintTracking.
InsertSprint(c) ==
  LET s == call[c].sprint  status == call[c].to IN
  /\ call[c].pc = "addSprint"
  /\ IF sprint[s] # "absent"
       THEN Return(c) /\ UNCHANGED sprint
       ELSE /\ SetSprint(s, status)
            /\ IF status \in SPRINT_OPEN_STATUSES
                 THEN Proceed(c, "sync", None, None, "absent")
                 ELSE Return(c)
  /\ UNCHANGED <<mission, tracking>>

\* rbook_sprint(update) with a status: any status may follow any other.
UpdateSprint(c, s, status) ==
  /\ Idle(c)
  /\ sprint[s] # "absent"
  /\ SetSprint(s, status)
  /\ Proceed(c, "sync", None, IF status = "Completed" THEN s ELSE None, "absent")
  /\ UNCHANGED <<mission, tracking>>

\* Missions that keep a sprint from closing (summarizeSprintReadiness).
OpenMissions(s) ==
  {m \in Missions : /\ Exists(m)
                    /\ mission[m].sprint = s
                    /\ mission[m].status \notin {"Completed", "Blocked", "Dropped", "Deferred"}}

\* Mutant: the pointer is read before the close and not corrected.
PointersBeforeClose(s) == OpenSprintPointers

\* nextOpenSprint: the open sprint that remains once s completes.
NextOpenSprints(s) == {IF p = s THEN None ELSE p : p \in OpenSprintPointers}

\* The transaction of rbook_sprint(complete).
CompleteSprint(c, s) ==
  /\ Idle(c)
  /\ sprint[s] \notin {"absent", "Completed"}
  /\ OpenMissions(s) = {}
  /\ sprint' = [sprint EXCEPT ![s] = "Completed"]
  /\ \E next \in NextOpenSprints(s) : tracking' = [current |-> next, last |-> s]
  /\ UNCHANGED <<mission, call>>

\* applyInboundMutableStatus writes the status that another machine sent.
ReceiveSprintStatus(c, s, status) ==
  /\ Idle(c)
  /\ sprint[s] # "absent"
  /\ sprint' = [sprint EXCEPT ![s] = status]
  /\ UNCHANGED <<mission, tracking, call>>

-----------------------------------------------------------------------------
(* syncSprintTracking: three statements after the sprint's transaction.    *)

ReadContext(c) ==
  /\ call[c].pc = "sync"
  /\ call' = [call EXCEPT ![c].pc = "derive", ![c].read = tracking]
  /\ UNCHANGED <<sprint, mission, tracking>>

DerivePointer(c) ==
  /\ call[c].pc = "derive"
  /\ \E p \in OpenSprintPointers :
       call' = [call EXCEPT ![c].pc = "persist", ![c].current = p]
  /\ UNCHANGED <<sprint, mission, tracking>>

PersistContext(c) ==
  /\ call[c].pc = "persist"
  /\ tracking' = [current |-> call[c].current,
                  last |-> IF call[c].sprint = None THEN call[c].read.last ELSE call[c].sprint]
  /\ Return(c)
  /\ UNCHANGED <<sprint, mission>>

\* The process dies, or a statement fails: what is committed stays.
Interrupt(c) ==
  /\ c \in Fallible
  /\ ~Idle(c)
  /\ Return(c)
  /\ UNCHANGED <<sprint, mission, tracking>>

MissionStep(c, m) ==
  \/ Start(c, m) \/ Block(c, m) \/ Unblock(c, m) \/ Defer(c, m) \/ Complete(c, m)
  \/ Drop(c, m)
  \/ \E to \in MissionStatus : Update(c, m, to)
  \/ \E status \in InboundMission : ReceiveMissionStatus(c, m, status)
  \/ \E s \in Sprints \cup {None}, status \in Added : AddMission(c, m, s, status)
  \/ \E s \in Sprints : Move(c, m, s)

SprintStep(c, s) ==
  \/ \E status \in Written : AddSprint(c, s, status) \/ UpdateSprint(c, s, status)
  \/ CompleteSprint(c, s)
  \/ \E status \in Inbound : ReceiveSprintStatus(c, s, status)

ContinueCall(c) ==
  \/ WriteTransition(c) \/ CommitStart(c)
  \/ InsertMission(c) \/ CheckMove(c) \/ WriteMove(c) \/ InsertSprint(c)
  \/ ReadContext(c) \/ DerivePointer(c) \/ PersistContext(c)
  \/ Interrupt(c)

Next ==
  \E c \in Calls :
    \/ \E m \in Missions : MissionStep(c, m)
    \/ \E s \in Sprints : SprintStep(c, s)
    \/ ContinueCall(c)

Spec == Init /\ [][Next]_vars

-----------------------------------------------------------------------------
(* Correctness.                                                            *)

\* The single-current-sprint invariant: additions, updates, activations by a
\* mission start and closes of several processes never leave two sprints open,
\* in whatever case their status is spelt.
AtMostOneOpenSprint ==
  \A s, t \in OpenSprints : s = t

\* A sprint is demoted only in the step that opens its successor, or by a caller
\* that asks for it: an INSERT that loses the race for an id demotes nobody.
DemotedOnlyByASuccessor ==
  [][\A s \in OpenSprints : sprint'[s] = "Planned" =>
       \/ \E t \in Sprints \ {s} : t \notin OpenSprints /\ sprint'[t] \in SPRINT_OPEN_STATUSES
       \/ \E c \in Calls : UpdateSprint(c, s, "Planned")]_vars

\* A status changes along the table, or to a repair, or as another machine sent it,
\* or is overwritten by a call that had read another status: the damage of a race
\* between calls is a lost update, never an invented transition.
LegalUnlessOvertaken ==
  [][\A m \in Missions : mission'[m].status # mission[m].status =>
       \/ mission[m].status = "absent"
       \/ mission'[m].status \in TransitionsFrom(mission[m].status)
       \/ mission[m].status = "Archived" /\ mission'[m].status \in Repairs
       \/ \E c \in Calls : /\ call[c].pc \in {"start", "status"}
                           /\ call[c].mission = m
                           /\ call[c].from # mission[m].status
                           /\ mission'[m].status \in TransitionsFrom(call[c].from)
       \/ \E c \in Calls, status \in InboundMission : ReceiveMissionStatus(c, m, status)]_vars

\* The close of a sprint leaves both pointers right, although it computes the
\* current one before it closes the sprint.
CloseLeavesPointersRight ==
  [][\A c \in Calls, s \in Sprints : CompleteSprint(c, s) =>
       /\ tracking'.last = s
       /\ IF tracking'.current = None
            THEN \A t \in Sprints : sprint'[t] # "Active"
            ELSE sprint'[tracking'.current] = "Active"]_vars

\* sprint_tracking is in step with the sprints table whenever no call is under
\* way ("keeps master_context.sprint_tracking in step").
TrackingInStep ==
  (\A c \in Calls : Idle(c)) =>
     IF tracking.current = None THEN OpenSprints = {}
     ELSE tracking.current \in OpenSprints

\* A completed or dropped mission keeps its status, unless another machine sends
\* one ("cannot be re-activated").
TerminalIsFinal ==
  [][\A m \in Missions : mission[m].status \in Terminal =>
       \/ mission'[m].status = mission[m].status
       \/ \E c \in Calls, status \in InboundMission : ReceiveMissionStatus(c, m, status)]_vars

\* A mission moves only into a sprint that can hold open work ("refuses closed
\* destinations").
MovesNeedLiveDestination ==
  [][\A m \in Missions : Exists(m) /\ mission'[m].sprint # mission[m].sprint =>
       sprint[mission'[m].sprint] \notin SPRINT_NO_OPEN_WORK_STATUSES]_vars

-----------------------------------------------------------------------------
(* What the calls under way rely on, for the proofs.                       *)

CallKnows(c) ==
  /\ call[c].pc \in {"start", "status"} =>
       call[c].mission \in Missions /\ call[c].to \in TransitionsFrom(call[c].from)
  /\ call[c].pc = "add" => call[c].mission \in Missions /\ call[c].to \in MissionStatus
  /\ call[c].pc = "addSprint" => call[c].sprint \in Sprints /\ call[c].to \in SprintStatus
  /\ call[c].pc \in {"moving", "move"} => call[c].mission \in Missions /\ call[c].sprint \in Sprints

\* Whatever a call writes, it had found legal in the rows it read.
CallsKnow == \A c \in Calls : CallKnows(c)

=============================================================================
