------------------------ MODULE MissionSprint_proofs ------------------------
(***************************************************************************)
(* Proofs about MissionSprint, for any number of processes, missions and   *)
(* sprints.  The single-current-sprint invariant needs nothing but the     *)
(* transactions themselves; the laws of the mission transitions rest on    *)
(* CallsKnow, what a call under way keeps of the rows it read.  At the end,*)
(* the lease of next steps, which reads the closes off the sprints.        *)
(***************************************************************************)
EXTENDS MissionSprint, FiniteSetTheorems, TLAPS

NoInboundOpen == Inbound \cap SPRINT_OPEN_STATUSES = {}

-----------------------------------------------------------------------------
(* What a step of a call leaves in `call'.                                 *)

Parked == MissionStatus \cup {"absent", "Archived"}

LEMMA IdleCallType == IdleCall \in Call
BY DEF IdleCall, Call, Tracking, NoTracking

\* A transition of the table ends in a status of a mission, and never starts in
\* a terminal one.
LEMMA TransitionTypes ==
  ASSUME NEW status, NEW to \in TransitionsFrom(status)
  PROVE  to \in MissionStatus /\ status \in MissionStatus \ Terminal
BY DEF TransitionsFrom, MissionStatus, Terminal

LEMMA ReturnTypes ==
  ASSUME TypeOK, CallsKnow, NEW c \in Calls, Return(c)
  PROVE  call' \in [Calls -> Call] /\ CallsKnow'
<1>1. call' \in [Calls -> Call]
  BY IdleCallType DEF TypeOK, Return
<1>2. ASSUME NEW d \in Calls PROVE CallKnows(d)'
  <2>1. CASE d = c
    BY <2>1 DEF TypeOK, Return, IdleCall, CallKnows
  <2>2. CASE d # c
    BY <2>2 DEF TypeOK, Return, CallsKnow, CallKnows
  <2>3. QED
    BY <2>1, <2>2
<1>3. QED
  BY <1>1, <1>2 DEF CallsKnow

LEMMA ProceedTypes ==
  ASSUME TypeOK, CallsKnow, NEW c \in Calls, NEW pc, NEW m, NEW s, NEW to,
         Proceed(c, pc, m, s, to),
         pc \in {"start", "status", "moving", "add", "addSprint", "sync"},
         m \in Missions \cup {None}, s \in Sprints \cup {None},
         to \in MissionStatus \cup SprintStatus \cup {"absent"},
         pc \in {"start", "status"} => m \in Missions /\ to \in TransitionsFrom(mission[m].status),
         pc = "add" => m \in Missions /\ to \in MissionStatus,
         pc = "addSprint" => s \in Sprints /\ to \in SprintStatus,
         pc = "moving" => m \in Missions /\ s \in Sprints
  PROVE  call' \in [Calls -> Call] /\ CallsKnow'
<1> DEFINE from == IF m = None THEN "absent" ELSE mission[m].status
           next == [pc |-> pc, mission |-> m, sprint |-> s, to |-> to, from |-> from,
                    read |-> NoTracking, current |-> None]
<1>1. from \in Parked
  BY DEF TypeOK, Mission, Parked
<1>2. /\ next \in Call
      /\ next.pc = pc /\ next.mission = m /\ next.sprint = s /\ next.to = to
      /\ next.from = from
  <2>1. NoTracking \in Tracking
    BY DEF NoTracking, Tracking
  <2> HIDE DEF from
  <2>2. QED
    BY <1>1, <2>1 DEF Call, Parked
<1>3. call' = [call EXCEPT ![c] = next]
  BY DEF Proceed
<1>4. call' \in [Calls -> Call]
  BY <1>2, <1>3 DEF TypeOK
<1>5. ASSUME NEW d \in Calls PROVE CallKnows(d)'
  <2>1. CASE d = c
    <3>1. call'[d] = next
      BY <1>3, <2>1 DEF TypeOK
    <3>2. m \in Missions => from = mission[m].status
      BY NoneIsNothing
    <3> HIDE DEF next, from
    <3>3. QED
      BY <1>2, <3>1, <3>2 DEF CallKnows
  <2>2. CASE d # c
    BY <1>3, <2>2 DEF TypeOK, CallsKnow, CallKnows
  <2>3. QED
    BY <2>1, <2>2
<1>6. QED
  BY <1>4, <1>5 DEF CallsKnow

-----------------------------------------------------------------------------
(* Types.                                                                  *)

\* The typing invariant, with what the calls know.
Typed == TypeOK /\ CallsKnow

LEMMA TypedInit == Init => Typed
<1> SUFFICES ASSUME Init PROVE Typed
  OBVIOUS
<1>1. TypeOK
  <2>1. mission \in [Missions -> Mission]
    BY DEF Init, Mission
  <2>2. QED
    BY <2>1, IdleCallType DEF Init, TypeOK, Tracking, NoTracking
<1>2. CallsKnow
  BY DEF Init, CallsKnow, CallKnows, IdleCall
<1>3. QED
  BY <1>1, <1>2 DEF Typed

\* A write of a status keeps the sprints well typed, demotions included.
LEMMA SetSprintTypes ==
  ASSUME TypeOK, NEW s \in Sprints, NEW status \in SprintStatus, SetSprint(s, status)
  PROVE  sprint' \in [Sprints -> SprintStatus \cup {"absent"}]
<1>1. "Planned" \in SprintStatus
  BY DEF SprintStatus
<1>2. QED
  BY <1>1 DEF TypeOK, SetSprint, WithSingleCurrent

LEMMA MissionTyped ==
  ASSUME Typed, NEW c \in Calls, NEW m \in Missions, MissionStep(c, m)
  PROVE  Typed'
<1> USE DEF Typed
<1>1. ASSUME NEW to, CheckTransition(c, m, to) PROVE Typed'
  <2>1. to \in MissionStatus
    BY <1>1, TransitionTypes DEF CheckTransition
  <2>2. call' \in [Calls -> Call] /\ CallsKnow'
    BY <1>1, <2>1, ProceedTypes DEF CheckTransition
  <2>3. QED
    BY <1>1, <2>2 DEF CheckTransition, TypeOK
<1>2. CASE Start(c, m)
  <2>1. mission[m].sprint \in Sprints \cup {None}
    BY DEF TypeOK, Mission
  <2>2. "In Progress" \in MissionStatus
    BY DEF MissionStatus
  <2>3. call' \in [Calls -> Call] /\ CallsKnow'
    BY <1>2, <2>1, <2>2, ProceedTypes DEF Start
  <2>4. QED
    BY <1>2, <2>3 DEF Start, TypeOK
<1>3. ASSUME NEW to \in MissionStatus, mission' = [mission EXCEPT ![m].status = to],
             UNCHANGED <<sprint, tracking, call>>
      PROVE  Typed'
  <2>1. mission' \in [Missions -> Mission]
    BY <1>3 DEF TypeOK, Mission
  <2>2. QED
    BY <1>3, <2>1 DEF TypeOK, CallsKnow, CallKnows
<1>4. CASE Drop(c, m)
  BY <1>3, <1>4 DEF Drop, MissionStatus
<1>5. ASSUME NEW to \in MissionStatus, Update(c, m, to) PROVE Typed'
  BY <1>3, <1>5 DEF Update
<1>9. ASSUME NEW status \in InboundMission, ReceiveMissionStatus(c, m, status) PROVE Typed'
  <2>1. status \in MissionStatus
    BY AddedAreMissionStatuses
  <2>2. QED
    BY <1>3, <1>9, <2>1 DEF ReceiveMissionStatus
<1>6. ASSUME NEW s \in Sprints \cup {None}, NEW status \in Added, AddMission(c, m, s, status)
      PROVE  Typed'
  <2>1. status \in MissionStatus
    BY AddedAreMissionStatuses
  <2>2. call' \in [Calls -> Call] /\ CallsKnow'
    BY <1>6, <2>1, ProceedTypes DEF AddMission
  <2>3. QED
    BY <1>6, <2>2 DEF AddMission, TypeOK
<1>7. ASSUME NEW s \in Sprints, Move(c, m, s) PROVE Typed'
  <2>1. call' \in [Calls -> Call] /\ CallsKnow'
    BY <1>7, ProceedTypes DEF Move
  <2>2. QED
    BY <1>7, <2>1 DEF Move, TypeOK
<1>8. QED
  BY <1>1, <1>2, <1>4, <1>5, <1>6, <1>7, <1>9
     DEF MissionStep, Block, Unblock, Defer, Complete

LEMMA SprintTyped ==
  ASSUME Typed, NEW c \in Calls, NEW s \in Sprints, SprintStep(c, s)
  PROVE  Typed'
<1> USE DEF Typed
<1>1. ASSUME NEW status \in Written, AddSprint(c, s, status) PROVE Typed'
  <2>1. status \in SprintStatus
    BY WrittenAreSprintStatuses
  <2>2. call' \in [Calls -> Call] /\ CallsKnow'
    BY <1>1, <2>1, ProceedTypes DEF AddSprint
  <2>3. QED
    BY <1>1, <2>2 DEF AddSprint, TypeOK
<1>2. ASSUME NEW status \in Written, UpdateSprint(c, s, status) PROVE Typed'
  <2>1. status \in SprintStatus
    BY WrittenAreSprintStatuses
  <2>2. sprint' \in [Sprints -> SprintStatus \cup {"absent"}]
    BY <1>2, <2>1, SetSprintTypes DEF UpdateSprint
  <2>3. call' \in [Calls -> Call] /\ CallsKnow'
    BY <1>2, ProceedTypes DEF UpdateSprint
  <2>4. QED
    BY <1>2, <2>2, <2>3 DEF UpdateSprint, TypeOK
<1>3. ASSUME NEW status \in SprintStatus, sprint' = [sprint EXCEPT ![s] = status],
             tracking' \in Tracking, UNCHANGED <<mission, call>>
      PROVE  Typed'
  BY <1>3 DEF TypeOK, CallsKnow, CallKnows
<1>4. CASE CompleteSprint(c, s)
  <2>1. tracking' \in Tracking
    BY <1>4 DEF CompleteSprint, NextOpenSprints, OpenSprintPointers, Tracking
  <2>2. "Completed" \in SprintStatus
    BY DEF SprintStatus, SPRINT_NO_OPEN_WORK_STATUSES
  <2>3. QED
    BY <1>3, <1>4, <2>1, <2>2 DEF CompleteSprint
<1>5. ASSUME NEW status \in Inbound, ReceiveSprintStatus(c, s, status) PROVE Typed'
  <2>1. status \in SprintStatus /\ tracking' \in Tracking
    BY <1>5, WrittenAreSprintStatuses DEF ReceiveSprintStatus, TypeOK
  <2>2. QED
    BY <1>3, <1>5, <2>1 DEF ReceiveSprintStatus
<1>6. QED
  BY <1>1, <1>2, <1>4, <1>5 DEF SprintStep

LEMMA ContinueTyped ==
  ASSUME Typed, NEW c \in Calls, ContinueCall(c)
  PROVE  Typed'
<1> USE DEF Typed
<1>0. call[c] \in Call /\ CallKnows(c)
  BY DEF TypeOK, CallsKnow
<1>1. CASE WriteTransition(c)
  <2>1. call[c].to \in MissionStatus
    BY <1>0, <1>1, TransitionTypes DEF WriteTransition, CallKnows
  <2>2. mission' \in [Missions -> Mission]
    BY <1>1, <2>1 DEF WriteTransition, TypeOK, Mission
  <2>3. QED
    BY <1>1, <2>2, ReturnTypes DEF WriteTransition, TypeOK
<1>2. CASE CommitStart(c)
  <2>1. mission' \in [Missions -> Mission]
    BY <1>0, <1>2, TransitionTypes DEF CommitStart, CallKnows, TypeOK, Mission
  <2>2. sprint' \in [Sprints -> SprintStatus \cup {"absent"}]
    BY <1>2 DEF CommitStart, TypeOK, SprintStatus, SPRINT_OPEN_STATUSES
  <2>3. call' \in [Calls -> Call] /\ CallsKnow'
    BY <1>2, ProceedTypes, ReturnTypes DEF CommitStart
  <2>4. QED
    BY <1>2, <2>1, <2>2, <2>3 DEF CommitStart, TypeOK
<1>3. CASE InsertMission(c)
  <2>1. call[c].mission \in Missions /\ call[c].to \in MissionStatus
        /\ call[c].sprint \in Sprints \cup {None}
    BY <1>0, <1>3 DEF InsertMission, CallKnows, Call
  <2>2. mission' \in [Missions -> Mission]
    BY <1>3, <2>1 DEF InsertMission, TypeOK, Mission
  <2>3. QED
    BY <1>3, <2>2, ReturnTypes DEF InsertMission, TypeOK
<1>4. CASE CheckMove(c)
  <2>1. CASE Return(c)
    BY <1>4, <2>1, ReturnTypes DEF CheckMove, TypeOK
  <2>2. CASE call' = [call EXCEPT ![c].pc = "move"]
    <3>1. call' \in [Calls -> Call]
      BY <2>2 DEF TypeOK, Call
    <3>2. CallsKnow'
      BY <1>0, <1>4, <2>2 DEF CheckMove, CallsKnow, CallKnows, TypeOK, Call
    <3>3. QED
      BY <1>4, <3>1, <3>2 DEF CheckMove, TypeOK
  <2>3. QED
    BY <1>4, <2>1, <2>2 DEF CheckMove
<1>5. CASE WriteMove(c)
  <2>1. mission' \in [Missions -> Mission]
    BY <1>0, <1>5 DEF WriteMove, TypeOK, Mission, CallKnows
  <2>2. QED
    BY <1>5, <2>1, ReturnTypes DEF WriteMove, TypeOK
<1>6. CASE InsertSprint(c)
  <2>1. call[c].sprint \in Sprints /\ call[c].to \in SprintStatus
    BY <1>0, <1>6 DEF InsertSprint, CallKnows
  <2>2. sprint' \in [Sprints -> SprintStatus \cup {"absent"}]
    BY <1>6, <2>1, SetSprintTypes DEF InsertSprint, TypeOK
  <2>3. call' \in [Calls -> Call] /\ CallsKnow'
    BY <1>6, ProceedTypes, ReturnTypes DEF InsertSprint
  <2>4. QED
    BY <1>6, <2>2, <2>3 DEF InsertSprint, TypeOK
<1>7. CASE ReadContext(c)
  <2>1. call' \in [Calls -> Call]
    <3>1. [call[c] EXCEPT !.pc = "derive", !.read = tracking] \in Call
      BY <1>0 DEF TypeOK, Call
    <3>2. QED
      BY <1>7, <3>1 DEF ReadContext, TypeOK
  <2>2. CallsKnow'
    BY <1>7 DEF ReadContext, CallsKnow, CallKnows, TypeOK, Call
  <2>3. QED
    BY <1>7, <2>1, <2>2 DEF ReadContext, TypeOK
<1>8. CASE DerivePointer(c)
  <2>1. PICK p \in OpenSprintPointers :
          call' = [call EXCEPT ![c].pc = "persist", ![c].current = p]
    BY <1>8 DEF DerivePointer
  <2>2. p \in Sprints \cup {None}
    BY DEF OpenSprintPointers
  <2>3. call' \in [Calls -> Call]
    <3>1. [call[c] EXCEPT !.pc = "persist", !.current = p] \in Call
      BY <1>0, <2>2 DEF Call
    <3>2. QED
      BY <2>1, <3>1 DEF TypeOK
  <2>4. CallsKnow'
    BY <1>8, <2>1 DEF CallsKnow, CallKnows, TypeOK, Call
  <2>5. QED
    BY <1>8, <2>3, <2>4 DEF DerivePointer, TypeOK
<1>9. CASE PersistContext(c)
  <2>1. tracking' \in Tracking
    BY <1>0, <1>9 DEF PersistContext, Call, Tracking
  <2>2. QED
    BY <1>9, <2>1, ReturnTypes DEF PersistContext, TypeOK
<1>10. CASE Interrupt(c)
  BY <1>10, ReturnTypes DEF Interrupt, TypeOK
<1>11. QED
  BY <1>1, <1>2, <1>3, <1>4, <1>5, <1>6, <1>7, <1>8, <1>9, <1>10 DEF ContinueCall

LEMMA TypedNext == Typed /\ [Next]_vars => Typed'
<1> SUFFICES ASSUME Typed, [Next]_vars PROVE Typed'
  OBVIOUS
<1>1. CASE UNCHANGED vars
  BY <1>1 DEF vars, Typed, TypeOK, CallsKnow, CallKnows
<1>2. CASE Next
  BY <1>2, MissionTyped, SprintTyped, ContinueTyped DEF Next
<1>3. QED
  BY <1>1, <1>2

LEMMA TypedAlways == Spec => []Typed
BY TypedInit, TypedNext, PTL DEF Spec

\* Every reachable row, pointer and call in flight is well formed.
THEOREM TypeCorrect == Spec => []TypeOK
BY TypedAlways, PTL DEF Typed

\* A call under way writes only what was legal in the rows it read.
THEOREM CallsWriteWhatTheyChecked == Spec => []CallsKnow
BY TypedAlways, PTL DEF Typed

-----------------------------------------------------------------------------
(* The single-current-sprint invariant.                                    *)

\* Writing a status through writeSingleCurrentSprint or the plain UPDATE leaves
\* only the written sprint open, or opens nothing.
LEMMA SetSprintOpens ==
  ASSUME TypeOK, NEW s \in Sprints, NEW status, SetSprint(s, status)
  PROVE  IF status \in SPRINT_OPEN_STATUSES THEN OpenSprints' = {s}
         ELSE OpenSprints' \subseteq OpenSprints
BY DEF TypeOK, SetSprint, WithSingleCurrent, OpenSprints, SPRINT_OPEN_STATUSES

\* The steps that write the sprints table.
LEMMA SprintWriters ==
  ASSUME [Next]_vars
  PROVE  \/ UNCHANGED sprint
         \/ \E c \in Calls, s \in Sprints :
              \/ \E status \in Written : UpdateSprint(c, s, status)
              \/ CompleteSprint(c, s)
              \/ \E status \in Inbound : ReceiveSprintStatus(c, s, status)
         \/ \E c \in Calls : CommitStart(c) \/ InsertSprint(c)
<1>1. ASSUME NEW c \in Calls, NEW m \in Missions, MissionStep(c, m) PROVE UNCHANGED sprint
  BY <1>1 DEF MissionStep, Start, Block, Unblock, Defer, Complete, CheckTransition, Drop,
              Update, ReceiveMissionStatus, AddMission, Move
<1>2. ASSUME NEW c \in Calls, ContinueCall(c)
      PROVE  UNCHANGED sprint \/ CommitStart(c) \/ InsertSprint(c)
  BY <1>2 DEF ContinueCall, WriteTransition, InsertMission, CheckMove, WriteMove, ReadContext,
              DerivePointer, PersistContext, Interrupt
<1>3. ASSUME NEW c \in Calls, NEW s \in Sprints, SprintStep(c, s)
      PROVE  \/ UNCHANGED sprint
             \/ \E status \in Written : UpdateSprint(c, s, status)
             \/ CompleteSprint(c, s)
             \/ \E status \in Inbound : ReceiveSprintStatus(c, s, status)
  BY <1>3 DEF SprintStep, AddSprint
<1>4. QED
  BY <1>1, <1>2, <1>3 DEF Next, vars

\* Each leaves the open sprints as they are, closes some, or leaves at most one:
\* the one it opened.
LEMMA OpenSprintsStep ==
  ASSUME Typed, NoInboundOpen, [Next]_vars
  PROVE  OpenSprints' \subseteq OpenSprints \/ \E s \in Sprints : OpenSprints' \subseteq {s}
<1>1. CASE UNCHANGED sprint
  BY <1>1 DEF OpenSprints
<1>2. ASSUME NEW s \in Sprints, NEW status, status \notin SPRINT_OPEN_STATUSES,
             sprint' = [sprint EXCEPT ![s] = status]
      PROVE  OpenSprints' \subseteq OpenSprints
  BY <1>2 DEF Typed, TypeOK, OpenSprints
<1>3. ASSUME NEW s \in Sprints, NEW status, SetSprint(s, status)
      PROVE  OpenSprints' \subseteq OpenSprints \/ OpenSprints' \subseteq {s}
  BY <1>3, SetSprintOpens DEF Typed
<1>4. ASSUME NEW c \in Calls, CommitStart(c), Activates(call[c].sprint)
      PROVE  \E s \in Sprints : OpenSprints' \subseteq {s}
  <2>1. call[c].sprint \in Sprints
    BY <1>4 DEF Typed, TypeOK, Call, Activates
  <2>2. OpenSprints' \subseteq {call[c].sprint}
    BY <1>4, <2>1 DEF CommitStart, Activates, OpenSprints, Typed, TypeOK
  <2>3. QED
    BY <2>1, <2>2
<1>5. ASSUME NEW c \in Calls, CommitStart(c), ~Activates(call[c].sprint)
      PROVE  UNCHANGED sprint
  BY <1>5 DEF CommitStart
<1>6. ASSUME NEW c \in Calls, InsertSprint(c)
      PROVE  UNCHANGED sprint \/ \E s \in Sprints : SetSprint(s, call[c].to)
  BY <1>6 DEF InsertSprint, Typed, CallsKnow, CallKnows
<1>7. ASSUME NEW c \in Calls, NEW s \in Sprints,
             \/ \E status \in Written : UpdateSprint(c, s, status)
             \/ CompleteSprint(c, s)
             \/ \E status \in Inbound : ReceiveSprintStatus(c, s, status)
      PROVE  OpenSprints' \subseteq OpenSprints \/ OpenSprints' \subseteq {s}
  <2>1. CASE \E status \in Written : UpdateSprint(c, s, status)
    BY <1>3, <2>1 DEF UpdateSprint
  <2>2. CASE CompleteSprint(c, s)
    BY <1>2, <2>2 DEF CompleteSprint, SPRINT_OPEN_STATUSES
  <2>3. CASE \E status \in Inbound : ReceiveSprintStatus(c, s, status)
    BY <1>2, <2>3 DEF ReceiveSprintStatus, NoInboundOpen
  <2>4. QED
    BY <1>7, <2>1, <2>2, <2>3
<1>8. QED
  BY <1>1, <1>3, <1>4, <1>5, <1>6, <1>7, SprintWriters

\* However many processes add, update, start and close, at most one sprint is
\* open, as long as no other machine sends an open status.
THEOREM SingleCurrentSprint ==
  ASSUME NoInboundOpen
  PROVE  Spec => []AtMostOneOpenSprint
<1>1. Init => AtMostOneOpenSprint
  BY DEF Init, AtMostOneOpenSprint, OpenSprints, SPRINT_OPEN_STATUSES
<1>2. Typed /\ AtMostOneOpenSprint /\ [Next]_vars => AtMostOneOpenSprint'
  <2> SUFFICES ASSUME Typed, AtMostOneOpenSprint, [Next]_vars PROVE AtMostOneOpenSprint'
    OBVIOUS
  <2>1. QED
    BY OpenSprintsStep DEF AtMostOneOpenSprint
<1>3. QED
  BY <1>1, <1>2, TypedAlways, PTL DEF Spec

\* A sprint is demoted only by the step that opens its successor, or on request.
THEOREM DemotionHasASuccessor ==
  ASSUME NoInboundOpen, "Planned" \notin Inbound
  PROVE  Spec => DemotedOnlyByASuccessor
<1> DEFINE Successor(s) ==
      \E t \in Sprints \ {s} : t \notin OpenSprints /\ sprint'[t] \in SPRINT_OPEN_STATUSES
<1>1. ASSUME Typed, [Next]_vars, AtMostOneOpenSprint, NEW s \in OpenSprints,
             sprint'[s] = "Planned"
      PROVE  Successor(s) \/ \E c \in Calls : UpdateSprint(c, s, "Planned")
  <2>1. s \in Sprints /\ sprint[s] \in SPRINT_OPEN_STATUSES /\ sprint[s] # "Planned"
    BY DEF OpenSprints, SPRINT_OPEN_STATUSES
  <2>2. ASSUME NEW t \in Sprints, NEW status, SetSprint(t, status)
        PROVE  Successor(s) \/ (t = s /\ status = "Planned")
    <3>1. CASE status \in SPRINT_OPEN_STATUSES
      <4>1. sprint'[t] = status /\ t # s
        BY <1>1, <2>1, <2>2, <3>1
           DEF SetSprint, WithSingleCurrent, SPRINT_OPEN_STATUSES
      <4>2. t \notin OpenSprints
        BY <1>1, <4>1 DEF AtMostOneOpenSprint
      <4>3. t \in Sprints \ {s} /\ sprint'[t] \in SPRINT_OPEN_STATUSES
        BY <2>2, <3>1, <4>1
      <4>4. QED
        BY <4>2, <4>3, Zenon
    <3>2. CASE status \notin SPRINT_OPEN_STATUSES
      BY <1>1, <2>1, <2>2, <3>2 DEF SetSprint, Typed, TypeOK
    <3>3. QED
      BY <3>1, <3>2
  <2>3. ASSUME NEW c \in Calls, NEW t \in Sprints, NEW status \in Written, UpdateSprint(c, t, status)
        PROVE  Successor(s) \/ \E d \in Calls : UpdateSprint(d, s, "Planned")
    BY <2>2, <2>3 DEF UpdateSprint
  <2>4. ASSUME NEW c \in Calls, NEW t \in Sprints, CompleteSprint(c, t) PROVE FALSE
    BY <1>1, <2>1, <2>4 DEF CompleteSprint, Typed, TypeOK
  <2>5. ASSUME NEW c \in Calls, NEW t \in Sprints, NEW status \in Inbound,
               ReceiveSprintStatus(c, t, status)
        PROVE  FALSE
    BY <1>1, <2>1, <2>5 DEF ReceiveSprintStatus, Typed, TypeOK
  <2>6. ASSUME NEW c \in Calls, CommitStart(c) PROVE FALSE
    BY <1>1, <2>1, <2>6 DEF CommitStart, Typed, TypeOK
  <2>7. ASSUME NEW c \in Calls, InsertSprint(c) PROVE Successor(s)
    <3>1. sprint' # sprint
      BY <1>1, <2>1
    <3>2. call[c].sprint \in Sprints
      BY <1>1, <2>7 DEF InsertSprint, Typed, CallsKnow, CallKnows
    <3>3. sprint[call[c].sprint] = "absent" /\ SetSprint(call[c].sprint, call[c].to)
      BY <2>7, <3>1 DEF InsertSprint
    <3>4. call[c].sprint # s
      BY <2>1, <3>3 DEF SPRINT_OPEN_STATUSES
    <3>5. QED
      BY <2>2, <3>2, <3>3, <3>4
  <2>8. QED
    BY <1>1, <2>1, <2>3, <2>4, <2>5, <2>6, <2>7, SprintWriters
<1>2. Typed /\ AtMostOneOpenSprint /\ [Next]_vars
        => [\A s \in OpenSprints : sprint'[s] = "Planned" =>
              \/ \E t \in Sprints \ {s} :
                   t \notin OpenSprints /\ sprint'[t] \in SPRINT_OPEN_STATUSES
              \/ \E c \in Calls : UpdateSprint(c, s, "Planned")]_vars
  BY <1>1
<1>3. Spec => []AtMostOneOpenSprint
  BY SingleCurrentSprint
<1>4. QED
  BY <1>2, <1>3, TypedAlways, PTL DEF Spec, DemotedOnlyByASuccessor

-----------------------------------------------------------------------------
(* The laws of the mission transitions.                                    *)

\* Another machine's status is written.
Pulled(m) == \E c \in Calls, status \in InboundMission : ReceiveMissionStatus(c, m, status)

\* The steps that write a status to a mission that exists.
LEMMA StatusWriters ==
  ASSUME Typed, [Next]_vars, NEW m \in Missions, Exists(m),
         mission'[m].status # mission[m].status
  PROVE  \/ Pulled(m)
         \/ mission'[m].status \in TransitionsFrom(mission[m].status)
         \/ mission[m].status = "Archived" /\ mission'[m].status \in Repairs
         \/ \E c \in Calls : /\ call[c].pc \in {"start", "status"}
                             /\ call[c].mission = m
                             /\ mission'[m].status \in TransitionsFrom(call[c].from)
<1>1. ASSUME NEW c \in Calls, NEW n \in Missions, MissionStep(c, n)
      PROVE  \/ Pulled(m)
             \/ mission'[m].status \in TransitionsFrom(mission[m].status)
             \/ mission[m].status = "Archived" /\ mission'[m].status \in Repairs
  <2>1. \/ Drop(c, n)
        \/ \E to \in MissionStatus : Update(c, n, to)
        \/ \E status \in InboundMission : ReceiveMissionStatus(c, n, status)
    BY <1>1 DEF MissionStep, Start, Block, Unblock, Defer, Complete, CheckTransition,
                AddMission, Move
  <2>2. ASSUME NEW to, mission' = [mission EXCEPT ![n].status = to]
        PROVE  n = m /\ mission'[m].status = to
    BY <2>2 DEF Typed, TypeOK, Mission
  <2>3. CASE Drop(c, n)
    BY <2>2, <2>3 DEF Drop
  <2>4. ASSUME NEW to \in MissionStatus, Update(c, n, to)
        PROVE  \/ mission'[m].status \in TransitionsFrom(mission[m].status)
               \/ mission[m].status = "Archived" /\ mission'[m].status \in Repairs
    BY <2>2, <2>4 DEF Update
  <2>5. ASSUME NEW status \in InboundMission, ReceiveMissionStatus(c, n, status)
        PROVE  Pulled(m)
    <3>1. n = m
      BY <2>2, <2>5 DEF ReceiveMissionStatus
    <3>2. QED
      BY <2>5, <3>1 DEF Pulled
  <2>6. QED
    BY <2>1, <2>3, <2>4, <2>5
<1>2. ASSUME NEW c \in Calls, ContinueCall(c)
      PROVE  /\ call[c].pc \in {"start", "status"}
             /\ call[c].mission = m
             /\ mission'[m].status \in TransitionsFrom(call[c].from)
  <2>1. ~InsertMission(c)
    BY DEF InsertMission, Exists, Typed, TypeOK, Mission
  <2>2. ~WriteMove(c)
    BY DEF WriteMove, Typed, TypeOK, Mission
  <2>3. WriteTransition(c) \/ CommitStart(c)
    BY <1>2, <2>1, <2>2 DEF ContinueCall, CheckMove, InsertSprint, ReadContext, DerivePointer,
                            PersistContext, Interrupt
  <2>4. CallKnows(c)
    BY DEF Typed, CallsKnow
  <2>5. CASE WriteTransition(c)
    BY <2>4, <2>5 DEF WriteTransition, CallKnows, Typed, TypeOK, Mission
  <2>6. CASE CommitStart(c)
    BY <2>4, <2>6 DEF CommitStart, CallKnows, Typed, TypeOK, Mission
  <2>7. QED
    BY <2>3, <2>5, <2>6
<1>3. ASSUME NEW c \in Calls, NEW s \in Sprints, SprintStep(c, s) PROVE UNCHANGED mission
  BY <1>3 DEF SprintStep, AddSprint, UpdateSprint, CompleteSprint, ReceiveSprintStatus
<1>4. QED
  BY <1>1, <1>2, <1>3 DEF Next, vars

\* A status changes along the table, as another machine sent it, or by a call that
\* had read another status.
THEOREM TransitionsAreLegal == Spec => LegalUnlessOvertaken
<1>1. Typed /\ [Next]_vars
        => [\A m \in Missions : mission'[m].status # mission[m].status =>
              \/ mission[m].status = "absent"
              \/ mission'[m].status \in TransitionsFrom(mission[m].status)
              \/ mission[m].status = "Archived" /\ mission'[m].status \in Repairs
              \/ \E c \in Calls : /\ call[c].pc \in {"start", "status"}
                                  /\ call[c].mission = m
                                  /\ call[c].from # mission[m].status
                                  /\ mission'[m].status \in TransitionsFrom(call[c].from)
              \/ \E c \in Calls, status \in InboundMission :
                   ReceiveMissionStatus(c, m, status)]_vars
  BY StatusWriters DEF Exists, Pulled
<1>2. QED
  BY <1>1, TypedAlways, PTL DEF Spec, LegalUnlessOvertaken

-----------------------------------------------------------------------------
(* The pointers a close writes.                                            *)

\* The pointer that the close computed before it wrote the sprint is the open
\* sprint after it.
THEOREM ClosePointsAtTheOpenSprint ==
  ASSUME NoInboundOpen
  PROVE  Spec => CloseLeavesPointersRight
<1> DEFINE Right(s) ==
      /\ tracking'.last = s
      /\ IF tracking'.current = None THEN \A t \in Sprints : sprint'[t] # "Active"
         ELSE sprint'[tracking'.current] = "Active"
<1>1. ASSUME Typed, AtMostOneOpenSprint, NEW c \in Calls, NEW s \in Sprints,
             CompleteSprint(c, s)
      PROVE  Right(s)
  <2>1. PICK p \in OpenSprintPointers :
          tracking' = [current |-> IF p = s THEN None ELSE p, last |-> s]
    BY <1>1 DEF CompleteSprint, NextOpenSprints
  <2>2. sprint' = [sprint EXCEPT ![s] = "Completed"]
    BY <1>1 DEF CompleteSprint
  <2>3. tracking'.last = s /\ tracking'.current = IF p = s THEN None ELSE p
    BY <2>1
  <2>4. CASE p = None
    BY <1>1, <2>2, <2>3, <2>4, NoneIsNothing DEF OpenSprintPointers, Typed, TypeOK
  <2>5. CASE p # None /\ p # s
    <3>1. p \in Sprints /\ sprint[p] = "Active"
      BY <2>5 DEF OpenSprintPointers
    <3>2. QED
      BY <1>1, <2>2, <2>3, <2>5, <3>1 DEF Typed, TypeOK
  <2>6. CASE p = s
    <3>1. sprint[s] = "Active"
      BY <2>6, NoneIsNothing DEF OpenSprintPointers
    <3>2. ASSUME NEW t \in Sprints PROVE sprint'[t] # "Active"
      BY <1>1, <2>2, <3>1
         DEF AtMostOneOpenSprint, OpenSprints, SPRINT_OPEN_STATUSES, Typed, TypeOK
    <3>3. QED
      BY <2>3, <2>6, <3>2
  <2>7. QED
    BY <2>4, <2>5, <2>6
<1>2. Typed /\ AtMostOneOpenSprint /\ [Next]_vars
        => [\A c \in Calls, s \in Sprints : CompleteSprint(c, s) =>
              /\ tracking'.last = s
              /\ IF tracking'.current = None THEN \A t \in Sprints : sprint'[t] # "Active"
                 ELSE sprint'[tracking'.current] = "Active"]_vars
  BY <1>1
<1>3. Spec => []AtMostOneOpenSprint
  BY SingleCurrentSprint
<1>4. QED
  BY <1>2, <1>3, TypedAlways, PTL DEF Spec, CloseLeavesPointersRight

-----------------------------------------------------------------------------
(* Calls one at a time.  Three promises that overlapping calls break hold   *)
(* where no call starts before the one before it has returned or died.      *)

OneAtATime == \A c, d \in Calls : c = d

\* What a call read when it checked is still so when it writes.
Fresh(c) ==
  /\ call[c].pc \in {"start", "status"} => mission[call[c].mission].status = call[c].from
  /\ call[c].pc = "move" => LiveDestination(call[c].sprint)

NothingOvertaken == \A c \in Calls : Fresh(c)

\* Where a call goes: what Proceed writes.
LEMMA ProceedDoes ==
  ASSUME Typed, NEW c \in Calls, NEW pc, NEW m, NEW s, NEW to, Proceed(c, pc, m, s, to)
  PROVE  /\ call'[c].pc = pc /\ call'[c].mission = m /\ call'[c].sprint = s /\ call'[c].to = to
         /\ m # None => call'[c].from = mission[m].status
BY DEF Proceed, Typed, TypeOK

LEMMA ReturnDoes ==
  ASSUME Typed, NEW c \in Calls, Return(c)
  PROVE  call'[c].pc = "idle"
BY DEF Return, IdleCall, Typed, TypeOK

LEMMA NothingOvertakenStep ==
  ASSUME OneAtATime, Typed, NothingOvertaken, [Next]_vars
  PROVE  NothingOvertaken'
<1>1. ASSUME NEW c \in Calls, Fresh(c)' PROVE NothingOvertaken'
  BY <1>1 DEF OneAtATime, NothingOvertaken
<1>2. ASSUME NEW c \in Calls, NEW m \in Missions, MissionStep(c, m) PROVE Fresh(c)'
  <2>1. ASSUME NEW pc, NEW s, NEW to, pc \in {"start", "status"}, Proceed(c, pc, m, s, to),
               UNCHANGED mission
        PROVE  Fresh(c)'
    BY <2>1, ProceedDoes, NoneIsNothing DEF Fresh
  <2>2. ASSUME NEW pc, NEW s, NEW to, pc \in {"add", "moving"}, Proceed(c, pc, m, s, to)
        PROVE  Fresh(c)'
    BY <2>2, ProceedDoes DEF Fresh
  <2>3. ASSUME Idle(c), UNCHANGED call PROVE Fresh(c)'
    BY <2>3 DEF Fresh, Idle
  <2>4. CASE Start(c, m)
    <3>1. Proceed(c, "start", m, mission[m].sprint, "In Progress") /\ UNCHANGED mission
      BY <2>4 DEF Start
    <3>2. /\ call'[c].pc = "start" /\ call'[c].mission = m
          /\ call'[c].from = mission[m].status
      BY <3>1, NoneIsNothing DEF Proceed, Typed, TypeOK
    <3>3. QED
      BY <3>1, <3>2 DEF Fresh
  <2>5. CASE \E to \in MissionStatus : CheckTransition(c, m, to)
    BY <2>1, <2>5 DEF CheckTransition
  <2>6. CASE Drop(c, m) \/ \E to \in MissionStatus : Update(c, m, to)
    BY <2>3, <2>6 DEF Drop, Update
  <2>11. CASE \E status \in InboundMission : ReceiveMissionStatus(c, m, status)
    BY <2>3, <2>11 DEF ReceiveMissionStatus
  <2>7. CASE \E s \in Sprints \cup {None}, status \in Added : AddMission(c, m, s, status)
    BY <2>2, <2>7 DEF AddMission
  <2>8. CASE \E s \in Sprints : Move(c, m, s)
    BY <2>2, <2>8 DEF Move
  <2>9. Block(c, m) \/ Unblock(c, m) \/ Defer(c, m) \/ Complete(c, m)
          => \E to \in MissionStatus : CheckTransition(c, m, to)
    BY DEF Block, Unblock, Defer, Complete, MissionStatus
  <2>10. QED
    BY <1>2, <2>4, <2>5, <2>6, <2>7, <2>8, <2>9, <2>11 DEF MissionStep
<1>3. ASSUME NEW c \in Calls, NEW s \in Sprints, SprintStep(c, s) PROVE Fresh(c)'
  <2>1. call'[c].pc \in {"idle", "addSprint", "sync"}
    BY <1>3, ProceedDoes DEF SprintStep, AddSprint, UpdateSprint, CompleteSprint,
                             ReceiveSprintStatus, Idle
  <2>2. QED
    BY <2>1 DEF Fresh
<1>4. ASSUME NEW c \in Calls, ContinueCall(c) PROVE Fresh(c)'
  <2>1. CASE CheckMove(c)
    <3>1. CASE call'[c].pc = "idle"
      BY <3>1 DEF Fresh
    <3>2. CASE /\ LiveDestination(call[c].sprint) /\ UNCHANGED sprint
               /\ call' = [call EXCEPT ![c].pc = "move"]
      <4>1. call'[c].pc = "move" /\ call'[c].sprint = call[c].sprint
        BY <3>2 DEF Typed, TypeOK, Call
      <4>2. QED
        BY <3>2, <4>1 DEF Fresh, LiveDestination
    <3>3. QED
      BY <2>1, <3>1, <3>2, ReturnDoes DEF CheckMove
  <2>2. CASE WriteTransition(c) \/ InsertMission(c) \/ WriteMove(c) \/ PersistContext(c)
              \/ Interrupt(c)
    BY <2>2, ReturnDoes DEF WriteTransition, InsertMission, WriteMove, PersistContext, Interrupt,
                            Fresh
  <2>3. CASE CommitStart(c) \/ InsertSprint(c)
    <3>1. call'[c].pc \in {"idle", "sync"}
      BY <2>3, ReturnDoes, ProceedDoes DEF CommitStart, InsertSprint
    <3>2. QED
      BY <3>1 DEF Fresh
  <2>4. CASE ReadContext(c) \/ DerivePointer(c)
    <3>1. call'[c].pc \in {"derive", "persist"}
      BY <2>4 DEF ReadContext, DerivePointer, Typed, TypeOK, Call
    <3>2. QED
      BY <3>1 DEF Fresh
  <2>5. QED
    BY <1>4, <2>1, <2>2, <2>3, <2>4 DEF ContinueCall
<1>5. CASE UNCHANGED vars
  BY <1>5 DEF vars, NothingOvertaken, Fresh, LiveDestination
<1>6. QED
  BY <1>1, <1>2, <1>3, <1>4, <1>5 DEF Next

LEMMA AlwaysFresh ==
  ASSUME OneAtATime
  PROVE  Spec => []NothingOvertaken
<1>1. Init => NothingOvertaken
  BY DEF Init, IdleCall, NothingOvertaken, Fresh
<1>2. Typed /\ NothingOvertaken /\ [Next]_vars => NothingOvertaken'
  BY NothingOvertakenStep
<1>3. QED
  BY <1>1, <1>2, TypedAlways, PTL DEF Spec

\* Where calls do not overlap, a completed or dropped mission keeps its status until
\* another machine sends one, whichever requests die between two statements.
THEOREM TerminalOneAtATime ==
  ASSUME OneAtATime
  PROVE  Spec => TerminalIsFinal
<1>1. \A status \in Terminal : TransitionsFrom(status) = {}
  BY DEF Terminal, TransitionsFrom
<1>2. ASSUME Typed, NothingOvertaken, [Next]_vars, NEW m \in Missions,
             mission[m].status \in Terminal
      PROVE  mission'[m].status = mission[m].status \/ Pulled(m)
  <2>1. Exists(m) /\ mission[m].status # "Archived"
    BY <1>2 DEF Exists, Terminal
  <2>2. ASSUME NEW c \in Calls, call[c].pc \in {"start", "status"}, call[c].mission = m
        PROVE  call[c].from = mission[m].status
    BY <1>2, <2>2 DEF NothingOvertaken, Fresh
  <2>3. QED
    BY <1>1, <1>2, <2>1, <2>2, StatusWriters
<1>3. Typed /\ NothingOvertaken /\ [Next]_vars
        => [\A m \in Missions : mission[m].status \in Terminal =>
              \/ mission'[m].status = mission[m].status
              \/ \E c \in Calls, status \in InboundMission :
                   ReceiveMissionStatus(c, m, status)]_vars
  BY <1>2 DEF Pulled
<1>4. QED
  BY <1>3, AlwaysFresh, TypedAlways, PTL DEF Spec, TerminalIsFinal

\* The steps that write the sprint of a mission that exists.
LEMMA SprintOfMissionWriters ==
  ASSUME Typed, [Next]_vars, NEW m \in Missions, Exists(m),
         mission'[m].sprint # mission[m].sprint
  PROVE  \E c \in Calls : call[c].pc = "move" /\ mission'[m].sprint = call[c].sprint
<1>1. ASSUME NEW to, NEW n, mission' = [mission EXCEPT ![n].status = to] PROVE FALSE
  BY <1>1 DEF Typed, TypeOK, Mission
<1>2. ASSUME NEW c \in Calls, NEW n \in Missions, MissionStep(c, n) PROVE FALSE
  BY <1>1, <1>2 DEF MissionStep, Start, Block, Unblock, Defer, Complete, CheckTransition,
                    Drop, Update, ReceiveMissionStatus, AddMission, Move
<1>3. ASSUME NEW c \in Calls, ContinueCall(c), ~WriteMove(c) PROVE FALSE
  <2>1. ~InsertMission(c)
    BY DEF InsertMission, Exists, Typed, TypeOK, Mission
  <2>2. WriteTransition(c) \/ CommitStart(c)
    BY <1>3, <2>1 DEF ContinueCall, CheckMove, InsertSprint, ReadContext, DerivePointer,
                      PersistContext, Interrupt
  <2>3. QED
    BY <1>1, <2>2 DEF WriteTransition, CommitStart
<1>4. ASSUME NEW c \in Calls, WriteMove(c)
      PROVE  call[c].pc = "move" /\ mission'[m].sprint = call[c].sprint
  BY <1>4 DEF WriteMove, Typed, TypeOK, Mission
<1>5. ASSUME NEW c \in Calls, NEW s \in Sprints, SprintStep(c, s) PROVE UNCHANGED mission
  BY <1>5 DEF SprintStep, AddSprint, UpdateSprint, CompleteSprint, ReceiveSprintStatus
<1>6. QED
  BY <1>2, <1>3, <1>4, <1>5 DEF Next, vars

\* Where calls do not overlap, a mission moves only into a sprint that can hold open
\* work, whatever other machines send between two calls.
THEOREM MovesOneAtATime ==
  ASSUME OneAtATime
  PROVE  Spec => MovesNeedLiveDestination
<1>1. Typed /\ NothingOvertaken /\ [Next]_vars
        => [\A m \in Missions : Exists(m) /\ mission'[m].sprint # mission[m].sprint =>
              sprint[mission'[m].sprint] \notin SPRINT_NO_OPEN_WORK_STATUSES]_vars
  BY SprintOfMissionWriters DEF NothingOvertaken, Fresh, LiveDestination
<1>2. QED
  BY <1>1, AlwaysFresh, TypedAlways, PTL DEF Spec, MovesNeedLiveDestination

\* The pointer p names the open sprint, or there is none.
PointsRight(p) == IF p = None THEN OpenSprints = {} ELSE p \in OpenSprints

\* The persisted pointer is right unless the call that will write it is on its way,
\* and what that call has derived is right.
InStep ==
  /\ AtMostOneOpenSprint
  /\ \A s \in Sprints : sprint[s] # "active"
  /\ \A c \in Calls : call[c].pc = "addSprint" => call[c].to # "active"
  /\ (\A c \in Calls : call[c].pc \notin {"sync", "derive", "persist"})
       => PointsRight(tracking.current)
  /\ \A c \in Calls : call[c].pc = "persist" => PointsRight(call[c].current)

LEMMA DerivedPointsRight ==
  ASSUME InStep, NEW p \in OpenSprintPointers
  PROVE  PointsRight(p)
<1>1. OpenSprints = {s \in Sprints : sprint[s] = "Active"}
  BY DEF InStep, OpenSprints, SPRINT_OPEN_STATUSES
<1>2. QED
  BY <1>1, NoneIsNothing DEF OpenSprintPointers, PointsRight

\* A call that leaves the sprints and the pointers, and is not on its way to them.
LEMMA AsideInStep ==
  ASSUME OneAtATime, InStep, NEW c \in Calls, UNCHANGED <<sprint, tracking>>,
         call[c].pc \notin {"sync", "derive", "persist"},
         call'[c].pc \notin {"sync", "derive", "persist"},
         call'[c].pc = "addSprint" => call'[c].to # "active"
  PROVE  InStep'
BY DEF OneAtATime, InStep, AtMostOneOpenSprint, OpenSprints, PointsRight

\* A call that has written the sprints goes on to the pointers.
LEMMA OnTheWayInStep ==
  ASSUME OneAtATime, NEW c \in Calls, call'[c].pc \in {"sync", "derive"}, AtMostOneOpenSprint',
         \A s \in Sprints : sprint'[s] # "active"
  PROVE  InStep'
BY DEF OneAtATime, InStep

LEMMA SetSprintInStep ==
  ASSUME Typed, InStep, NEW s \in Sprints, NEW status, status # "active", SetSprint(s, status)
  PROVE  \A t \in Sprints : sprint'[t] # "active"
BY DEF SetSprint, WithSingleCurrent, InStep, Typed, TypeOK

LEMMA CompleteSprintInStep ==
  ASSUME OneAtATime, Typed, InStep, NEW c \in Calls, NEW s \in Sprints, CompleteSprint(c, s),
         AtMostOneOpenSprint'
  PROVE  InStep'
<1>1. /\ sprint' = [sprint EXCEPT ![s] = "Completed"] /\ UNCHANGED call /\ call[c].pc = "idle"
  BY DEF CompleteSprint, Idle
<1>2. \A d \in Calls : d = c
  BY DEF OneAtATime
<1>3. PICK p \in OpenSprintPointers : tracking' = [current |-> IF p = s THEN None ELSE p, last |-> s]
  BY DEF CompleteSprint, NextOpenSprints
<1>4. tracking'.current = IF p = s THEN None ELSE p
  BY <1>3
<1>5. PointsRight(p)
  BY DerivedPointsRight
<1>6. OpenSprints' = OpenSprints \ {s}
  BY <1>1 DEF OpenSprints, SPRINT_OPEN_STATUSES, Typed, TypeOK
<1>7. PointsRight(tracking.current)'
  <2>1. CASE p = s
    <3>1. OpenSprints \subseteq {s}
      BY <1>5, <2>1, NoneIsNothing DEF PointsRight, InStep, AtMostOneOpenSprint
    <3>2. QED
      BY <1>4, <1>6, <2>1, <3>1 DEF PointsRight
  <2>2. CASE p # s
    BY <1>4, <1>5, <1>6, <2>2 DEF PointsRight
  <2>3. QED
    BY <2>1, <2>2
<1>8. \A t \in Sprints : sprint'[t] # "active"
  BY <1>1 DEF InStep, Typed, TypeOK
<1>9. QED
  BY <1>1, <1>2, <1>7, <1>8 DEF InStep

LEMMA InStepStep ==
  ASSUME OneAtATime, "active" \notin Written, Inbound = {}, Fallible = {},
         Typed, InStep, [Next]_vars
  PROVE  InStep'
<1>1. AtMostOneOpenSprint'
  BY OpenSprintsStep DEF NoInboundOpen, InStep, AtMostOneOpenSprint
<1>2. ASSUME NEW c \in Calls, NEW m \in Missions, MissionStep(c, m) PROVE InStep'
  <2>1. UNCHANGED <<sprint, tracking>> /\ call[c].pc = "idle"
    BY <1>2 DEF MissionStep, Start, Block, Unblock, Defer, Complete, CheckTransition, Drop,
                Update, ReceiveMissionStatus, AddMission, Move, Idle
  <2>2. call'[c].pc \in {"idle", "start", "status", "add", "moving"}
    BY <1>2, <2>1, ProceedDoes DEF MissionStep, Start, Block, Unblock, Defer, Complete,
                                   CheckTransition, Drop, Update, ReceiveMissionStatus,
                                   AddMission, Move
  <2>3. QED
    BY <2>1, <2>2, AsideInStep
<1>3. ASSUME NEW c \in Calls, NEW s \in Sprints, SprintStep(c, s) PROVE InStep'
  <2>1. ASSUME NEW status \in Written, AddSprint(c, s, status) PROVE InStep'
    <3>1. call'[c].pc = "addSprint" /\ call'[c].to # "active"
      BY <2>1, ProceedDoes DEF AddSprint
    <3>2. call[c].pc = "idle" /\ UNCHANGED <<sprint, tracking>>
      BY <2>1 DEF AddSprint, Idle
    <3>3. QED
      BY <3>1, <3>2, AsideInStep
  <2>2. ASSUME NEW status \in Written, UpdateSprint(c, s, status) PROVE InStep'
    <3>1. call'[c].pc = "sync"
      BY <2>2, ProceedDoes DEF UpdateSprint
    <3>2. \A t \in Sprints : sprint'[t] # "active"
      BY <2>2, SetSprintInStep DEF UpdateSprint
    <3>3. QED
      BY <1>1, <3>1, <3>2, OnTheWayInStep
  <2>3. CASE CompleteSprint(c, s)
    BY <1>1, <2>3, CompleteSprintInStep
  <2>4. QED
    BY <1>3, <2>1, <2>2, <2>3 DEF SprintStep
<1>4. ASSUME NEW c \in Calls, ContinueCall(c) PROVE InStep'
  <2>1. CASE WriteTransition(c) \/ InsertMission(c) \/ CheckMove(c) \/ WriteMove(c)
    <3>1. /\ UNCHANGED <<sprint, tracking>>
          /\ call[c].pc \in {"status", "add", "moving", "move"}
      BY <2>1 DEF WriteTransition, InsertMission, CheckMove, WriteMove
    <3>2. Return(c) \/ call' = [call EXCEPT ![c].pc = "move"]
      BY <2>1 DEF WriteTransition, InsertMission, CheckMove, WriteMove
    <3>3. call'[c].pc \in {"idle", "move"}
      BY <3>2, ReturnDoes DEF Typed, TypeOK, Call
    <3>4. QED
      BY <3>1, <3>3, AsideInStep
  <2>2. CASE CommitStart(c)
    <3>1. call[c].pc = "start" /\ tracking' = tracking
      BY <2>2 DEF CommitStart
    <3>2. CASE Activates(call[c].sprint)
      <4>1. call'[c].pc = "sync" /\ sprint' = [sprint EXCEPT ![call[c].sprint] = "Active"]
        BY <2>2, <3>2, ProceedDoes DEF CommitStart
      <4>2. \A t \in Sprints : sprint'[t] # "active"
        BY <4>1 DEF InStep, Typed, TypeOK
      <4>3. QED
        BY <1>1, <4>1, <4>2, OnTheWayInStep
    <3>3. CASE ~Activates(call[c].sprint)
      <4>1. call'[c].pc = "idle" /\ sprint' = sprint
        BY <2>2, <3>3, ReturnDoes DEF CommitStart
      <4>2. QED
        BY <3>1, <4>1, AsideInStep
    <3>4. QED
      BY <3>2, <3>3
  <2>3. CASE InsertSprint(c)
    <3> DEFINE s == call[c].sprint  status == call[c].to
    <3>1. call[c].pc = "addSprint" /\ s \in Sprints /\ status # "active" /\ tracking' = tracking
      BY <2>3 DEF InsertSprint, InStep, Typed, CallsKnow, CallKnows
    <3>2. CASE sprint[s] # "absent"
      <4>1. call'[c].pc = "idle" /\ sprint' = sprint
        BY <2>3, <3>2, ReturnDoes DEF InsertSprint
      <4>2. QED
        BY <3>1, <4>1, AsideInStep
    <3>3. CASE sprint[s] = "absent" /\ status \in SPRINT_OPEN_STATUSES
      <4>1. call'[c].pc = "sync" /\ SetSprint(s, status)
        BY <2>3, <3>3, ProceedDoes DEF InsertSprint
      <4>2. QED
        BY <1>1, <3>1, <4>1, SetSprintInStep, OnTheWayInStep
    <3>4. CASE sprint[s] = "absent" /\ status \notin SPRINT_OPEN_STATUSES
      <4>1. call'[c].pc = "idle" /\ SetSprint(s, status)
        BY <2>3, <3>4, ReturnDoes DEF InsertSprint
      <4>2. OpenSprints' = OpenSprints
        BY <3>4, <4>1 DEF SetSprint, OpenSprints, SPRINT_OPEN_STATUSES, Typed, TypeOK
      <4>3. \A t \in Sprints : sprint'[t] # "active"
        BY <3>1, <4>1, SetSprintInStep
      <4>4. \A d \in Calls : d = c
        BY DEF OneAtATime
      <4>5. PointsRight(tracking.current)
        BY <3>1, <4>4 DEF InStep
      <4>6. PointsRight(tracking.current)'
        BY <3>1, <4>2, <4>5 DEF PointsRight
      <4>7. QED
        BY <1>1, <4>1, <4>3, <4>4, <4>6 DEF InStep
    <3>5. QED
      BY <3>2, <3>3, <3>4
  <2>4. CASE ReadContext(c)
    <3>1. call'[c].pc = "derive" /\ sprint' = sprint
      BY <2>4 DEF ReadContext, Typed, TypeOK, Call
    <3>2. QED
      BY <1>1, <3>1, OnTheWayInStep DEF InStep
  <2>5. CASE DerivePointer(c)
    <3>1. PICK p \in OpenSprintPointers :
            call' = [call EXCEPT ![c].pc = "persist", ![c].current = p]
      BY <2>5 DEF DerivePointer
    <3>2. call'[c].pc = "persist" /\ call'[c].current = p
      BY <3>1 DEF Typed, TypeOK, Call
    <3>3. PointsRight(p)
      BY DerivedPointsRight
    <3>4. PointsRight(call[c].current)'
      BY <2>5, <3>2, <3>3 DEF DerivePointer, PointsRight, OpenSprints
    <3>5. \A d \in Calls : d = c
      BY DEF OneAtATime
    <3>6. \A s \in Sprints : sprint'[s] # "active"
      BY <2>5 DEF DerivePointer, InStep
    <3>7. QED
      BY <1>1, <3>2, <3>4, <3>5, <3>6 DEF InStep
  <2>6. CASE PersistContext(c)
    <3>1. call[c].pc = "persist" /\ call'[c].pc = "idle" /\ sprint' = sprint
          /\ tracking'.current = call[c].current
      BY <2>6, ReturnDoes DEF PersistContext
    <3>2. PointsRight(call[c].current)
      BY <3>1 DEF InStep
    <3>3. PointsRight(tracking.current)'
      BY <3>1, <3>2 DEF PointsRight, OpenSprints
    <3>4. \A d \in Calls : d = c
      BY DEF OneAtATime
    <3>5. \A s \in Sprints : sprint'[s] # "active"
      BY <3>1 DEF InStep
    <3>6. QED
      BY <1>1, <3>1, <3>3, <3>4, <3>5 DEF InStep
  <2>7. QED
    BY <1>4, <2>1, <2>2, <2>3, <2>4, <2>5, <2>6 DEF ContinueCall, Interrupt
<1>5. CASE UNCHANGED vars
  BY <1>5 DEF vars, InStep, AtMostOneOpenSprint, OpenSprints, PointsRight
<1>6. QED
  BY <1>2, <1>3, <1>4, <1>5 DEF Next

\* sprint_tracking is in step with the sprints table whenever no call is under way,
\* where calls do not overlap or die half-way, the open status is spelt as
\* openSprintPointer compares it, and no other machine sends a sprint's status.
THEOREM TrackingOneAtATime ==
  ASSUME OneAtATime, "active" \notin Written, Inbound = {}, Fallible = {}
  PROVE  Spec => []TrackingInStep
<1>1. Init => InStep
  BY DEF Init, IdleCall, NoTracking, InStep, AtMostOneOpenSprint, OpenSprints, PointsRight,
         SPRINT_OPEN_STATUSES
<1>2. Typed /\ InStep /\ [Next]_vars => InStep'
  BY InStepStep
<1>3. InStep => TrackingInStep
  BY DEF InStep, TrackingInStep, PointsRight, Idle
<1>4. QED
  BY <1>1, <1>2, <1>3, TypedAlways, PTL DEF Spec

-----------------------------------------------------------------------------
(* The lease of next steps.  It sees the sprints by status and end_date; its *)
(* calls and its other variables are apart from those of the missions.     *)

CONSTANTS Steps, LAPSE_AT, MIN_AGE, Dates, MAX_TIME
VARIABLES dated, event, repaired, step, pending, now, closed

Lease == INSTANCE NextStepLease WITH sprint <- dated, call <- pending

SprintRow == [status : {"absent", "open", "Completed"}, end : Nat]
StepRow == [status : {"absent", "pending", "carried", "resolved"}, created : Nat, resolved : Nat]

\* What a call has read by then: the time, or the close it will write.
Informed(k, time) ==
  \/ k.pc = "idle"
  \/ k.pc \in {"insert", "carry", "carryAll"} /\ k.at \in Nat
  \/ /\ k.pc = "update" /\ k.sprint \in Sprints
     /\ k.to \in {"", "open", "Completed"} /\ k.closing \in BOOLEAN
     /\ k.end = {} \/ \E d \in Nat : k.end = {d}
     /\ k.closing => k.to = "Completed" /\ \E d \in Nat : k.end = {d} /\ d <= time

\* The date that a close wrote is not after that close, once it is repaired.
Dated(r, close, mendable) ==
  /\ r.status = "absent" => close = 0
  /\ close # 0 /\ r.status = "Completed" => r.end <= close \/ mendable

Mendable(s) == ~repaired /\ event[s] # 0

\* The event of a close is not after the close that wrote the date.
Recorded(e, close, time) == e <= time /\ (close # 0 => e <= close)

LeaseTyped ==
  /\ now \in Nat
  /\ dated \in [Sprints -> SprintRow]
  /\ event \in [Sprints -> Nat]
  /\ repaired \in BOOLEAN
  /\ closed \in [Sprints -> Nat]
  /\ step \in [Steps -> StepRow]
  /\ DOMAIN pending = Calls

LeaseInv ==
  /\ LeaseTyped
  /\ \A c \in Calls : Informed(pending[c], now)
  /\ \A s \in Sprints : Dated(dated[s], closed[s], Mendable(s)) /\ Recorded(event[s], closed[s], now)

LEMMA LeaseInit ==
  ASSUME Lease!Bounds, Lease!Init
  PROVE  LeaseInv
<1>1. PICK old \in SUBSET Sprints, end \in [Sprints -> Dates], recorded \in BOOLEAN :
        /\ dated = [s \in Sprints |->
                      IF s \notin old THEN [status |-> "absent", end |-> 0]
                      ELSE [status |-> "Completed", end |-> IF end[s] = 0 THEN 1 ELSE end[s]]]
        /\ event = [s \in Sprints |-> IF s \in old /\ recorded THEN 1 ELSE 0]
  BY DEF Lease!Init
<1>2. now = 2 /\ closed = event /\ repaired = FALSE
      /\ step = [n \in Steps |-> [status |-> "absent", created |-> 0, resolved |-> 0]]
      /\ pending = [c \in Calls |-> Lease!IdleCall]
  BY DEF Lease!Init
<1>3. \A s \in Sprints : end[s] \in Nat
  BY DEF Lease!Bounds
<1>4. dated \in [Sprints -> SprintRow] /\ event \in [Sprints -> Nat]
  BY <1>1, <1>3 DEF SprintRow
<1>5. LeaseTyped
  <2>1. closed \in [Sprints -> Nat]
    BY <1>2, <1>4
  <2>2. step \in [Steps -> StepRow]
    BY <1>2 DEF StepRow
  <2>3. DOMAIN pending = Calls
    BY <1>2
  <2>4. QED
    BY <1>2, <1>4, <2>1, <2>2, <2>3 DEF LeaseTyped
<1>6. \A c \in Calls : Informed(pending[c], now)
  BY <1>2 DEF Informed, Lease!IdleCall
<1>7. ASSUME NEW s \in Sprints PROVE Dated(dated[s], closed[s], Mendable(s)) /\ Recorded(event[s], closed[s], now)
  BY <1>1, <1>2 DEF Dated, Mendable, Recorded
<1>8. QED
  BY <1>5, <1>6, <1>7 DEF LeaseInv

\* A call goes on, or returns.
LEMMA CallsInformed ==
  ASSUME LeaseInv, NEW c \in Calls, NEW k, pending' = [pending EXCEPT ![c] = k],
         now' = now, Informed(k, now)
  PROVE  DOMAIN pending' = Calls /\ \A d \in Calls : Informed(pending'[d], now')
BY DEF LeaseInv, LeaseTyped

LEMMA ReturnInformed ==
  ASSUME LeaseInv, NEW c \in Calls, Lease!Return(c), now' = now
  PROVE  DOMAIN pending' = Calls /\ \A d \in Calls : Informed(pending'[d], now')
<1>1. Informed(Lease!IdleCall, now)
  BY DEF Informed, Lease!IdleCall
<1>2. pending' = [pending EXCEPT ![c] = Lease!IdleCall]
  BY DEF Lease!Return
<1>3. QED
  BY <1>1, <1>2, CallsInformed

\* A step that leaves the sprints alone.
LEMMA StepsOnly ==
  ASSUME LeaseInv, UNCHANGED <<dated, event, repaired, now, closed>>,
         step' \in [Steps -> StepRow],
         DOMAIN pending' = Calls, \A d \in Calls : Informed(pending'[d], now')
  PROVE  LeaseInv'
<1>1. \A s \in Sprints : Mendable(s)' <=> Mendable(s)
  BY DEF Mendable
<1>2. \A s \in Sprints : Dated(dated[s], closed[s], Mendable(s))' /\ Recorded(event[s], closed[s], now)'
  BY <1>1 DEF LeaseInv, Dated, Recorded
<1>3. LeaseTyped'
  BY DEF LeaseInv, LeaseTyped
<1>4. QED
  BY <1>2, <1>3 DEF LeaseInv

\* A step that writes one sprint, and what is known of its close.
LEMMA OneSprint ==
  ASSUME LeaseInv, UNCHANGED <<event, repaired, step, now>>,
         NEW s \in Sprints, NEW r \in SprintRow, NEW t \in Nat,
         dated' = [dated EXCEPT ![s] = r], closed' = [closed EXCEPT ![s] = t],
         Dated(r, t, Mendable(s)), t \in {0, closed[s], now},
         DOMAIN pending' = Calls, \A d \in Calls : Informed(pending'[d], now')
  PROVE  LeaseInv'
<1>1. \A u \in Sprints : Mendable(u)' <=> Mendable(u)
  BY DEF Mendable
<1>2. \A u \in Sprints : /\ dated'[u] = (IF u = s THEN r ELSE dated[u])
                         /\ closed'[u] = (IF u = s THEN t ELSE closed[u])
  BY DEF LeaseInv, LeaseTyped
<1>3. ASSUME NEW u \in Sprints PROVE Dated(dated[u], closed[u], Mendable(u))' /\ Recorded(event[u], closed[u], now)'
  <2>1. CASE u = s
    <3>1. Recorded(event[s], closed[s], now)
      BY DEF LeaseInv
    <3>2. Recorded(event[s], t, now)
      BY <3>1 DEF Recorded
    <3>3. Recorded(event[u], closed[u], now)'
      BY <1>2, <2>1, <3>2 DEF Recorded
    <3>4. QED
      BY <1>1, <1>2, <2>1, <3>3 DEF Dated
  <2>2. CASE u # s
    BY <1>1, <1>2, <2>2 DEF LeaseInv, Dated, Recorded
  <2>3. QED
    BY <2>1, <2>2
<1>4. LeaseTyped'
  BY DEF LeaseInv, LeaseTyped
<1>5. QED
  BY <1>3, <1>4 DEF LeaseInv

LEMMA TickKeeps ==
  ASSUME LeaseInv, Lease!Tick
  PROVE  LeaseInv'
<1>1. now' = now + 1 /\ UNCHANGED <<dated, event, repaired, step, pending, closed>>
  BY DEF Lease!Tick
<1>2. ASSUME NEW c \in Calls PROVE Informed(pending'[c], now')
  <2> DEFINE k == pending[c]
  <2>1. Informed(k, now) /\ now \in Nat /\ pending'[c] = k
    BY <1>1 DEF LeaseInv, LeaseTyped
  <2> HIDE DEF k
  <2>2. \A d \in Nat : d <= now => d <= now'
    BY <1>1, <2>1
  <2>3. QED
    BY <2>1, <2>2 DEF Informed
<1>3. ASSUME NEW s \in Sprints PROVE Dated(dated[s], closed[s], Mendable(s))' /\ Recorded(event[s], closed[s], now)'
  <2>1. Recorded(event[s], closed[s], now) /\ event[s] \in Nat /\ now \in Nat
    BY DEF LeaseInv, LeaseTyped
  <2>2. Recorded(event[s], closed[s], now)'
    BY <1>1, <2>1 DEF Recorded
  <2>3. QED
    BY <1>1, <2>2 DEF LeaseInv, Dated, Mendable
<1>4. LeaseTyped'
  BY <1>1 DEF LeaseInv, LeaseTyped
<1>5. QED
  BY <1>1, <1>2, <1>3, <1>4 DEF LeaseInv

LEMMA StartInsertKeeps ==
  ASSUME LeaseInv, NEW c \in Calls, NEW n \in Steps, Lease!StartInsert(c, n)
  PROVE  LeaseInv'
<1> DEFINE k == [Lease!IdleCall EXCEPT !.pc = "insert", !.at = now, !.steps = {n}]
<1>1. Informed(k, now)
  BY DEF Informed, Lease!IdleCall, LeaseInv, LeaseTyped
<1>2. pending' = [pending EXCEPT ![c] = k] /\ UNCHANGED <<dated, event, repaired, step, now, closed>>
  BY DEF Lease!StartInsert
<1> HIDE DEF k
<1>3. DOMAIN pending' = Calls /\ \A d \in Calls : Informed(pending'[d], now')
  BY <1>1, <1>2, CallsInformed
<1>4. step' \in [Steps -> StepRow]
  BY <1>2 DEF LeaseInv, LeaseTyped
<1>5. QED
  BY <1>2, <1>3, <1>4, StepsOnly

LEMMA StartCarryKeeps ==
  ASSUME LeaseInv, NEW c \in Calls, NEW S \in SUBSET Steps, Lease!StartCarry(c, S)
  PROVE  LeaseInv'
<1> DEFINE k == [Lease!IdleCall EXCEPT !.pc = IF S = {} THEN "carryAll" ELSE "carry",
                                       !.at = now, !.steps = S]
<1>1. Informed(k, now)
  BY DEF Informed, Lease!IdleCall, LeaseInv, LeaseTyped
<1>2. pending' = [pending EXCEPT ![c] = k] /\ UNCHANGED <<dated, event, repaired, step, now, closed>>
  BY DEF Lease!StartCarry
<1> HIDE DEF k
<1>3. DOMAIN pending' = Calls /\ \A d \in Calls : Informed(pending'[d], now')
  BY <1>1, <1>2, CallsInformed
<1>4. step' \in [Steps -> StepRow]
  BY <1>2 DEF LeaseInv, LeaseTyped
<1>5. QED
  BY <1>2, <1>3, <1>4, StepsOnly

LEMMA InsertKeeps ==
  ASSUME LeaseInv, NEW c \in Calls, Lease!Insert(c)
  PROVE  LeaseInv'
<1>1. pending[c].at \in Nat
  BY DEF Lease!Insert, LeaseInv, Informed
<1>2. step' = [n \in Steps |->
                 IF n \in pending[c].steps /\ step[n].status = "absent"
                   THEN [status |-> "pending", created |-> pending[c].at, resolved |-> 0] ELSE step[n]]
  BY DEF Lease!Insert
<1>3. step' \in [Steps -> StepRow]
  BY <1>1, <1>2 DEF LeaseInv, LeaseTyped, StepRow
<1>4. UNCHANGED <<dated, event, repaired, now, closed>> /\ Lease!Return(c)
  BY DEF Lease!Insert
<1>5. QED
  BY <1>3, <1>4, ReturnInformed, StepsOnly

LEMMA CarriedRow ==
  ASSUME LeaseInv, NEW n \in Steps, NEW at \in Nat
  PROVE  Lease!Carried(n, at) \in StepRow
<1>1. step[n] \in StepRow
  BY DEF LeaseInv, LeaseTyped
<1>2. QED
  BY <1>1 DEF Lease!Carried, StepRow

LEMMA CarryKeeps ==
  ASSUME LeaseInv, NEW c \in Calls, NEW n \in Steps, Lease!Carry(c, n)
  PROVE  LeaseInv'
<1> DEFINE at == pending[c].at
<1>1. at \in Nat /\ pending[c].pc = "carry"
  BY DEF Lease!Carry, LeaseInv, Informed
<1>2. step' = (IF Lease!Open(n) THEN [step EXCEPT ![n] = Lease!Carried(n, at)] ELSE step)
      /\ UNCHANGED <<dated, event, repaired, now, closed>>
  BY DEF Lease!Carry
<1>3. pending' = [pending EXCEPT ![c].steps = @ \ {n}] \/ Lease!Return(c)
  BY DEF Lease!Carry
<1>4. step' \in [Steps -> StepRow]
  <2>1. CASE Lease!Open(n)
    BY <1>1, <1>2, <2>1, CarriedRow DEF LeaseInv, LeaseTyped
  <2>2. CASE ~Lease!Open(n)
    BY <1>2, <2>2 DEF LeaseInv, LeaseTyped
  <2>3. QED
    BY <2>1, <2>2
<1>5. DOMAIN pending' = Calls /\ \A d \in Calls : Informed(pending'[d], now')
  <2>1. CASE Lease!Return(c)
    BY <1>2, <2>1, ReturnInformed
  <2>2. CASE pending' = [pending EXCEPT ![c].steps = @ \ {n}]
    <3> DEFINE k == [pending[c] EXCEPT !.steps = @ \ {n}]
    <3>1. k.pc = pending[c].pc /\ k.at = pending[c].at
      OBVIOUS
    <3>2. Informed(k, now)
      BY <1>1, <3>1 DEF Informed
    <3>3. pending' = [pending EXCEPT ![c] = k]
      BY <2>2
    <3>4. QED
      BY <1>2, <3>2, <3>3, CallsInformed
  <2>3. QED
    BY <1>3, <2>1, <2>2
<1>6. QED
  BY <1>2, <1>4, <1>5, StepsOnly

LEMMA CarryAllKeeps ==
  ASSUME LeaseInv, NEW c \in Calls, Lease!CarryAll(c)
  PROVE  LeaseInv'
<1> DEFINE at == pending[c].at
<1>1. at \in Nat
  BY DEF Lease!CarryAll, LeaseInv, Informed
<1>2. step' = [n \in Steps |-> IF Lease!Open(n) THEN Lease!Carried(n, at) ELSE step[n]]
  BY DEF Lease!CarryAll
<1>3. step' \in [Steps -> StepRow]
  BY <1>1, <1>2, CarriedRow DEF LeaseInv, LeaseTyped
<1>4. UNCHANGED <<dated, event, repaired, now, closed>> /\ Lease!Return(c)
  BY DEF Lease!CarryAll
<1>5. QED
  BY <1>3, <1>4, ReturnInformed, StepsOnly

LEMMA ResolveKeeps ==
  ASSUME LeaseInv, NEW n \in Steps, Lease!Resolve(n) \/ Lease!Reopen(n)
  PROVE  LeaseInv'
<1>1. step[n] \in StepRow /\ now \in Nat
  BY DEF LeaseInv, LeaseTyped
<1>2. UNCHANGED <<dated, event, repaired, pending, now, closed>>
  BY DEF Lease!Resolve, Lease!Reopen
<1>3. step' \in [Steps -> StepRow]
  <2>1. CASE Lease!Resolve(n)
    BY <1>1, <2>1 DEF Lease!Resolve, LeaseInv, LeaseTyped, StepRow
  <2>2. CASE Lease!Reopen(n)
    <3> DEFINE e == IF step[n].status = "carried" THEN step[n].resolved ELSE 0
    <3>1. e \in Nat
      BY <1>1 DEF StepRow
    <3>2. step' = [step EXCEPT ![n].status = "pending", ![n].resolved = e]
      BY <2>2 DEF Lease!Reopen
    <3> HIDE DEF e
    <3>3. QED
      BY <1>1, <3>1, <3>2 DEF LeaseInv, LeaseTyped, StepRow
  <2>3. QED
    BY <2>1, <2>2
<1>4. QED
  BY <1>2, <1>3, StepsOnly DEF LeaseInv, LeaseTyped

LEMMA AddSprintKeeps ==
  ASSUME LeaseInv, NEW s \in Sprints, NEW status \in {"open", "Completed"}, NEW end \in Nat,
         Lease!AddSprint(s, status, end)
  PROVE  LeaseInv'
<1> DEFINE r == [status |-> status, end |-> end]
<1>1. dated' = [dated EXCEPT ![s] = r] /\ UNCHANGED <<event, repaired, step, pending, now, closed>>
  BY DEF Lease!AddSprint
<1>2. closed[s] = 0
  BY DEF Lease!AddSprint, LeaseInv, Dated
<1>3. r \in SprintRow /\ Dated(r, 0, Mendable(s))
  BY DEF SprintRow, Dated
<1>4. closed' = [closed EXCEPT ![s] = 0]
  BY <1>1, <1>2 DEF LeaseInv, LeaseTyped
<1> HIDE DEF r
<1>5. QED
  BY <1>1, <1>3, <1>4, OneSprint DEF LeaseInv, LeaseTyped

LEMMA LeqReflexive == \A t \in Nat : t <= t
OBVIOUS

LEMMA StartUpdateKeeps ==
  ASSUME LeaseInv, NEW c \in Calls, NEW s \in Sprints, NEW to \in {"", "open", "Completed"},
         NEW end, end = {} \/ \E d \in Nat : end = {d}, Lease!StartUpdate(c, s, to, end)
  PROVE  LeaseInv'
<1>1. now \in Nat
  BY DEF LeaseInv, LeaseTyped
<1> DEFINE closing == to = "Completed" /\ dated[s].status # "Completed" /\ end \subseteq {0}
           k == [pc |-> "update", sprint |-> s, to |-> to,
                 closing |-> closing, end |-> IF closing THEN {now} ELSE end]
<1>2. Informed(k, now)
  <2>1. k.end = {} \/ \E d \in Nat : k.end = {d}
    BY <1>1
  <2>2. k.pc = "update" /\ k.sprint = s /\ k.to = to
    OBVIOUS
  <2>3. CASE closing
    <3>1. k.closing = TRUE /\ k.to = "Completed" /\ k.end = {now}
      BY <2>3
    <3>2. \E d \in Nat : k.end = {d} /\ d <= now
      BY <1>1, <3>1, LeqReflexive
    <3> HIDE DEF k
    <3>3. QED
      BY <2>1, <2>2, <3>1, <3>2 DEF Informed
  <2>4. CASE ~closing
    <3>1. k.closing = FALSE
      BY <2>4
    <3> HIDE DEF k
    <3>2. QED
      BY <2>1, <2>2, <3>1 DEF Informed
  <2>5. QED
    BY <2>3, <2>4
<1>3. pending' = [pending EXCEPT ![c] = k] /\ UNCHANGED <<dated, event, repaired, step, now, closed>>
  BY DEF Lease!StartUpdate
<1> HIDE DEF k
<1>4. DOMAIN pending' = Calls /\ \A d \in Calls : Informed(pending'[d], now')
  BY <1>2, <1>3, CallsInformed
<1>5. step' \in [Steps -> StepRow]
  BY <1>3 DEF LeaseInv, LeaseTyped
<1>6. QED
  BY <1>3, <1>4, <1>5, StepsOnly

LEMMA WriteSprintKeeps ==
  ASSUME LeaseInv, NEW c \in Calls, Lease!WriteSprint(c)
  PROVE  LeaseInv'
<1> DEFINE k == pending[c]
           s == k.sprint
           old == dated[s]
           e == IF k.end = {} THEN old.end ELSE CHOOSE d \in k.end : TRUE
           to == IF k.to = "" THEN old.status ELSE k.to
           r == [old EXCEPT !.status = to, !.end = e]
           t == IF k.closing THEN now
                ELSE IF k.end # {} \/ k.to = "Completed" THEN 0 ELSE closed[s]
<1>1. k.pc = "update" /\ Informed(k, now) /\ Lease!Return(c) /\ UNCHANGED <<event, repaired, step, now>>
  BY DEF Lease!WriteSprint, LeaseInv
<1>2. s \in Sprints /\ k.to \in {"", "open", "Completed"} /\ k.closing \in BOOLEAN
  BY <1>1 DEF Informed
<1>3. old \in SprintRow /\ closed[s] \in Nat /\ now \in Nat /\ Dated(old, closed[s], Mendable(s))
  BY <1>2 DEF LeaseInv, LeaseTyped
<1>4. e \in Nat /\ (k.closing => k.to = "Completed" /\ e <= now)
  <2>1. CASE k.end = {}
    <3>1. ~k.closing
      BY <1>1, <2>1 DEF Informed
    <3>2. QED
      BY <1>3, <2>1, <3>1 DEF SprintRow
  <2>2. CASE k.end # {}
    <3>1. PICK d \in Nat : k.end = {d}
      BY <1>1, <2>2 DEF Informed
    <3>2. e = d
      BY <3>1
    <3>3. k.closing => k.to = "Completed" /\ d <= now
      BY <1>1, <3>1 DEF Informed
    <3>4. QED
      BY <3>2, <3>3
  <2>3. QED
    BY <2>1, <2>2
<1>5. k.end = {} => e = old.end
  OBVIOUS
<1>6. dated' = [dated EXCEPT ![s].status = IF k.to = "" THEN @ ELSE k.to,
                             ![s].end = IF k.end = {} THEN @ ELSE CHOOSE d \in k.end : TRUE]
      /\ closed' = [closed EXCEPT ![s] = IF k.closing THEN now
                                         ELSE IF k.end # {} \/ k.to = "Completed" THEN 0 ELSE @]
  BY DEF Lease!WriteSprint
<1>7. dated' = [dated EXCEPT ![s].status = to, ![s].end = e] /\ closed' = [closed EXCEPT ![s] = t]
  BY <1>6
<1>8. to \in {"absent", "open", "Completed"} /\ (k.to = "" => to = old.status) /\ (k.to # "" => to = k.to)
  BY <1>2, <1>3 DEF SprintRow
<1> HIDE DEF e, to
<1>9. r \in SprintRow /\ r.status = to /\ r.end = e
  BY <1>3, <1>4, <1>8 DEF SprintRow
<1>10. dated' = [dated EXCEPT ![s] = r] /\ t \in Nat /\ t \in {0, closed[s], now}
  BY <1>2, <1>3, <1>7 DEF LeaseInv, LeaseTyped, SprintRow
<1>11. Dated(r, t, Mendable(s))
  <2>1. CASE k.closing
    BY <1>2, <1>4, <1>8, <1>9, <2>1 DEF Dated
  <2>2. CASE ~k.closing /\ (k.end # {} \/ k.to = "Completed")
    BY <1>2, <2>2 DEF Dated
  <2>3. CASE ~k.closing /\ k.end = {} /\ k.to # "Completed"
    BY <1>2, <1>3, <1>5, <1>8, <1>9, <2>3 DEF Dated
  <2>4. QED
    BY <1>2, <2>1, <2>2, <2>3
<1>12. DOMAIN pending' = Calls /\ \A d \in Calls : Informed(pending'[d], now')
  BY <1>1, ReturnInformed
<1> HIDE DEF r, t
<1>13. QED
  BY <1>1, <1>2, <1>7, <1>9, <1>10, <1>11, <1>12, OneSprint

LEMMA ReceiveStatusKeeps ==
  ASSUME LeaseInv, NEW s \in Sprints, NEW status \in {"open", "Completed"},
         Lease!ReceiveStatus(s, status)
  PROVE  LeaseInv'
<1> DEFINE r == [dated[s] EXCEPT !.status = status]
           t == IF status = "Completed" THEN 0 ELSE closed[s]
<1>1. dated[s] \in SprintRow /\ closed[s] \in Nat
  BY DEF LeaseInv, LeaseTyped
<1>2. dated' = [dated EXCEPT ![s] = r] /\ closed' = [closed EXCEPT ![s] = t]
  BY <1>1 DEF Lease!ReceiveStatus, SprintRow, LeaseInv, LeaseTyped
<1>3. r \in SprintRow /\ t \in Nat /\ t \in {0, closed[s], now}
  BY <1>1 DEF SprintRow
<1>4. Dated(r, t, Mendable(s))
  BY <1>1 DEF SprintRow, Dated
<1>5. UNCHANGED <<event, repaired, step, pending, now>>
  BY DEF Lease!ReceiveStatus
<1> HIDE DEF r, t
<1>6. QED
  BY <1>2, <1>3, <1>4, <1>5, OneSprint DEF LeaseInv, LeaseTyped

\* What the repair leaves of a row, as far as it came; all of it, and no close is
\* dated too late.
LEMMA RepairedRow ==
  ASSUME LeaseInv, NEW S \in SUBSET Lease!Misdated, NEW s \in Sprints
  PROVE  /\ Lease!Repaired(S)[s] \in SprintRow
         /\ Lease!Repaired(S)[s].status = dated[s].status
         /\ Dated(Lease!Repaired(S)[s], closed[s], Mendable(s))
         /\ S = Lease!Misdated => Dated(Lease!Repaired(S)[s], closed[s], FALSE)
<1>1. dated[s] \in SprintRow /\ event[s] \in Nat /\ closed[s] \in Nat
      /\ Dated(dated[s], closed[s], Mendable(s)) /\ Recorded(event[s], closed[s], now)
  BY DEF LeaseInv, LeaseTyped
<1>2. CASE s \in S
  <2>1. s \in Lease!Misdated
    BY <1>2
  <2>2. Lease!Repaired(S)[s] = [status |-> dated[s].status, end |-> event[s]]
    BY <1>1, <1>2 DEF Lease!Repaired, SprintRow
  <2>3. dated[s].status = "Completed"
    BY <2>1 DEF Lease!Misdated
  <2>4. QED
    BY <1>1, <2>2, <2>3 DEF SprintRow, Dated, Recorded
<1>3. CASE s \notin S
  <2>1. Lease!Repaired(S)[s] = dated[s]
    BY <1>3 DEF Lease!Repaired
  <2>2. ASSUME s \notin Lease!Misdated PROVE Dated(dated[s], closed[s], FALSE)
    BY <1>1, <2>2 DEF Lease!Misdated, SprintRow, Dated, Recorded, Mendable
  <2>3. QED
    BY <1>1, <1>3, <2>1, <2>2
<1>4. QED
  BY <1>2, <1>3

\* A repair that is marked as done left no date out.
LEMMA CloseRepairs ==
  ASSUME LeaseInv, NEW s \in Sprints, Lease!Close(s)
  PROVE  \E S \in SUBSET Lease!Misdated :
            /\ dated' = [Lease!Repaired(S) EXCEPT ![s] = [status |-> "Completed", end |-> now]]
            /\ Lease!DropLapsed(Lease!Repaired(S))
            /\ repaired' \in BOOLEAN
            /\ repaired' = TRUE => S = Lease!Misdated
            /\ repaired = TRUE => repaired' = TRUE
            /\ event' = event \/ event' = [event EXCEPT ![s] = now]
<1>1. PICK S \in SUBSET Lease!Misdated :
        /\ repaired' \in IF S = Lease!Misdated THEN {repaired, TRUE} ELSE {FALSE}
        /\ Lease!DropLapsed(Lease!Repaired(S))
        /\ dated' = Lease!CompleteSprintRecord(Lease!Repaired(S), s)
        /\ \E e \in IF repaired' THEN {event[s]} ELSE {now} \cup ({event[s]} \ {0}) :
             event' = [event EXCEPT ![s] = e]
  BY DEF Lease!Close
<1>2. repaired = TRUE => S = Lease!Misdated
  BY DEF Lease!Misdated
<1>3. dated' = [Lease!Repaired(S) EXCEPT ![s] = [status |-> "Completed", end |-> now]]
  BY <1>1 DEF Lease!CompleteSprintRecord
<1>4. event' = event \/ event' = [event EXCEPT ![s] = now]
  <2>1. PICK e \in IF repaired' THEN {event[s]} ELSE {now} \cup ({event[s]} \ {0}) :
          event' = [event EXCEPT ![s] = e]
    BY <1>1
  <2>2. e = event[s] \/ e = now
    BY <2>1
  <2>3. [event EXCEPT ![s] = event[s]] = event
    BY DEF LeaseInv, LeaseTyped
  <2>4. QED
    BY <2>1, <2>2, <2>3
<1>5. repaired \in BOOLEAN
  BY DEF LeaseInv, LeaseTyped
<1>6. repaired' \in BOOLEAN /\ (repaired' = TRUE => S = Lease!Misdated) /\ (repaired = TRUE => repaired' = TRUE)
  <2>1. CASE S = Lease!Misdated
    BY <1>1, <1>5, <2>1
  <2>2. CASE S # Lease!Misdated
    BY <1>1, <1>2, <2>2
  <2>3. QED
    BY <2>1, <2>2
<1>7. QED
  BY <1>1, <1>3, <1>4, <1>6

LEMMA CloseKeeps ==
  ASSUME LeaseInv, NEW s \in Sprints, Lease!Close(s)
  PROVE  LeaseInv'
<1> DEFINE r == [status |-> "Completed", end |-> now]
<1>1. now \in Nat /\ closed \in [Sprints -> Nat] /\ event \in [Sprints -> Nat]
  BY DEF LeaseInv, LeaseTyped
<1>2. PICK S \in SUBSET Lease!Misdated :
        /\ dated' = [Lease!Repaired(S) EXCEPT ![s] = r]
        /\ Lease!DropLapsed(Lease!Repaired(S))
        /\ repaired' \in BOOLEAN
        /\ repaired' = TRUE => S = Lease!Misdated
        /\ repaired = TRUE => repaired' = TRUE
        /\ event' = event \/ event' = [event EXCEPT ![s] = now]
  BY CloseRepairs
<1>3. closed' = [closed EXCEPT ![s] = now] /\ UNCHANGED <<pending, now>>
  BY DEF Lease!Close
<1> DEFINE rows == Lease!Repaired(S)
<1>4. \A u \in Sprints : /\ rows[u] \in SprintRow
                         /\ Dated(rows[u], closed[u], Mendable(u))
                         /\ S = Lease!Misdated => Dated(rows[u], closed[u], FALSE)
  BY RepairedRow
<1>5. rows \in [Sprints -> SprintRow]
  <2>1. DOMAIN rows = Sprints /\ rows = [u \in DOMAIN rows |-> rows[u]]
    BY DEF Lease!Repaired
  <2> HIDE DEF rows
  <2>2. QED
    BY <1>4, <2>1
<1>6. step' \in [Steps -> StepRow]
  <2>1. step' = [n \in Steps |-> IF n \in Lease!Lapsed(rows)
                                   THEN [step[n] EXCEPT !.status = "resolved", !.resolved = now] ELSE step[n]]
    BY <1>2 DEF Lease!DropLapsed
  <2> HIDE DEF rows
  <2>2. ASSUME NEW n \in Steps PROVE step'[n] \in StepRow
    <3>1. step[n] \in StepRow
      BY DEF LeaseInv, LeaseTyped
    <3>2. CASE n \in Lease!Lapsed(rows)
      <4>1. step'[n] = [status |-> "resolved", created |-> step[n].created, resolved |-> now]
        BY <2>1, <3>1, <3>2 DEF StepRow
      <4>2. QED
        BY <1>1, <3>1, <4>1 DEF StepRow
    <3>3. CASE n \notin Lease!Lapsed(rows)
      BY <2>1, <3>1, <3>3
    <3>4. QED
      BY <3>2, <3>3
  <2>3. QED
    BY <2>1, <2>2
<1>7. dated' = [rows EXCEPT ![s] = r] /\ r \in SprintRow
  BY <1>1, <1>2 DEF SprintRow
<1> HIDE DEF rows
<1>8. LeaseTyped'
  <2>1. event' \in [Sprints -> Nat]
    BY <1>1, <1>2
  <2>2. QED
    BY <1>1, <1>2, <1>3, <1>5, <1>6, <1>7, <2>1 DEF LeaseInv, LeaseTyped
<1>9. ASSUME NEW u \in Sprints
      PROVE  Dated(dated[u], closed[u], Mendable(u))' /\ Recorded(event[u], closed[u], now)'
  <2>1. Recorded(event[u], closed[u], now) /\ event[u] \in Nat
    BY DEF LeaseInv, LeaseTyped
  <2>2. CASE u = s
    <3>1. dated'[u] = r /\ closed'[u] = now /\ event'[u] \in {event[u], now}
      BY <1>1, <1>2, <1>3, <1>5, <1>7, <2>2
    <3>2. QED
      BY <1>1, <1>3, <2>1, <3>1 DEF Dated, Recorded
  <2>3. CASE u # s
    <3>1. dated'[u] = rows[u] /\ closed'[u] = closed[u] /\ event'[u] = event[u]
      BY <1>1, <1>2, <1>3, <1>5, <1>7, <2>3
    <3>2. Recorded(event[u], closed[u], now)'
      BY <1>3, <2>1, <3>1 DEF Recorded
    <3>3. CASE repaired' = TRUE
      BY <1>2, <1>4, <3>1, <3>2, <3>3 DEF Dated
    <3>4. CASE repaired' = FALSE
      <4>1. repaired = FALSE
        BY <1>2, <3>4 DEF LeaseInv, LeaseTyped
      <4>2. Mendable(u)' <=> Mendable(u)
        BY <3>1, <3>4, <4>1 DEF Mendable
      <4>3. QED
        BY <1>4, <3>1, <3>2, <4>2 DEF Dated
    <3>5. QED
      BY <1>2, <3>3, <3>4
  <2>4. QED
    BY <2>2, <2>3
<1>10. \A d \in Calls : Informed(pending'[d], now')
  BY <1>3 DEF LeaseInv
<1>11. QED
  BY <1>6, <1>8, <1>9, <1>10 DEF LeaseInv

LEMMA InterruptKeeps ==
  ASSUME LeaseInv, NEW c \in Calls, Lease!Interrupt(c)
  PROVE  LeaseInv'
<1>1. UNCHANGED <<dated, event, repaired, step, now, closed>> /\ Lease!Return(c)
  BY DEF Lease!Interrupt
<1>2. DOMAIN pending' = Calls /\ \A d \in Calls : Informed(pending'[d], now')
  BY <1>1, ReturnInformed
<1>3. QED
  BY <1>1, <1>2, StepsOnly DEF LeaseInv, LeaseTyped

LEMMA LeaseStep ==
  ASSUME Lease!Bounds, LeaseInv, [Lease!Next]_Lease!vars
  PROVE  LeaseInv'
<1>1. Dates \subseteq Nat
  BY DEF Lease!Bounds
<1>2. ASSUME NEW c \in Calls, Lease!CallStep(c) PROVE LeaseInv'
  <2>1. ASSUME NEW n \in Steps, Lease!StartInsert(c, n) PROVE LeaseInv'
    BY <2>1, StartInsertKeeps
  <2>2. ASSUME NEW n \in Steps, Lease!Carry(c, n) PROVE LeaseInv'
    BY <2>2, CarryKeeps
  <2>3. ASSUME NEW S \in SUBSET Steps, Lease!StartCarry(c, S) PROVE LeaseInv'
    BY <2>3, StartCarryKeeps
  <2>4. ASSUME NEW s \in Sprints, NEW to \in {"", "open", "Completed"},
               NEW end \in {{}} \cup {{d} : d \in Dates}, Lease!StartUpdate(c, s, to, end)
        PROVE  LeaseInv'
    <3>1. end = {} \/ \E d \in Nat : end = {d}
      BY <1>1
    <3>2. QED
      BY <2>4, <3>1, StartUpdateKeeps
  <2>5. CASE Lease!Insert(c)
    BY <2>5, InsertKeeps
  <2>6. CASE Lease!CarryAll(c)
    BY <2>6, CarryAllKeeps
  <2>7. CASE Lease!WriteSprint(c)
    BY <2>7, WriteSprintKeeps
  <2>8. CASE Lease!Interrupt(c)
    BY <2>8, InterruptKeeps
  <2>9. QED
    BY <1>2, <2>1, <2>2, <2>3, <2>4, <2>5, <2>6, <2>7, <2>8 DEF Lease!CallStep
<1>3. ASSUME NEW n \in Steps, Lease!Resolve(n) \/ Lease!Reopen(n) PROVE LeaseInv'
  BY <1>3, ResolveKeeps
<1>4. ASSUME NEW s \in Sprints, NEW status \in {"open", "Completed"},
             Lease!ReceiveStatus(s, status) \/ \E end \in Dates : Lease!AddSprint(s, status, end)
      PROVE  LeaseInv'
  <2>1. ASSUME NEW end \in Dates, Lease!AddSprint(s, status, end) PROVE LeaseInv'
    BY <1>1, <2>1, AddSprintKeeps
  <2>2. QED
    BY <1>4, <2>1, ReceiveStatusKeeps
<1>5. ASSUME NEW s \in Sprints, Lease!Close(s) PROVE LeaseInv'
  BY <1>5, CloseKeeps
<1>6. CASE Lease!Tick
  BY <1>6, TickKeeps
<1>7. CASE UNCHANGED Lease!vars
  <2>1. UNCHANGED <<dated, event, repaired, step, pending, now, closed>>
    BY <1>7 DEF Lease!vars
  <2>2. QED
    BY <2>1, StepsOnly DEF LeaseInv, LeaseTyped
<1>8. QED
  BY <1>2, <1>3, <1>4, <1>5, <1>6, <1>7 DEF Lease!Next

LEMMA SameCardinality == \A S : Lease!Cardinality(S) = Cardinality(S)
BY DEF Lease!Cardinality, Cardinality, Lease!IsFiniteSet, IsFiniteSet

\* What the survey of a close counts.
LEMMA SurvivedCloses ==
  ASSUME Lease!Bounds, LeaseInv, NEW s \in Sprints, NEW n \in Steps,
         Lease!Close(s), repaired', Lease!Open(n), step'[n].status = "resolved"
  PROVE  /\ Lease!Cardinality({t \in Sprints \ {s} :
                           IF closed[t] # 0 THEN closed[t] > Lease!Anchor(n)
                           ELSE /\ dated[t].status = "Completed"
                                /\ Lease!Repaired(Lease!Misdated)[t].end \in (Lease!Anchor(n) + 1)..now})
              >= LAPSE_AT
         /\ now >= Lease!Anchor(n) + MIN_AGE
<1> DEFINE rows == Lease!Repaired(Lease!Misdated)
           a == Lease!Anchor(n)
           C == {t \in Sprints : /\ rows[t].status = "Completed" /\ rows[t].end # 0
                                 /\ rows[t].end <= now /\ rows[t].end > a}
           D == {t \in Sprints \ {s} :
                   IF closed[t] # 0 THEN closed[t] > a
                   ELSE dated[t].status = "Completed" /\ rows[t].end \in (a + 1)..now}
<1>1. step[n] \in StepRow /\ now \in Nat
  BY DEF LeaseInv, LeaseTyped
<1>2. a \in Nat
  BY <1>1 DEF Lease!Anchor, StepRow
<1>3. n \in Lease!Lapsed(rows)
  <2>1. Lease!DropLapsed(rows)
    BY CloseRepairs
  <2>2. step' = [m \in Steps |-> IF m \in Lease!Lapsed(rows)
                                   THEN [step[m] EXCEPT !.status = "resolved", !.resolved = now] ELSE step[m]]
    BY <2>1 DEF Lease!DropLapsed
  <2>3. step[n].status # "resolved"
    BY DEF Lease!Open
  <2>4. QED
    BY <2>2, <2>3
<1>4. Lease!Cardinality(C) >= LAPSE_AT /\ now - a >= MIN_AGE
  BY <1>3 DEF Lease!Lapsed, Lease!ClosesSurvived
<1>5. ASSUME NEW t \in C PROVE t \in D
  <2>1. /\ rows[t] \in SprintRow /\ rows[t].status = dated[t].status
        /\ Dated(rows[t], closed[t], FALSE)
    BY RepairedRow
  <2> HIDE DEF rows, a
  <2>2. t # s
    <3>1. dated[s].status = "open"
      BY DEF Lease!Close
    <3>2. QED
      BY <2>1, <3>1
  <2>3. closed[t] \in Nat
    BY DEF LeaseInv, LeaseTyped
  <2>4. closed[t] # 0 => closed[t] > a
    BY <1>2, <2>1, <2>3 DEF Dated, SprintRow
  <2>5. dated[t].status = "Completed" /\ rows[t].end \in (a + 1)..now
    BY <1>1, <1>2, <2>1 DEF SprintRow
  <2>6. QED
    BY <2>2, <2>4, <2>5
<1>6. IsFiniteSet(Sprints)
  BY DEF Lease!Bounds, Lease!IsFiniteSet, IsFiniteSet
<1>7. D \subseteq Sprints /\ IsFiniteSet(D)
  BY <1>6, FS_Subset
<1>8. /\ Lease!Cardinality(C) <= Lease!Cardinality(D)
      /\ Lease!Cardinality(C) \in Nat /\ Lease!Cardinality(D) \in Nat
  <2>1. C \subseteq D
    BY <1>5
  <2> HIDE DEF C, D
  <2>2. Cardinality(C) <= Cardinality(D) /\ Cardinality(C) \in Nat /\ Cardinality(D) \in Nat
    BY <2>1, <1>7, FS_Subset, FS_CardinalityType
  <2>3. QED
    BY <2>2, SameCardinality
<1>9. LAPSE_AT \in Nat /\ MIN_AGE \in Nat
  BY DEF Lease!Bounds
<1> HIDE DEF C, D, a
<1>10. Lease!Cardinality(D) >= LAPSE_AT /\ now >= a + MIN_AGE
  BY <1>1, <1>2, <1>4, <1>8, <1>9
<1>11. QED
  BY <1>10 DEF D, a

\* A close drops a next step only if LAPSE_AT sprints were really closed since it
\* was made or carried, for any number of calls, steps and sprints: no date that was
\* planned or that an older version left, no earlier close and not the close itself
\* is counted.  Sprints whose end date was given by hand, or that another machine
\* completed, count as their repaired dates say.  A close whose repair failed still
\* goes by the dates that it found.
THEOREM DropsFollowRealCloses ==
  ASSUME Lease!Bounds
  PROVE  Lease!Spec => Lease!DroppedAfterRealCloses
<1>1. Lease!Init => LeaseInv
  BY LeaseInit
<1>2. LeaseInv /\ [Lease!Next]_Lease!vars => LeaseInv'
  BY LeaseStep
<1>3. LeaseInv /\ [Lease!Next]_Lease!vars =>
        [\A s \in Sprints, n \in Steps :
           Lease!Close(s) /\ repaired' /\ Lease!Open(n) /\ step'[n].status = "resolved" =>
             /\ Lease!Cardinality({t \in Sprints \ {s} :
                               IF closed[t] # 0 THEN closed[t] > Lease!Anchor(n)
                               ELSE /\ dated[t].status = "Completed"
                                    /\ Lease!Repaired(Lease!Misdated)[t].end \in (Lease!Anchor(n) + 1)..now})
                  >= LAPSE_AT
             /\ now >= Lease!Anchor(n) + MIN_AGE]_Lease!vars
  BY SurvivedCloses
<1>4. QED
  BY <1>1, <1>2, <1>3, PTL DEF Lease!Spec, Lease!DroppedAfterRealCloses

=============================================================================
