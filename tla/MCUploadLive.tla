---------------------------- MODULE MCUploadLive ----------------------------
(***************************************************************************)
(* UploadLease under fairness: a running server's timer keeps firing, and  *)
(* what an attempt has begun it goes on with.  The behaviours are infinite *)
(* and the state space finite: after Horizon no new mark and no new fault  *)
(* happens, and the clock stops late enough for every quiet period and     *)
(* every lease of before to have run out.                                  *)
(***************************************************************************)
EXTENDS UploadLease, TLC

CONSTANTS Horizon,    \* last tick at which marks and faults happen
          MaxTime,    \* last tick
          MaxWrites,  \* writes committed to the store
          MaxMarks,   \* marks taken by the row
          MaxFaults   \* crashes, failed sends and failed renewals

ASSUME EverythingRunsOut ==
  Horizon + LEASE <= MaxTime /\ Horizon + QUIET <= MaxTime

VARIABLE faults

liveVars == <<vars, faults>>

LiveInit == Init /\ registered /\ faults = 0

NoFault(A) == A /\ UNCHANGED faults

Fault(A) ==
  /\ now <= Horizon /\ faults < MaxFaults
  /\ A
  /\ faults' = faults + 1

Early(A) == now <= Horizon /\ row.generation < MaxMarks /\ NoFault(A)

Succeeds(a) == att'[a].outcome = "success"

LiveTick == now < MaxTime /\ NoFault(Tick)

Proceed(a) ==
  \/ NoFault(ClaimClose(a))
  \/ NoFault(LeaveToHolder(a))
  \/ NoFault(Snapshot(a))
  \/ NoFault(Deliver(a) /\ Succeeds(a))
  \/ NoFault(StartReplay(a))
  \/ NoFault(EndReplay(a) /\ Succeeds(a))
  \/ NoFault(Finish(a))

LiveNext ==
  \/ LiveTick
  \/ \E w \in Writers :
       \/ now <= Horizon /\ store < MaxWrites /\ NoFault(Write(w))
       \/ Early(MarkWrite(w))
       \/ Fault(DropMark(w))
  \/ \E a \in Attempts :
       \/ Early(OpenClose(a))
       \/ Early(MarkClose(a))
       \/ NoFault(ClaimTimer(a))
       \/ Proceed(a)
       \/ NoFault(Renew(a))
       \/ Fault(RenewThrows(a))
       \/ Fault(Deliver(a) /\ ~Succeeds(a))
       \/ Fault(EndReplay(a) /\ ~Succeeds(a))
       \/ Fault(SendFails(a))
       \/ Fault(Crash(a))

\* An open MCP server polls every opened project each minute (setInterval in
\* startTimer), and awaits in an attempt resolve; time passes.  Nothing makes a
\* tool call, a close or a renewal happen.
LiveSpec ==
  /\ LiveInit
  /\ [][LiveNext]_liveVars
  /\ WF_liveVars(LiveTick)
  /\ \A t \in Timers : WF_liveVars(NoFault(ClaimTimer(t)))
  /\ \A a \in Attempts : WF_liveVars(Proceed(a))

\* While one server has the project open, a debt is paid, or the dashboard
\* refuses it for good, whoever held the lease when it was taken: a dead holder,
\* a lost lease and a failed send only delay it.
DebtIsEventuallyPaid ==
  row.firstOwedAt # None ~> row.firstOwedAt = None \/ row.blocked = 1
=============================================================================
