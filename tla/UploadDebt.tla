----------------------------- MODULE UploadDebt -----------------------------
(***************************************************************************)
(* What the upload row of a project promises to the tool calls that mark   *)
(* it, with no lease, generation or process in it: a promise to upload is  *)
(* kept until the dashboard has the promised write, and the debt is dated  *)
(* no later than the oldest promise that is neither kept nor excused.      *)
(***************************************************************************)
EXTENDS Integers

CONSTANT None

VARIABLES
  promises,   \* the promises taken: a store version and a time each
  delivered,  \* newest version the dashboard has
  excused,    \* newest version answered for without having been sent
  since       \* time of the debt, or None

debtVars == <<promises, delivered, excused, since>>

Init == promises = {} /\ delivered = 0 /\ excused = 0 /\ since = None

Record ==
  /\ \E p \in promises' :
       /\ promises' = promises \cup {p}
       /\ since' = IF since = None THEN p.at ELSE since
  /\ UNCHANGED <<delivered, excused>>

Receive == delivered' > delivered /\ UNCHANGED <<promises, excused, since>>

Excuse == excused' > excused /\ UNCHANGED <<promises, delivered, since>>

\* Every promise is kept, excused, or no older than s.
KeptUntil(s) ==
  \A p \in promises : \/ p.version <= delivered \/ p.version <= excused
                      \/ s # None /\ s <= p.at

\* A payment moves the date of the debt forward, as far as promises are kept.
Settle ==
  /\ since # None
  /\ since' # None => since <= since'
  /\ KeptUntil(since')
  /\ UNCHANGED <<promises, delivered, excused>>

\* The project is unregistered, and with it what was promised to it.
Forget == promises' = {} /\ since' = None /\ UNCHANGED <<delivered, excused>>

Next == Record \/ Receive \/ Excuse \/ Settle \/ Forget

Spec == Init /\ [][Next]_debtVars
=============================================================================
