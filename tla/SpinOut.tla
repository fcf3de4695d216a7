------------------------------ MODULE SpinOut ------------------------------
(***************************************************************************)
(* Moving records from one store into another, which is a copy and a mark. *)
(*                                                                         *)
(* SQLite has no commit over two databases in WAL mode, so the command     *)
(* publishes a reservation in the source, copies into the target with a    *)
(* receipt, and then marks the source, in three transactions.  It may end  *)
(* between any two of them, be repeated, run twice at once, and meet the   *)
(* ordinary work on both stores; the target may be restored from a backup. *)
(* An operation is named by a hash of the two roots and the selection, so  *)
(* that the same command is the same operation.                            *)
(***************************************************************************)
EXTENDS Naturals, FiniteSets

CONSTANTS
  Processes,   \* invocations of `spin-out --apply`, any number of times each
  Rows,        \* rows of the source
  Targets,     \* stores that may receive them
  Source,      \* the lock of the source
  Operations,  \* commands: a target and the rows that are selected if they exist
  Ids,         \* identities of rows in a target
  Restorable,  \* targets whose database is restored from a backup at times
  MaxVersion,  \* bound on the edits of a row
  MaxRestores, \* bound on the restores of a target
  None

\* A row of a target: of which row it is the copy, of which version, and whether
\* it was edited there.  Work in the target makes rows that are copies of none.
Cell == [row : Rows \cup {None}, version : 0..MaxVersion, edited : BOOLEAN]

Local == [row |-> None, version |-> 0, edited |-> FALSE]

\* Functions from some rows to S.
PartOf(S) == UNION {[R -> S] : R \in SUBSET Rows}

\* An operation in the ledger of the source, bound to the file of its target.
Entry == [phase : {"reserved", "marked"},
          manifest : [rows : PartOf(1..MaxVersion), inventory : SUBSET Rows],
          ids : PartOf(Ids), inode : 0..MaxRestores]

ASSUME SpinOutAssumption ==
  /\ Operations \subseteq [target : Targets, rows : SUBSET Rows]
  /\ Source \notin Targets /\ Restorable \subseteq Targets
  /\ None \notin Processes /\ None \notin Rows /\ None \notin Operations
  /\ None \notin Cell /\ None \notin Entry
  /\ MaxVersion \in Nat \ {0} /\ MaxRestores \in Nat

VARIABLES
  payload,   \* source: version of each row, 0 before it exists
  reserved,  \* source: spin_out_reservation, the operation that holds the row
  pointer,   \* source: spin_out_row, the operation that moved the row
  ledger,    \* source: spin_out_operation, with phase, manifest and identities
  cell,      \* target: its rows
  receipt,   \* target: spin_out_operation of an operation, there or not
  inode,     \* target: which file the database is, by a count of its restores
  backup,    \* target: the last backup taken, where one may be used
  lock,      \* the process inside a BEGIN IMMEDIATE of a store
  run,       \* the invocations
  told       \* history: operations that answered, or are to answer, that all is moved

source == <<payload, reserved, pointer, ledger>>
target == <<cell, receipt, inode, backup>>
vars   == <<source, target, lock, run, told>>

-----------------------------------------------------------------------------
Idle == [at |-> "idle", op |-> None, inode |-> 0, fresh |-> FALSE]

Init ==
  /\ payload \in [Rows -> {0, 1}]
  /\ reserved = [r \in Rows |-> None]
  /\ pointer = [r \in Rows |-> None]
  /\ ledger = [o \in Operations |-> None]
  /\ cell = [t \in Targets |-> [i \in Ids |-> None]]
  /\ receipt = [o \in Operations |-> FALSE]
  /\ inode = [t \in Targets |-> 0]
  /\ backup = [t \in Restorable |-> [cell |-> [i \in Ids |-> None], receipts |-> {}]]
  /\ lock = [s \in Targets \cup {Source} |-> None]
  /\ run = [p \in Processes |-> Idle]
  /\ told = {}

\* Mutant: a selected row need not be there.
SelectedByName(o) == o.rows

Selected(o) == {r \in o.rows : payload[r] > 0}

\* captureSpinOutManifest: the selected rows with their payload, and, since a
\* citation may name any record, which rows there are at all.
Manifest(o) == [rows |-> [r \in Selected(o) |-> payload[r]],
                inventory |-> {r \in Rows : payload[r] > 0}]

Planned(o) == DOMAIN ledger[o].ids
CopyOf(o, r) == cell[o.target][ledger[o].ids[r]]

\* verifySpinOutBinding, for the target.
Bound(o) == ledger[o].inode = inode[o.target]

HasReservations(o) == \A r \in Planned(o) : reserved[r] = o

\* verifySpinOutTarget finds the receipt, and its proof still fits the rows.
Intact(o) ==
  /\ receipt[o]
  /\ \A r \in Planned(o) :
       CopyOf(o, r) = [row |-> r, version |-> ledger[o].manifest.rows[r], edited |-> FALSE]

\* verifySpinOutMarked.
Marked(o) == HasReservations(o) /\ \A r \in Planned(o) : pointer[r] = o

-----------------------------------------------------------------------------
(* The command. *)

\* Nothing is open that a restore would pull away; a retry that may go on.
Open(p, o) ==
  /\ run[p].at = "idle"
  /\ Selected(o) # {}
  /\ ledger[o] # None =>
       /\ ledger[o].phase = "reserved"
       /\ Bound(o) /\ Intact(o) /\ ledger[o].manifest = Manifest(o)
  /\ run' = [run EXCEPT ![p] = [Idle EXCEPT !.at = "opened", !.op = o,
                                            !.inode = inode[o.target]]]
  /\ UNCHANGED <<source, target, lock, told>>

\* A retry of what is complete answers without a write.
AnswerUnchanged(p, o) ==
  /\ run[p].at = "idle"
  /\ Selected(o) # {}
  /\ ledger[o] # None /\ ledger[o].phase = "marked"
  /\ Bound(o) /\ Marked(o) /\ Intact(o)
  /\ told' = told \cup {o}
  /\ UNCHANGED <<source, target, lock, run>>

Content(t) == [cell |-> cell[t],
               receipts |-> {o \in Operations : o.target = t /\ receipt[o]}]

\* Backups; then both stores are opened again and must be the same files.
Backup(p) ==
  LET o == run[p].op
      t == o.target
  IN /\ run[p].at = "opened"
     /\ inode[t] = run[p].inode
     /\ backup' = [x \in Restorable |-> IF x = t THEN Content(t) ELSE backup[x]]
     /\ run' = [run EXCEPT ![p].at = "ready"]
     /\ UNCHANGED <<source, cell, receipt, inode, lock, told>>

\* BEGIN IMMEDIATE; it waits a second for the lock and then fails, which is Abandon.
Take(s, p) == lock[s] = None /\ lock' = [lock EXCEPT ![s] = p]

LockSource(p) ==
  /\ run[p].at = "ready"
  /\ Take(Source, p)
  /\ run' = [run EXCEPT ![p].at = "source"]
  /\ UNCHANGED <<source, target, told>>

\* Mutant: the source is not compared with what was reserved.
ResumeAnyway(p) ==
  LET o == run[p].op
  IN /\ run[p].at = "source" /\ ledger[o] # None
     /\ Bound(o) /\ HasReservations(o) /\ ledger[o].phase = "reserved"
     /\ lock[o.target] = None
     /\ lock' = [lock EXCEPT ![o.target] = p]
     /\ run' = [run EXCEPT ![p].at = "both"]
     /\ UNCHANGED <<source, target, told>>

\* The operation was reserved before: everything must be as it was then.
Resume(p) ==
  LET o == run[p].op
  IN /\ run[p].at = "source" /\ ledger[o] # None
     /\ Bound(o) /\ HasReservations(o)
     /\ lock[o.target] = None
     /\ \/ /\ ledger[o].phase = "marked" /\ Marked(o) /\ Intact(o)
           /\ told' = told \cup {o}
           /\ lock' = [lock EXCEPT ![Source] = None]
           /\ run' = [run EXCEPT ![p] = Idle]
        \/ /\ ledger[o].phase = "reserved" /\ ledger[o].manifest = Manifest(o)
           /\ lock' = [lock EXCEPT ![o.target] = p]
           /\ run' = [run EXCEPT ![p].at = "both"]
           /\ UNCHANGED told
     /\ UNCHANGED <<source, target>>

\* Mutant: only rows that were moved are refused.
FreeUnlessMoved(o) == \A r \in Selected(o) : pointer[r] = None

\* reserveSpinOut: no row that was moved, and none that another operation holds.
Free(o) == \A r \in Selected(o) : pointer[r] = None /\ reserved[r] \in {None, o}

\* Identities that the target does not use, one for each row.
Allocations(o) ==
  {f \in [Selected(o) -> {i \in Ids : cell[o.target][i] = None}] :
     \A r1, r2 \in Selected(o) : f[r1] = f[r2] => r1 = r2}

\* The reservation is published in the source while the target is still locked.
Reserve(p) ==
  LET o == run[p].op
  IN /\ run[p].at = "source" /\ ledger[o] = None
     /\ Selected(o) # {} /\ ~receipt[o] /\ Free(o)
     /\ lock[o.target] = None
     /\ \E ids \in Allocations(o) :
          ledger' = [ledger EXCEPT ![o] = [phase |-> "reserved", manifest |-> Manifest(o),
                                           ids |-> ids, inode |-> inode[o.target]]]
     /\ reserved' = [r \in Rows |-> IF r \in Selected(o) THEN o ELSE reserved[r]]
     /\ lock' = [lock EXCEPT ![Source] = None, ![o.target] = p]
     /\ run' = [run EXCEPT ![p].at = "published"]
     /\ UNCHANGED <<payload, pointer, target, told>>

ReleaseTarget(p) ==
  /\ run[p].at = "published"
  /\ lock' = [lock EXCEPT ![run[p].op.target] = None]
  /\ run' = [run EXCEPT ![p].at = "gap"]
  /\ UNCHANGED <<source, target, told>>

RelockSource(p) ==
  /\ run[p].at = "gap"
  /\ Take(Source, p)
  /\ run' = [run EXCEPT ![p].at = "regained"]
  /\ UNCHANGED <<source, target, told>>

RelockTarget(p) ==
  LET o == run[p].op
  IN /\ run[p].at = "regained"
     /\ Take(o.target, p)
     /\ HasReservations(o) /\ ledger[o].phase = "reserved"
     /\ ledger[o].manifest = Manifest(o)
     /\ run' = [run EXCEPT ![p].at = "both", ![p].fresh = TRUE]
     /\ UNCHANGED <<source, target, told>>

\* The rows of the target once the copies are in.
WithCopies(o) ==
  [i \in Ids |->
     IF \E r \in Planned(o) : ledger[o].ids[r] = i
     THEN LET r == CHOOSE x \in Planned(o) : ledger[o].ids[x] = i
          IN [row |-> r, version |-> ledger[o].manifest.rows[r], edited |-> FALSE]
     ELSE cell[o.target][i]]

\* Mutant: INSERT OR REPLACE.
InsertOrReplace(o) ==
  /\ cell' = [cell EXCEPT ![o.target] = WithCopies(o)]
  /\ receipt' = [receipt EXCEPT ![o] = TRUE]

\* copySpinOutTarget and the commit.  Only who made the reservation may copy, and
\* an identity that is no longer free fails the INSERT.
Insert(o) ==
  /\ \A r \in Planned(o) : CopyOf(o, r) = None
  /\ cell' = [cell EXCEPT ![o.target] = WithCopies(o)]
  /\ receipt' = [receipt EXCEPT ![o] = TRUE]

Copy(p) ==
  LET o == run[p].op
  IN /\ run[p].at = "both" /\ Bound(o)
     /\ \/ Intact(o) /\ UNCHANGED <<cell, receipt>>
        \/ ~receipt[o] /\ run[p].fresh /\ Insert(o)
     /\ lock' = [lock EXCEPT ![o.target] = None]
     /\ run' = [run EXCEPT ![p].at = "copied"]
     /\ UNCHANGED <<source, inode, backup, told>>

\* The target is locked again, and verified again before the source is marked.
Mark(p) ==
  LET o == run[p].op
  IN /\ run[p].at = "copied"
     /\ lock[o.target] = None
     /\ Bound(o) /\ Intact(o)
     /\ pointer' = [r \in Rows |-> IF r \in Planned(o) THEN o ELSE pointer[r]]
     /\ ledger' = [ledger EXCEPT ![o].phase = "marked"]
     /\ told' = told \cup {o}
     /\ lock' = [lock EXCEPT ![Source] = None]
     /\ run' = [run EXCEPT ![p] = Idle]
     /\ UNCHANGED <<payload, reserved, target>>

\* Mutant: a failed command takes its reservations back.
AbandonAndRelease(p) ==
  /\ run[p].at # "idle"
  /\ reserved' = [r \in Rows |-> IF pointer[r] = None /\ reserved[r] = run[p].op
                                 THEN None ELSE reserved[r]]
  /\ lock' = [s \in DOMAIN lock |-> IF lock[s] = p THEN None ELSE lock[s]]
  /\ run' = [run EXCEPT ![p] = Idle]
  /\ UNCHANGED <<payload, pointer, ledger, target, told>>

\* A check fails, a lock or a statement does, or the process dies: what it had
\* not committed is rolled back.
Abandon(p) ==
  /\ run[p].at # "idle"
  /\ lock' = [s \in DOMAIN lock |-> IF lock[s] = p THEN None ELSE lock[s]]
  /\ run' = [run EXCEPT ![p] = Idle]
  /\ UNCHANGED <<source, target, told>>

-----------------------------------------------------------------------------
(* What else happens to the two stores. *)

\* A row is created or edited, also one that was moved: only lists leave those out.
WorkInSource(r) ==
  /\ lock[Source] = None
  /\ payload[r] < MaxVersion
  /\ payload' = [payload EXCEPT ![r] = @ + 1]
  /\ UNCHANGED <<reserved, pointer, ledger, target, lock, run, told>>

\* A row of its own, or an edit of a copy.
WorkInTarget(t, i) ==
  /\ lock[t] = None
  /\ cell[t][i] # Local
  /\ cell' = [cell EXCEPT ![t][i] = IF @ = None THEN Local ELSE [@ EXCEPT !.edited = TRUE]]
  /\ UNCHANGED <<source, receipt, inode, backup, lock, run, told>>

\* rbook_db(restore): another file takes the place of the database.
Restore(t) ==
  /\ \A p \in Processes : run[p].at \in {"idle", "opened"}
  /\ t \in Restorable /\ inode[t] < MaxRestores
  /\ cell' = [cell EXCEPT ![t] = backup[t].cell]
  /\ receipt' = [o \in Operations |-> IF o.target = t THEN o \in backup[t].receipts
                                      ELSE receipt[o]]
  /\ inode' = [inode EXCEPT ![t] = @ + 1]
  /\ UNCHANGED <<source, backup, lock, run, told>>

-----------------------------------------------------------------------------
Step(p) ==
  \/ \E o \in Operations : Open(p, o) \/ AnswerUnchanged(p, o)
  \/ Backup(p) \/ LockSource(p) \/ Resume(p)
  \/ Reserve(p) \/ ReleaseTarget(p) \/ RelockSource(p) \/ RelockTarget(p)
  \/ Copy(p) \/ Mark(p) \/ Abandon(p)

Next ==
  \/ \E p \in Processes : Step(p)
  \/ \E r \in Rows : WorkInSource(r)
  \/ \E t \in Targets : Restore(t) \/ \E i \in Ids : WorkInTarget(t, i)

Spec == Init /\ [][Next]_vars

-----------------------------------------------------------------------------
(* Properties. *)

\* Types of all variables.
TypeOK ==
  /\ payload \in [Rows -> 0..MaxVersion]
  /\ reserved \in [Rows -> Operations \cup {None}]
  /\ pointer \in [Rows -> Operations \cup {None}]
  /\ ledger \in [Operations -> Entry \cup {None}]
  /\ \A o \in Operations : ledger[o] # None =>
       Planned(o) \subseteq o.rows /\ DOMAIN ledger[o].manifest.rows = Planned(o)
  /\ cell \in [Targets -> [Ids -> Cell \cup {None}]]
  /\ receipt \in [Operations -> BOOLEAN]
  /\ inode \in [Targets -> 0..MaxRestores]
  /\ lock \in [Targets \cup {Source} -> Processes \cup {None}]
  /\ run \in [Processes -> [at : {"idle", "opened", "ready", "source", "published", "gap",
                                  "regained", "both", "copied"},
                            op : Operations \cup {None}, inode : 0..MaxRestores,
                            fresh : BOOLEAN]]
  /\ told \subseteq Operations

\* However often and by however many processes commands that overlap are given,
\* and wherever they end, a row of the source is copied at most once over all
\* targets (spin-out-process.test.ts: "concurrent real CLI applies produce one
\* copy per source row").
OneCopy ==
  \A r \in Rows, t1, t2 \in Targets, i1, i2 \in Ids :
    /\ cell[t1][i1] # None /\ cell[t1][i1].row = r
    /\ cell[t2][i2] # None /\ cell[t2][i2].row = r
    => t1 = t2 /\ i1 = i2

\* A row that left the lists of the source is in its target, as long as that is the
\* file the copy went to; an operation that was said to be complete moved all of
\* its rows, and what was copied without being moved is held by the operation that
\* copied it, which is not complete.
NothingLost ==
  /\ \A r \in Rows : pointer[r] # None =>
       LET o == pointer[r]
       IN /\ ledger[o] # None /\ ledger[o].phase = "marked"
          /\ Bound(o) => CopyOf(o, r) # None /\ CopyOf(o, r).row = r
  /\ \A o \in told : ledger[o] # None /\ Marked(o)
  /\ \A t \in Targets, i \in Ids :
       cell[t][i] # None /\ cell[t][i].row # None =>
         LET r == cell[t][i].row
         IN reserved[r] # None /\ (pointer[r] = None => ledger[reserved[r]].phase = "reserved")

\* At the moment a row is marked in the source, its copy in the target is of its
\* last version there and was not touched: no edit made between the reservation,
\* the copy and the mark, of a retry days later too, is left behind.
NoEditLost ==
  [][\A r \in Rows :
       pointer[r] = None /\ pointer'[r] # None =>
         CopyOf(pointer'[r], r) = [row |-> r, version |-> payload[r], edited |-> FALSE]]_vars

\* A copy takes no identity that the target came to use between the allocation and
\* the copy, when the target is not locked: work there is never overwritten.
WorkSurvives ==
  [][inode' = inode =>
       \A t \in Targets, i \in Ids :
         cell[t][i] # None => cell'[t][i] # None /\ cell'[t][i].row = cell[t][i].row]_vars
=============================================================================
