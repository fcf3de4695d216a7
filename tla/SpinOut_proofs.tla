---------------------------- MODULE SpinOut_proofs ----------------------------
(***************************************************************************)
(* Proofs about SpinOut, for any number of processes, rows, targets,       *)
(* commands, identities and restores.  A row has one copy because every    *)
(* copy, also in a backup, sits at the identity that the operation which   *)
(* holds its row planned for it, and a row is held by one operation.       *)
(***************************************************************************)
EXTENDS SpinOut, TLAPS

-----------------------------------------------------------------------------
(* The inductive invariant. *)

Content_ == [cell : [Ids -> Cell \cup {None}], receipts : SUBSET Operations]

Typed ==
  /\ TypeOK
  /\ backup \in [Restorable -> Content_]
  /\ \A p \in Processes : run[p].at # "idle" => run[p].op \in Operations

HasSource == {"source", "regained", "both", "copied"}
HasTarget == {"published", "both"}

\* Who is inside a transaction holds its lock.
Holding ==
  \A p \in Processes :
    /\ run[p].at \in HasSource => lock[Source] = p
    /\ run[p].at \in HasTarget => lock[run[p].op.target] = p

\* The ledger, the reservations and the marks say the same.
LedgerOf(o) ==
  ledger[o] # None =>
    /\ ledger[o].inode <= inode[o.target]
    /\ \A r1, r2 \in Planned(o) : ledger[o].ids[r1] = ledger[o].ids[r2] => r1 = r2
    /\ \A r \in Planned(o) : reserved[r] = o
    /\ ledger[o].phase = "marked" => \A r \in Planned(o) : pointer[r] = o

Claims ==
  /\ \A o \in Operations : LedgerOf(o)
  /\ \A r \in Rows : reserved[r] # None =>
       ledger[reserved[r]] # None /\ r \in Planned(reserved[r])
  /\ \A r \in Rows : pointer[r] # None =>
       /\ ledger[pointer[r]] # None /\ ledger[pointer[r]].phase = "marked"
       /\ r \in Planned(pointer[r])

\* What an invocation knows of the ledger, and, with the source locked, of the source.
StageOf(k) ==
  /\ k.at \in {"published", "gap", "regained", "both", "copied"} => ledger[k.op] # None
  /\ k.at \in {"both", "copied"} =>
       /\ ledger[k.op].phase = "reserved"
       /\ ledger[k.op].manifest = Manifest(k.op)

Stages == \A p \in Processes : StageOf(run[p])

\* A copy, v, sits where the operation that holds its row, by res, planned it, by led.
Sits(t, i, v, res, led) ==
  v # None /\ v.row # None =>
    LET o == res[v.row]
    IN o # None /\ o.target = t /\ led[o].ids[v.row] = i

Copies ==
  /\ \A t \in Targets, i \in Ids : Sits(t, i, cell[t][i], reserved, ledger)
  /\ \A t \in Restorable, i \in Ids : Sits(t, i, backup[t].cell[i], reserved, ledger)

\* A row that was marked is where its operation copied it.
Arrived ==
  \A r \in Rows : pointer[r] # None /\ Bound(pointer[r]) =>
    CopyOf(pointer[r], r) # None /\ CopyOf(pointer[r], r).row = r

Answered == \A o \in told : ledger[o] # None /\ ledger[o].phase = "marked"

IInv == Typed /\ Holding /\ Claims /\ Stages /\ Copies /\ Arrived /\ Answered

-----------------------------------------------------------------------------
(* Types. *)

LEMMA CellTyped ==
  ASSUME NEW c \in Cell
  PROVE  /\ c # None /\ c.row \in Rows \cup {None} /\ c.version \in 0..MaxVersion
         /\ c.edited \in BOOLEAN /\ [c EXCEPT !.edited = TRUE] \in Cell
         /\ [c EXCEPT !.edited = TRUE].row = c.row
BY SpinOutAssumption DEF Cell

LEMMA LocalTyped == Local \in Cell /\ Local.row = None
BY SpinOutAssumption DEF Local, Cell

LEMMA PartTyped ==
  ASSUME NEW S, NEW f \in PartOf(S)
  PROVE  DOMAIN f \subseteq Rows /\ \A r \in DOMAIN f : f[r] \in S
BY DEF PartOf

LEMMA PartIntro ==
  ASSUME NEW S, NEW R \in SUBSET Rows, NEW f \in [R -> S]
  PROVE  f \in PartOf(S)
BY DEF PartOf

LEMMA OperationTyped ==
  ASSUME NEW o \in Operations
  PROVE  o # None /\ o.target \in Targets /\ o.rows \subseteq Rows
BY SpinOutAssumption

LEMMA EntryTyped ==
  ASSUME TypeOK, NEW o \in Operations, ledger[o] # None
  PROVE  /\ ledger[o] \in Entry
         /\ ledger[o].phase \in {"reserved", "marked"}
         /\ ledger[o].inode \in 0..MaxRestores
         /\ Planned(o) \subseteq Rows /\ Planned(o) \subseteq o.rows
         /\ \A r \in Planned(o) : ledger[o].ids[r] \in Ids
         /\ DOMAIN ledger[o].manifest.rows = Planned(o)
         /\ \A r \in Planned(o) : ledger[o].manifest.rows[r] \in 1..MaxVersion
<1>1. ledger[o] \in Entry /\ Planned(o) \subseteq o.rows /\ DOMAIN ledger[o].manifest.rows = Planned(o)
  BY DEF TypeOK
<1>2. /\ ledger[o].ids \in PartOf(Ids) /\ ledger[o].manifest.rows \in PartOf(1..MaxVersion)
      /\ ledger[o].phase \in {"reserved", "marked"} /\ ledger[o].inode \in 0..MaxRestores
  BY <1>1 DEF Entry
<1>3. QED
  BY <1>1, <1>2, PartTyped DEF Planned

LEMMA ManifestTyped ==
  ASSUME TypeOK, NEW o \in Operations
  PROVE  /\ Selected(o) \subseteq Rows /\ Selected(o) \subseteq o.rows
         /\ Manifest(o) \in [rows : PartOf(1..MaxVersion), inventory : SUBSET Rows]
         /\ DOMAIN Manifest(o).rows = Selected(o)
         /\ \A r \in Selected(o) : Manifest(o).rows[r] = payload[r]
<1>1. Selected(o) \in SUBSET Rows /\ Selected(o) \subseteq o.rows
  BY OperationTyped DEF Selected
<1>2. \A r \in Selected(o) : payload[r] \in 1..MaxVersion
  BY <1>1, SpinOutAssumption DEF TypeOK, Selected
<1>3. [r \in Selected(o) |-> payload[r]] \in [Selected(o) -> 1..MaxVersion]
  BY <1>2
<1>4. [r \in Selected(o) |-> payload[r]] \in PartOf(1..MaxVersion)
  BY <1>1, <1>3, PartIntro
<1>5. QED
  BY <1>1, <1>4 DEF Manifest

LEMMA CopyTyped ==
  ASSUME TypeOK, NEW o \in Operations, ledger[o] # None, NEW r \in Planned(o)
  PROVE  CopyOf(o, r) \in Cell \cup {None}
BY EntryTyped, OperationTyped DEF TypeOK, CopyOf

Points == {"idle", "opened", "ready", "source", "published", "gap", "regained", "both", "copied"}

Invocation == [at : Points, op : Operations \cup {None}, inode : 0..MaxRestores, fresh : BOOLEAN]

RunTyped ==
  /\ run \in [Processes -> Invocation]
  /\ \A p \in Processes : run[p].at # "idle" => run[p].op \in Operations

\* A step that replaces one invocation by a fitting one keeps all of them so.
LEMMA RunStep ==
  ASSUME RunTyped, NEW p \in Processes, NEW k \in Invocation, k.at # "idle" => k.op \in Operations,
         run' = [run EXCEPT ![p] = k]
  PROVE  RunTyped'
BY DEF RunTyped

LEMMA IdleTyped ==
  /\ Idle \in Invocation /\ Idle.at = "idle"
  /\ \A o \in Operations, i \in 0..MaxRestores :
       [Idle EXCEPT !.at = "opened", !.op = o, !.inode = i] \in Invocation
<1>1. 0 \in 0..MaxRestores
  BY SpinOutAssumption
<1>2. Idle \in Invocation /\ Idle.at = "idle"
  BY <1>1 DEF Idle, Invocation, Points
<1>3. ASSUME NEW o \in Operations, NEW i \in 0..MaxRestores
      PROVE  [Idle EXCEPT !.at = "opened", !.op = o, !.inode = i] \in Invocation
  BY DEF Idle, Invocation, Points
<1>4. QED
  BY <1>2, <1>3

\* Steps of an invocation that move its point, or end it.
LEMMA RunMoves ==
  ASSUME RunTyped, NEW p \in Processes, NEW at \in Points, run[p].at # "idle",
         \/ run' = [run EXCEPT ![p].at = at]
         \/ run' = [run EXCEPT ![p].at = at, ![p].fresh = TRUE]
         \/ run' = [run EXCEPT ![p] = Idle]
  PROVE  RunTyped'
<1>1. run[p] \in Invocation /\ run[p].op \in Operations
  BY DEF RunTyped
<1>2. CASE run' = [run EXCEPT ![p].at = at]
  <2>1. run' = [run EXCEPT ![p] = [run[p] EXCEPT !.at = at]]
    BY <1>2
  <2>2. [run[p] EXCEPT !.at = at] \in Invocation /\ [run[p] EXCEPT !.at = at].op = run[p].op
    BY <1>1 DEF Invocation
  <2>3. QED
    BY <1>1, <2>1, <2>2, RunStep
<1>3. CASE run' = [run EXCEPT ![p].at = at, ![p].fresh = TRUE]
  <2>1. run' = [run EXCEPT ![p] = [run[p] EXCEPT !.at = at, !.fresh = TRUE]]
    BY <1>1, <1>3 DEF RunTyped
  <2>2. /\ [run[p] EXCEPT !.at = at, !.fresh = TRUE] \in Invocation
        /\ [run[p] EXCEPT !.at = at, !.fresh = TRUE].op = run[p].op
    BY <1>1 DEF Invocation
  <2>3. QED
    BY <1>1, <2>1, <2>2, RunStep
<1>4. CASE run' = [run EXCEPT ![p] = Idle]
  BY <1>4, IdleTyped, RunStep
<1>5. QED
  BY <1>2, <1>3, <1>4

\* The two stores, without the invocations.
StoresTyped ==
  /\ payload \in [Rows -> 0..MaxVersion]
  /\ reserved \in [Rows -> Operations \cup {None}]
  /\ pointer \in [Rows -> Operations \cup {None}]
  /\ ledger \in [Operations -> Entry \cup {None}]
  /\ \A o \in Operations : ledger[o] # None =>
       Planned(o) \subseteq o.rows /\ DOMAIN ledger[o].manifest.rows = Planned(o)
  /\ cell \in [Targets -> [Ids -> Cell \cup {None}]]
  /\ receipt \in [Operations -> BOOLEAN]
  /\ inode \in [Targets -> 0..MaxRestores]
  /\ backup \in [Restorable -> Content_]

LockTyped == lock \in [Targets \cup {Source} -> Processes \cup {None}]

LEMMA TypedParts == Typed <=> StoresTyped /\ RunTyped /\ LockTyped /\ told \subseteq Operations
BY DEF Typed, TypeOK, StoresTyped, RunTyped, LockTyped, Invocation, Points

LEMMA TypedPartsNext ==
  StoresTyped' /\ RunTyped' /\ LockTyped' /\ told' \subseteq Operations => Typed'
BY DEF Typed, TypeOK, StoresTyped, RunTyped, LockTyped, Invocation, Points

LEMMA StoresFrame ==
  ASSUME StoresTyped, UNCHANGED <<source, target>>
  PROVE  StoresTyped'
BY DEF StoresTyped, source, target, Planned

LEMMA LockStep ==
  ASSUME LockTyped, NEW p \in Processes \cup {None}, NEW s \in Targets \cup {Source}
  PROVE  [lock EXCEPT ![s] = p] \in [Targets \cup {Source} -> Processes \cup {None}]
BY DEF LockTyped

LEMMA Content_Typed ==
  ASSUME StoresTyped, NEW t \in Targets
  PROVE  Content(t) \in Content_
BY DEF StoresTyped, Content, Content_

LEMMA WithCopiesTyped ==
  ASSUME Typed, NEW o \in Operations, ledger[o] # None
  PROVE  /\ WithCopies(o) \in [Ids -> Cell \cup {None}]
         /\ \A i \in Ids :
              \/ /\ \E r \in Planned(o) : ledger[o].ids[r] = i /\ WithCopies(o)[i].row = r
                 /\ WithCopies(o)[i] # None
              \/ /\ WithCopies(o)[i] = cell[o.target][i]
                 /\ \A r \in Planned(o) : ledger[o].ids[r] # i
<1>1. TypeOK /\ o.target \in Targets /\ Planned(o) \subseteq Rows
      /\ \A r \in Planned(o) : ledger[o].manifest.rows[r] \in 0..MaxVersion
  <2>1. TypeOK
    BY DEF Typed
  <2>2. \A r \in Planned(o) : ledger[o].manifest.rows[r] \in 1..MaxVersion
    BY <2>1, EntryTyped
  <2>3. QED
    BY <2>1, <2>2, EntryTyped, OperationTyped, SpinOutAssumption
<1>2. ASSUME NEW i \in Ids
      PROVE  /\ WithCopies(o)[i] \in Cell \cup {None}
             /\ \/ /\ \E r \in Planned(o) : ledger[o].ids[r] = i /\ WithCopies(o)[i].row = r
                   /\ WithCopies(o)[i] # None
                \/ /\ WithCopies(o)[i] = cell[o.target][i]
                   /\ \A r \in Planned(o) : ledger[o].ids[r] # i
  <2>1. CASE \E r \in Planned(o) : ledger[o].ids[r] = i
    <3> DEFINE r == CHOOSE x \in Planned(o) : ledger[o].ids[x] = i
    <3>1. r \in Planned(o) /\ ledger[o].ids[r] = i
      BY <2>1
    <3>2. WithCopies(o)[i] = [row |-> r, version |-> ledger[o].manifest.rows[r], edited |-> FALSE]
      BY <2>1 DEF WithCopies
    <3> HIDE DEF r
    <3>3. WithCopies(o)[i] \in Cell /\ WithCopies(o)[i].row = r
      BY <1>1, <3>1, <3>2 DEF Cell
    <3>4. QED
      BY <3>1, <3>3, CellTyped
  <2>2. CASE ~ \E r \in Planned(o) : ledger[o].ids[r] = i
    <3>1. WithCopies(o)[i] = cell[o.target][i]
      BY <2>2 DEF WithCopies
    <3>2. QED
      BY <1>1, <2>2, <3>1 DEF TypeOK
  <2>3. QED
    BY <2>1, <2>2
<1>3. WithCopies(o) = [i \in Ids |-> WithCopies(o)[i]]
  BY DEF WithCopies
<1>4. QED
  BY <1>2, <1>3

LEMMA TypedInit == Init => Typed
<1> SUFFICES ASSUME Init PROVE Typed
  OBVIOUS
<1>1. StoresTyped
  <2>1. payload \in [Rows -> 0..MaxVersion]
    <3>1. 0 \in 0..MaxVersion /\ 1 \in 0..MaxVersion
      BY SpinOutAssumption
    <3>2. payload \in [Rows -> {0, 1}]
      BY DEF Init
    <3>3. QED
      BY <3>1, <3>2
  <2>2. /\ reserved \in [Rows -> Operations \cup {None}] /\ pointer \in [Rows -> Operations \cup {None}]
        /\ ledger \in [Operations -> Entry \cup {None}] /\ \A o \in Operations : ledger[o] = None
        /\ receipt \in [Operations -> BOOLEAN]
    BY DEF Init
  <2>3. cell \in [Targets -> [Ids -> Cell \cup {None}]]
    BY DEF Init
  <2>4. inode \in [Targets -> 0..MaxRestores]
    BY SpinOutAssumption DEF Init
  <2>5. backup \in [Restorable -> Content_]
    BY DEF Init, Content_
  <2>6. QED
    BY <2>1, <2>2, <2>3, <2>4, <2>5 DEF StoresTyped
<1>2. RunTyped
  BY SpinOutAssumption DEF Init, RunTyped, Idle, Invocation, Points
<1>3. LockTyped /\ told \subseteq Operations
  BY DEF Init, LockTyped
<1>4. QED
  BY <1>1, <1>2, <1>3, TypedParts

\* Reserve writes an entry that fits.
LEMMA ReservedEntry ==
  ASSUME Typed, NEW o \in Operations, NEW ids \in Allocations(o)
  PROVE  LET e == [phase |-> "reserved", manifest |-> Manifest(o), ids |-> ids,
                   inode |-> inode[o.target]]
         IN /\ e \in Entry /\ e # None
            /\ DOMAIN e.ids = Selected(o) /\ DOMAIN e.manifest.rows = Selected(o)
            /\ \A r1, r2 \in Selected(o) : e.ids[r1] = e.ids[r2] => r1 = r2
<1>1. TypeOK /\ inode[o.target] \in 0..MaxRestores
  BY OperationTyped DEF Typed, TypeOK
<1>2. /\ Selected(o) \in SUBSET Rows
      /\ Manifest(o) \in [rows : PartOf(1..MaxVersion), inventory : SUBSET Rows]
      /\ DOMAIN Manifest(o).rows = Selected(o)
  BY <1>1, ManifestTyped
<1>3. ids \in [Selected(o) -> Ids] /\ \A r1, r2 \in Selected(o) : ids[r1] = ids[r2] => r1 = r2
  BY DEF Allocations
<1>4. ids \in PartOf(Ids)
  BY <1>2, <1>3, PartIntro
<1>5. [phase |-> "reserved", manifest |-> Manifest(o), ids |-> ids, inode |-> inode[o.target]] \in Entry
  BY <1>1, <1>2, <1>4 DEF Entry
<1>6. QED
  BY <1>2, <1>3, <1>5, SpinOutAssumption

-----------------------------------------------------------------------------
(* What a step of an invocation leaves alone. *)

LEMMA IInvParts ==
  ASSUME IInv
  PROVE  StoresTyped /\ RunTyped /\ LockTyped /\ told \subseteq Operations /\ TypeOK
BY TypedParts DEF IInv, Typed

LEMMA RunAsMove ==
  ASSUME RunTyped, NEW p \in Processes, NEW at
  PROVE  /\ [run EXCEPT ![p].at = at] = [run EXCEPT ![p] = [run[p] EXCEPT !.at = at]]
         /\ [run EXCEPT ![p].at = at, ![p].fresh = TRUE]
              = [run EXCEPT ![p] = [run[p] EXCEPT !.at = at, !.fresh = TRUE]]
BY DEF RunTyped

\* Locks that a step takes were free, and those that it gives back were its own.
LEMMA HoldingStep ==
  ASSUME RunTyped, Holding, NEW p \in Processes, NEW k,
         run' = [run EXCEPT ![p] = k],
         \A s \in Targets \cup {Source} : lock[s] # None /\ lock[s] # p => lock'[s] = lock[s],
         k.at \in HasSource => lock'[Source] = p,
         k.at \in HasTarget => lock'[k.op.target] = p
  PROVE  Holding'
<1> SUFFICES ASSUME NEW q \in Processes
             PROVE  /\ run'[q].at \in HasSource => lock'[Source] = q
                    /\ run'[q].at \in HasTarget => lock'[run'[q].op.target] = q
  BY DEF Holding, HasSource, HasTarget
<1>1. CASE q = p
  BY <1>1 DEF RunTyped
<1>2. CASE q # p
  <2>1. run'[q] = run[q] /\ q # None
    BY <1>2, SpinOutAssumption DEF RunTyped
  <2>2. run[q].at \in HasTarget => run[q].op.target \in Targets
    BY OperationTyped DEF RunTyped, HasTarget
  <2>3. QED
    BY <1>2, <2>1, <2>2 DEF Holding
<1>3. QED
  BY <1>1, <1>2

LEMMA StagesStep ==
  ASSUME RunTyped, Stages, NEW p \in Processes, NEW k, run' = [run EXCEPT ![p] = k],
         StageOf(k), UNCHANGED <<payload, ledger>>
  PROVE  Stages'
<1> SUFFICES ASSUME NEW q \in Processes PROVE StageOf(run[q])'
  BY DEF Stages
<1>1. CASE q = p
  BY <1>1 DEF RunTyped, StageOf, Manifest, Selected
<1>2. CASE q # p
  BY <1>2 DEF RunTyped, Stages, StageOf, Manifest, Selected
<1>3. QED
  BY <1>1, <1>2

LEMMA SourceFrame ==
  ASSUME Claims, UNCHANGED <<reserved, pointer, ledger, inode>>
  PROVE  Claims'
BY DEF Claims, LedgerOf, Planned

LEMMA CopiesFrame ==
  ASSUME Copies, UNCHANGED <<reserved, ledger, cell, backup>>
  PROVE  Copies'
BY DEF Copies

\* A copy that sits well is of a row that an operation holds.
LEMMA RowIsHeld ==
  ASSUME IInv, NEW t, NEW i, NEW v \in Cell \cup {None}, Sits(t, i, v, reserved, ledger),
         v # None, v.row # None
  PROVE  /\ v.row \in Rows /\ reserved[v.row] \in Operations /\ ledger[reserved[v.row]] # None
         /\ v.row \in Planned(reserved[v.row])
         /\ reserved[v.row].target = t /\ ledger[reserved[v.row]].ids[v.row] = i
<1>1. v.row \in Rows
  BY CellTyped
<1>2. reserved[v.row] # None /\ reserved[v.row].target = t /\ ledger[reserved[v.row]].ids[v.row] = i
  BY DEF Sits
<1>3. reserved[v.row] \in Operations
  BY <1>1, <1>2, IInvParts DEF StoresTyped
<1>4. Claims
  BY DEF IInv
<1>5. QED
  BY <1>1, <1>2, <1>3, <1>4 DEF Claims

\* What the places of the stores and of the backups hold, by type and by position.
LEMMA Held ==
  ASSUME IInv
  PROVE  /\ \A t \in Targets, i \in Ids : /\ cell[t][i] \in Cell \cup {None}
                                         /\ Sits(t, i, cell[t][i], reserved, ledger)
         /\ \A t \in Restorable, i \in Ids : /\ backup[t].cell[i] \in Cell \cup {None}
                                            /\ Sits(t, i, backup[t].cell[i], reserved, ledger)
<1>1. StoresTyped
  BY IInvParts
<1>2. \A t \in Targets, i \in Ids : cell[t][i] \in Cell \cup {None}
  BY <1>1 DEF StoresTyped
<1>3. \A t \in Restorable : backup[t].cell \in [Ids -> Cell \cup {None}]
  BY <1>1 DEF StoresTyped, Content_
<1>4. Copies
  BY DEF IInv
<1>5. QED
  BY <1>2, <1>3, <1>4 DEF Copies

LEMMA ArrivedFrame ==
  ASSUME Arrived, UNCHANGED <<pointer, ledger, cell, inode>>
  PROVE  Arrived'
BY DEF Arrived, CopyOf, Bound

\* A step that writes to no store.
LEMMA QuietStep ==
  ASSUME IInv, NEW p \in Processes, NEW k \in Invocation, k.at # "idle" => k.op \in Operations,
         run' = [run EXCEPT ![p] = k], UNCHANGED <<source, target>>,
         lock' \in [Targets \cup {Source} -> Processes \cup {None}],
         \A s \in Targets \cup {Source} : lock[s] # None /\ lock[s] # p => lock'[s] = lock[s],
         k.at \in HasSource => lock'[Source] = p,
         k.at \in HasTarget => lock'[k.op.target] = p,
         StageOf(k),
         \/ told' = told
         \/ \E o \in Operations : /\ ledger[o] # None /\ ledger[o].phase = "marked"
                                  /\ told' = told \cup {o}
  PROVE  IInv'
<1>1. StoresTyped /\ RunTyped /\ LockTyped /\ told \subseteq Operations
  BY IInvParts
<1>2. Typed'
  <2>1. StoresTyped'
    BY <1>1, StoresFrame
  <2>2. RunTyped'
    BY <1>1, RunStep
  <2>3. LockTyped' /\ told' \subseteq Operations
    BY <1>1 DEF LockTyped
  <2>4. QED
    BY <2>1, <2>2, <2>3, TypedPartsNext
<1>3. Holding'
  BY <1>1, HoldingStep DEF IInv
<1>4. Stages'
  <2>1. UNCHANGED <<payload, ledger>>
    BY DEF source
  <2>2. QED
    BY <1>1, <2>1, StagesStep DEF IInv
<1>5. Claims' /\ Copies' /\ Arrived'
  BY SourceFrame, CopiesFrame, ArrivedFrame DEF IInv, source, target
<1>6. Answered'
  BY DEF IInv, Answered, source
<1>7. QED
  BY <1>2, <1>3, <1>4, <1>5, <1>6 DEF IInv

-----------------------------------------------------------------------------
(* The steps of the command. *)

LEMMA OpenStep ==
  ASSUME IInv, NEW p \in Processes, NEW o \in Operations, Open(p, o)
  PROVE  IInv'
<1> DEFINE k == [Idle EXCEPT !.at = "opened", !.op = o, !.inode = inode[o.target]]
<1>1. RunTyped /\ LockTyped /\ TypeOK
  BY IInvParts
<1>2. inode[o.target] \in 0..MaxRestores
  BY <1>1, OperationTyped DEF TypeOK
<1>3. k \in Invocation /\ k.at = "opened" /\ k.op = o
  BY <1>2, IdleTyped DEF Idle
<1>4. run' = [run EXCEPT ![p] = k] /\ UNCHANGED <<source, target, lock, told>>
  BY DEF Open
<1> HIDE DEF k
<1>5. StageOf(k)
  BY <1>3 DEF StageOf
<1>6. QED
  BY <1>1, <1>3, <1>4, <1>5, QuietStep DEF LockTyped, HasSource, HasTarget

LEMMA AnswerUnchangedStep ==
  ASSUME IInv, NEW p \in Processes, NEW o \in Operations, AnswerUnchanged(p, o)
  PROVE  IInv'
<1>1. RunTyped /\ LockTyped
  BY IInvParts
<1>2. run[p] \in Invocation /\ run[p].at = "idle" /\ run' = [run EXCEPT ![p] = run[p]]
  BY <1>1 DEF RunTyped, AnswerUnchanged
<1>3. StageOf(run[p])
  BY DEF IInv, Stages
<1>4. QED
  BY <1>1, <1>2, <1>3, QuietStep DEF AnswerUnchanged, LockTyped, HasSource, HasTarget

LEMMA LockSourceStep ==
  ASSUME IInv, NEW p \in Processes, LockSource(p)
  PROVE  IInv'
<1> DEFINE k == [run[p] EXCEPT !.at = "source"]
<1>1. RunTyped /\ LockTyped /\ run[p].at = "ready"
  BY IInvParts DEF LockSource
<1>2. k \in Invocation /\ k.at = "source" /\ k.op \in Operations
  <2>1. run[p] \in Invocation /\ run[p].op \in Operations
    BY <1>1 DEF RunTyped
  <2>2. QED
    BY <2>1 DEF Invocation, Points
<1>3. run' = [run EXCEPT ![p] = k]
  BY <1>1, RunAsMove DEF LockSource
<1>4. UNCHANGED <<source, target>> /\ told' = told
  BY DEF LockSource
<1>5. lock[Source] = None /\ lock' = [lock EXCEPT ![Source] = p]
  BY DEF LockSource, Take
<1> HIDE DEF k
<1>6. /\ lock' \in [Targets \cup {Source} -> Processes \cup {None}]
      /\ lock'[Source] = p
      /\ \A s \in Targets \cup {Source} : lock[s] # None /\ lock[s] # p => lock'[s] = lock[s]
  BY <1>1, <1>5 DEF LockTyped
<1>7. StageOf(k)
  BY <1>2 DEF StageOf
<1>8. QED
  BY <1>2, <1>3, <1>4, <1>6, <1>7, QuietStep DEF HasTarget

LEMMA ReleaseTargetStep ==
  ASSUME IInv, NEW p \in Processes, ReleaseTarget(p)
  PROVE  IInv'
<1> DEFINE k == [run[p] EXCEPT !.at = "gap"]
<1>1. RunTyped /\ LockTyped /\ run[p].at = "published"
  BY IInvParts DEF ReleaseTarget
<1>2. k \in Invocation /\ k.at = "gap" /\ k.op = run[p].op /\ k.op \in Operations
  <2>1. run[p] \in Invocation /\ run[p].op \in Operations
    BY <1>1 DEF RunTyped
  <2>2. QED
    BY <2>1 DEF Invocation, Points
<1>3. run' = [run EXCEPT ![p] = k]
  BY <1>1, RunAsMove DEF ReleaseTarget
<1>4. UNCHANGED <<source, target>> /\ told' = told
  BY DEF ReleaseTarget
<1>5. /\ lock[run[p].op.target] = p /\ run[p].op.target \in Targets
      /\ lock' = [lock EXCEPT ![run[p].op.target] = None]
  BY <1>1, <1>2, OperationTyped DEF ReleaseTarget, IInv, Holding, HasTarget
<1> HIDE DEF k
<1>6. /\ lock' \in [Targets \cup {Source} -> Processes \cup {None}]
      /\ \A s \in Targets \cup {Source} : lock[s] # None /\ lock[s] # p => lock'[s] = lock[s]
  BY <1>1, <1>5 DEF LockTyped
<1>7. StageOf(k)
  BY <1>1, <1>2 DEF StageOf, IInv, Stages
<1>8. QED
  BY <1>2, <1>3, <1>4, <1>6, <1>7, QuietStep DEF HasSource, HasTarget

LEMMA RelockSourceStep ==
  ASSUME IInv, NEW p \in Processes, RelockSource(p)
  PROVE  IInv'
<1> DEFINE k == [run[p] EXCEPT !.at = "regained"]
<1>1. RunTyped /\ LockTyped /\ run[p].at = "gap"
  BY IInvParts DEF RelockSource
<1>2. k \in Invocation /\ k.at = "regained" /\ k.op = run[p].op /\ k.op \in Operations
  <2>1. run[p] \in Invocation /\ run[p].op \in Operations
    BY <1>1 DEF RunTyped
  <2>2. QED
    BY <2>1 DEF Invocation, Points
<1>3. run' = [run EXCEPT ![p] = k]
  BY <1>1, RunAsMove DEF RelockSource
<1>4. UNCHANGED <<source, target>> /\ told' = told
  BY DEF RelockSource
<1>5. lock[Source] = None /\ lock' = [lock EXCEPT ![Source] = p]
  BY DEF RelockSource, Take
<1> HIDE DEF k
<1>6. /\ lock' \in [Targets \cup {Source} -> Processes \cup {None}]
      /\ lock'[Source] = p
      /\ \A s \in Targets \cup {Source} : lock[s] # None /\ lock[s] # p => lock'[s] = lock[s]
  BY <1>1, <1>5 DEF LockTyped
<1>7. StageOf(k)
  BY <1>1, <1>2 DEF StageOf, IInv, Stages
<1>8. QED
  BY <1>2, <1>3, <1>4, <1>6, <1>7, QuietStep DEF HasTarget

\* With the source locked and the reservation as it was, the target is locked too.
LEMMA BothLocked ==
  ASSUME IInv, NEW p \in Processes, NEW k \in Invocation, k.at = "both",
         k.op = run[p].op, k.op \in Operations, run[p].at \in HasSource,
         run' = [run EXCEPT ![p] = k], UNCHANGED <<source, target, told>>,
         lock[k.op.target] = None, lock' = [lock EXCEPT ![k.op.target] = p],
         ledger[k.op] # None, ledger[k.op].phase = "reserved",
         ledger[k.op].manifest = Manifest(k.op)
  PROVE  IInv'
<1>1. LockTyped /\ k.op.target \in Targets /\ k.op.target # Source
  BY IInvParts, OperationTyped, SpinOutAssumption
<1>2. lock[Source] = p
  BY DEF IInv, Holding
<1>3. /\ lock' \in [Targets \cup {Source} -> Processes \cup {None}]
      /\ lock'[Source] = p /\ lock'[k.op.target] = p
      /\ \A s \in Targets \cup {Source} : lock[s] # None /\ lock[s] # p => lock'[s] = lock[s]
  BY <1>1, <1>2 DEF LockTyped
<1>4. StageOf(k)
  BY DEF StageOf
<1>5. QED
  BY <1>3, <1>4, QuietStep

LEMMA RelockTargetStep ==
  ASSUME IInv, NEW p \in Processes, RelockTarget(p)
  PROVE  IInv'
<1> DEFINE k == [run[p] EXCEPT !.at = "both", !.fresh = TRUE]
<1>1. RunTyped /\ run[p].at = "regained"
  BY IInvParts DEF RelockTarget
<1>2. k \in Invocation /\ k.at = "both" /\ k.op = run[p].op /\ k.op \in Operations
  <2>1. run[p] \in Invocation /\ run[p].op \in Operations
    BY <1>1 DEF RunTyped
  <2>2. QED
    BY <2>1 DEF Invocation, Points
<1>3. run' = [run EXCEPT ![p] = k]
  BY <1>1, RunAsMove DEF RelockTarget
<1>4. /\ UNCHANGED <<source, target, told>>
      /\ lock[run[p].op.target] = None /\ lock' = [lock EXCEPT ![run[p].op.target] = p]
      /\ ledger[run[p].op].phase = "reserved"
      /\ ledger[run[p].op].manifest = Manifest(run[p].op)
  BY DEF RelockTarget, Take
<1>5. ledger[run[p].op] # None /\ run[p].at \in HasSource
  BY <1>1 DEF IInv, Stages, StageOf, HasSource
<1> HIDE DEF k
<1>6. QED
  BY <1>2, <1>3, <1>4, <1>5, BothLocked

\* Whoever ends gives back the locks it holds.
LEMMA EndStep ==
  ASSUME IInv, NEW p \in Processes, UNCHANGED <<source, target>>, run' = [run EXCEPT ![p] = Idle],
         lock' \in [Targets \cup {Source} -> Processes \cup {None}],
         \A s \in Targets \cup {Source} : lock[s] # None /\ lock[s] # p => lock'[s] = lock[s],
         \/ told' = told
         \/ \E o \in Operations : /\ ledger[o] # None /\ ledger[o].phase = "marked"
                                  /\ told' = told \cup {o}
  PROVE  IInv'
<1>1. StageOf(Idle)
  BY IdleTyped DEF StageOf
<1>2. QED
  BY <1>1, IdleTyped, QuietStep DEF HasSource, HasTarget

LEMMA ResumeStep ==
  ASSUME IInv, NEW p \in Processes, Resume(p)
  PROVE  IInv'
<1> DEFINE o == run[p].op
           k == [run[p] EXCEPT !.at = "both"]
<1>1. RunTyped /\ LockTyped /\ run[p].at = "source" /\ o \in Operations
  BY IInvParts DEF Resume, RunTyped
<1>2. ledger[o] # None /\ lock[o.target] = None /\ UNCHANGED <<source, target>>
      /\ lock[Source] = p
  BY <1>1 DEF Resume, IInv, Holding, HasSource
<1>3. CASE /\ ledger[o].phase = "marked" /\ told' = told \cup {o}
           /\ lock' = [lock EXCEPT ![Source] = None]
           /\ run' = [run EXCEPT ![p] = Idle]
  <2>1. /\ lock' \in [Targets \cup {Source} -> Processes \cup {None}]
        /\ \A s \in Targets \cup {Source} : lock[s] # None /\ lock[s] # p => lock'[s] = lock[s]
    BY <1>1, <1>2, <1>3 DEF LockTyped
  <2>2. QED
    BY <1>1, <1>2, <1>3, <2>1, EndStep
<1>4. CASE /\ ledger[o].phase = "reserved" /\ ledger[o].manifest = Manifest(o)
           /\ lock' = [lock EXCEPT ![o.target] = p]
           /\ run' = [run EXCEPT ![p].at = "both"] /\ UNCHANGED told
  <2>1. k \in Invocation /\ k.at = "both" /\ k.op = o
    <3>1. run[p] \in Invocation
      BY <1>1 DEF RunTyped
    <3>2. QED
      BY <3>1 DEF Invocation, Points
  <2>2. run' = [run EXCEPT ![p] = k]
    BY <1>1, <1>4, RunAsMove
  <2> HIDE DEF k
  <2>3. UNCHANGED <<source, target, told>> /\ run[p].at \in HasSource
    BY <1>1, <1>2, <1>4 DEF HasSource
  <2>4. QED
    <3>1. /\ k.op \in Operations /\ k.op = run[p].op
          /\ lock[k.op.target] = None /\ lock' = [lock EXCEPT ![k.op.target] = p]
          /\ ledger[k.op] # None /\ ledger[k.op].phase = "reserved"
          /\ ledger[k.op].manifest = Manifest(k.op)
      BY <1>1, <1>2, <1>4, <2>1
    <3>2. QED
      BY <2>1, <2>2, <2>3, <3>1, BothLocked
<1>5. QED
  BY <1>3, <1>4 DEF Resume

LEMMA AbandonStep ==
  ASSUME IInv, NEW p \in Processes, Abandon(p)
  PROVE  IInv'
<1>1. LockTyped
  BY IInvParts
<1>2. /\ lock' = [s \in DOMAIN lock |-> IF lock[s] = p THEN None ELSE lock[s]]
      /\ run' = [run EXCEPT ![p] = Idle] /\ UNCHANGED <<source, target, told>>
  BY DEF Abandon
<1>3. /\ lock' \in [Targets \cup {Source} -> Processes \cup {None}]
      /\ \A s \in Targets \cup {Source} : lock[s] # None /\ lock[s] # p => lock'[s] = lock[s]
  BY <1>1, <1>2 DEF LockTyped
<1>4. QED
  BY <1>2, <1>3, EndStep

LEMMA BackupStep ==
  ASSUME IInv, NEW p \in Processes, Backup(p)
  PROVE  IInv'
<1> DEFINE t == run[p].op.target
           k == [run[p] EXCEPT !.at = "ready"]
<1>1. StoresTyped /\ RunTyped /\ LockTyped /\ told \subseteq Operations /\ run[p].at = "opened"
  BY IInvParts DEF Backup
<1>2. k \in Invocation /\ k.at = "ready" /\ k.op \in Operations
  <2>1. run[p] \in Invocation /\ run[p].op \in Operations
    BY <1>1 DEF RunTyped
  <2>2. QED
    BY <2>1 DEF Invocation, Points
<1>3. run' = [run EXCEPT ![p] = k]
  BY <1>1, RunAsMove DEF Backup
<1>4. /\ UNCHANGED <<payload, reserved, pointer, ledger, cell, receipt, inode, lock, told>>
      /\ backup' = [x \in Restorable |-> IF x = t THEN Content(t) ELSE backup[x]]
      /\ t \in Targets
  BY <1>1, OperationTyped DEF Backup, source, RunTyped
<1>5. Content(t) \in Content_ /\ Content(t).cell = cell[t]
  BY <1>1, <1>4, Content_Typed DEF Content
<1> HIDE DEF k, t
<1>6. Typed'
  <2>1. backup' \in [Restorable -> Content_]
    BY <1>1, <1>4, <1>5 DEF StoresTyped
  <2>2. StoresTyped'
    BY <1>1, <1>4, <2>1 DEF StoresTyped, Planned
  <2>3. RunTyped'
    BY <1>1, <1>2, <1>3, RunStep
  <2>4. QED
    BY <1>1, <1>4, <2>2, <2>3, TypedPartsNext DEF LockTyped
<1>7. Holding'
  BY <1>1, <1>2, <1>3, <1>4, HoldingStep DEF IInv, HasSource, HasTarget
<1>8. Stages'
  <2>1. k.at \notin {"published", "gap", "regained", "both", "copied"}
    BY <1>2
  <2>2. StageOf(k)
    BY <2>1 DEF StageOf
  <2>3. QED
    BY <1>1, <1>3, <1>4, <2>2, StagesStep DEF IInv
<1>9. Claims' /\ Arrived' /\ Answered'
  BY <1>4, SourceFrame, ArrivedFrame DEF IInv, Answered
<1>10. Copies'
  <2>1. Copies
    BY DEF IInv
  <2>2. \A x \in Targets, i \in Ids : Sits(x, i, cell'[x][i], reserved', ledger')
    BY <1>4, <2>1 DEF Copies
  <2>3. ASSUME NEW x \in Restorable, NEW i \in Ids
        PROVE  Sits(x, i, backup'[x].cell[i], reserved', ledger')
    <3>1. CASE x = t
      <4>1. backup'[x].cell = cell'[x] /\ x \in Targets
        BY <1>4, <1>5, <3>1
      <4>2. QED
        BY <2>2, <4>1
    <3>2. CASE x # t
      <4>1. backup'[x] = backup[x] /\ UNCHANGED <<reserved, ledger>>
        BY <1>4, <3>2
      <4>2. QED
        BY <2>1, <4>1 DEF Copies
    <3>3. QED
      BY <3>1, <3>2
  <2>4. QED
    BY <2>2, <2>3 DEF Copies
<1>11. QED
  BY <1>6, <1>7, <1>8, <1>9, <1>10 DEF IInv

\* Reserve publishes an entry, with free identities for rows that nobody holds.
LEMMA ReserveStep ==
  ASSUME IInv, NEW p \in Processes, Reserve(p)
  PROVE  IInv'
<1> DEFINE k == [run[p] EXCEPT !.at = "published"]
<1>1. /\ StoresTyped /\ RunTyped /\ LockTyped /\ told \subseteq Operations
      /\ run[p].at = "source"
  BY IInvParts DEF Reserve
<1>2. k \in Invocation /\ k.at = "published" /\ k.op = run[p].op /\ run[p].op \in Operations
  <2>1. run[p] \in Invocation /\ run[p].op \in Operations
    BY <1>1 DEF RunTyped
  <2>2. QED
    BY <2>1 DEF Invocation, Points
<1>3. run' = [run EXCEPT ![p] = k]
  BY <1>1, RunAsMove DEF Reserve
<1> HIDE DEF k
<1>4. PICK o \in Operations : o = run[p].op
  BY <1>2
<1>5. /\ ledger[o] = None /\ Free(o) /\ lock[o.target] = None
      /\ reserved' = [r \in Rows |-> IF r \in Selected(o) THEN o ELSE reserved[r]]
      /\ lock' = [lock EXCEPT ![Source] = None, ![o.target] = p]
      /\ UNCHANGED <<payload, pointer, cell, receipt, inode, backup, told>>
  BY <1>4 DEF Reserve, target
<1>6. PICK ids \in Allocations(o) :
        ledger' = [ledger EXCEPT ![o] = [phase |-> "reserved", manifest |-> Manifest(o),
                                         ids |-> ids, inode |-> inode[o.target]]]
  BY <1>4 DEF Reserve
<1> DEFINE e == [phase |-> "reserved", manifest |-> Manifest(o), ids |-> ids,
                 inode |-> inode[o.target]]
<1>7. /\ e \in Entry /\ e # None /\ DOMAIN e.ids = Selected(o)
      /\ DOMAIN e.manifest.rows = Selected(o)
      /\ \A r1, r2 \in Selected(o) : e.ids[r1] = e.ids[r2] => r1 = r2
      /\ e.phase = "reserved" /\ e.inode = inode[o.target]
  BY ReservedEntry DEF IInv
<1>8. ledger' = [ledger EXCEPT ![o] = e] /\ Selected(o) \subseteq o.rows /\ Selected(o) \subseteq Rows
      /\ inode[o.target] \in 0..MaxRestores /\ o # None
  <2>1. Selected(o) \subseteq o.rows /\ Selected(o) \subseteq Rows
    BY IInvParts, ManifestTyped
  <2>2. inode[o.target] \in 0..MaxRestores /\ o # None
    BY <1>1, OperationTyped DEF StoresTyped
  <2>3. QED
    BY <1>6, <2>1, <2>2
<1> HIDE DEF e
<1>9. \A x \in Operations : ledger'[x] = IF x = o THEN e ELSE ledger[x]
  BY <1>1, <1>8 DEF StoresTyped
<1>10. Typed'
  <2>1. ledger' \in [Operations -> Entry \cup {None}]
    BY <1>1, <1>7, <1>8 DEF StoresTyped
  <2>2. reserved' \in [Rows -> Operations \cup {None}]
    BY <1>1, <1>5 DEF StoresTyped
  <2>3. ASSUME NEW x \in Operations, ledger'[x] # None
        PROVE  /\ DOMAIN ledger'[x].ids \subseteq x.rows
               /\ DOMAIN ledger'[x].manifest.rows = DOMAIN ledger'[x].ids
    <3>1. CASE x = o
      BY <1>7, <1>8, <1>9, <3>1
    <3>2. CASE x # o
      BY <1>1, <1>9, <2>3, <3>2 DEF StoresTyped, Planned
    <3>3. QED
      BY <3>1, <3>2
  <2>4. StoresTyped'
    BY <1>1, <1>5, <2>1, <2>2, <2>3 DEF StoresTyped, Planned
  <2>5. RunTyped'
    BY <1>1, <1>2, <1>3, RunStep
  <2>6. LockTyped'
    BY <1>1, <1>4, <1>5, OperationTyped DEF LockTyped
  <2>7. QED
    BY <1>1, <1>5, <2>4, <2>5, <2>6, TypedPartsNext
<1>11. Holding'
  <2>1. lock[Source] = p /\ o.target \in Targets
    BY <1>1, OperationTyped DEF IInv, Holding, HasSource
  <2>2. lock'[o.target] = p
    BY <1>1, <1>5, <2>1 DEF LockTyped
  <2>3. \A s \in Targets \cup {Source} : lock[s] # None /\ lock[s] # p => lock'[s] = lock[s]
    BY <1>1, <1>5, <2>1 DEF LockTyped
  <2>4. QED
    BY <1>1, <1>2, <1>3, <1>4, <2>2, <2>3, HoldingStep DEF IInv, HasSource, HasTarget
<1>12. \A r \in Selected(o) : reserved[r] = None /\ pointer[r] = None
  BY <1>5, <1>8 DEF Free, IInv, Claims
<1>13. Stages'
  <2> SUFFICES ASSUME NEW q \in Processes PROVE StageOf(run[q])'
    BY DEF Stages
  <2>1. CASE q = p
    BY <1>1, <1>2, <1>3, <1>4, <1>7, <1>9, <2>1 DEF RunTyped, StageOf
  <2>2. CASE q # p
    <3>1. run'[q] = run[q] /\ StageOf(run[q])
      BY <1>1, <1>3, <2>2 DEF RunTyped, IInv, Stages
    <3>2. CASE run[q].at \in {"published", "gap", "regained", "both", "copied"}
      <4>1. ledger[run[q].op] # None /\ run[q].op \in Operations
        BY <1>1, <3>1, <3>2 DEF StageOf, RunTyped
      <4>2. ledger'[run[q].op] = ledger[run[q].op]
        BY <1>5, <1>9, <4>1
      <4>3. Manifest(run[q].op)' = [rows |-> [r \in {x \in run[q].op.rows : payload[x] > 0} |-> payload[r]],
                                    inventory |-> {r \in Rows : payload[r] > 0}]
        BY <1>5, <3>1 DEF Manifest, Selected
      <4>4. QED
        BY <3>1, <4>1, <4>2, <4>3 DEF StageOf, Manifest, Selected
    <3>3. CASE run[q].at \notin {"published", "gap", "regained", "both", "copied"}
      BY <3>1, <3>3 DEF StageOf
    <3>4. QED
      BY <3>2, <3>3
  <2>3. QED
    BY <2>1, <2>2
<1>14. Claims'
  <2>1. ASSUME NEW x \in Operations PROVE LedgerOf(x)'
    <3>1. CASE x = o
      BY <1>5, <1>7, <1>8, <1>9, <3>1 DEF LedgerOf, Planned
    <3>2. CASE x # o
      <4>1. LedgerOf(x) /\ ledger'[x] = ledger[x] /\ UNCHANGED <<pointer, inode>>
        BY <1>5, <1>9, <3>2 DEF IInv, Claims
      <4>2. ASSUME ledger[x] # None, NEW r \in Planned(x) PROVE reserved'[r] = x
        <5>1. r \in Rows /\ reserved[r] = x /\ x # None
          BY <4>1, <4>2, IInvParts, EntryTyped, OperationTyped DEF LedgerOf
        <5>2. QED
          BY <1>5, <1>12, <5>1
      <4>3. QED
        BY <4>1, <4>2 DEF LedgerOf, Planned
    <3>3. QED
      BY <3>1, <3>2
  <2>2. ASSUME NEW r \in Rows, reserved'[r] # None
        PROVE  ledger'[reserved'[r]] # None /\ r \in DOMAIN ledger'[reserved'[r]].ids
    <3>1. CASE r \in Selected(o)
      BY <1>5, <1>7, <1>9, <3>1
    <3>2. CASE r \notin Selected(o)
      <4>1. /\ reserved'[r] = reserved[r] /\ reserved[r] \in Operations
            /\ ledger[reserved[r]] # None /\ r \in Planned(reserved[r])
        BY <1>1, <1>5, <2>2, <3>2 DEF IInv, Claims, StoresTyped
      <4>2. QED
        BY <1>5, <1>9, <4>1 DEF Planned
    <3>3. QED
      BY <3>1, <3>2
  <2>3. ASSUME NEW r \in Rows, pointer'[r] # None
        PROVE  /\ ledger'[pointer'[r]] # None /\ ledger'[pointer'[r]].phase = "marked"
               /\ r \in DOMAIN ledger'[pointer'[r]].ids
    <3>1. /\ pointer'[r] = pointer[r] /\ pointer[r] \in Operations
          /\ ledger[pointer[r]] # None /\ ledger[pointer[r]].phase = "marked"
          /\ r \in Planned(pointer[r])
      BY <1>1, <1>5, <2>3 DEF IInv, Claims, StoresTyped
    <3>2. QED
      BY <1>5, <1>9, <3>1 DEF Planned
  <2>4. QED
    BY <2>1, <2>2, <2>3 DEF Claims, Planned
<1>15. Copies'
  <2>1. ASSUME NEW t, NEW i, NEW v \in Cell \cup {None}, Sits(t, i, v, reserved, ledger)
        PROVE  Sits(t, i, v, reserved', ledger')
    <3> SUFFICES ASSUME v # None, v.row # None
                 PROVE  Sits(t, i, v, reserved', ledger')
      BY DEF Sits
    <3> DEFINE x == reserved[v.row]
    <3>1. /\ v.row \in Rows /\ x \in Operations /\ x # None /\ ledger[x] # None
          /\ x.target = t /\ ledger[x].ids[v.row] = i
      BY <2>1, RowIsHeld, OperationTyped
    <3>2. reserved'[v.row] = x /\ ledger'[x].ids = ledger[x].ids
      BY <1>5, <1>9, <1>12, <3>1
    <3> HIDE DEF x
    <3>3. QED
      BY <3>1, <3>2 DEF Sits
  <2>2. QED
    BY <1>5, <2>1, Held DEF Copies
<1>16. Arrived'
  <2> SUFFICES ASSUME NEW r \in Rows, pointer'[r] # None, Bound(pointer[r])'
               PROVE  (CopyOf(pointer[r], r) # None /\ CopyOf(pointer[r], r).row = r)'
    BY DEF Arrived
  <2>1. /\ pointer'[r] = pointer[r] /\ pointer[r] \in Operations /\ ledger[pointer[r]] # None
    BY <1>1, <1>5 DEF IInv, Claims, StoresTyped
  <2>2. ledger'[pointer[r]] = ledger[pointer[r]]
    BY <1>5, <1>9, <2>1
  <2>3. QED
    BY <1>5, <2>1, <2>2 DEF IInv, Arrived, CopyOf, Bound
<1>17. Answered'
  BY <1>1, <1>5, <1>9 DEF IInv, Answered
<1>18. QED
  BY <1>10, <1>11, <1>13, <1>14, <1>15, <1>16, <1>17 DEF IInv

\* Copy writes only at identities that nothing uses.
LEMMA CopyStep ==
  ASSUME IInv, NEW p \in Processes, Copy(p)
  PROVE  IInv'
<1> DEFINE k == [run[p] EXCEPT !.at = "copied"]
<1>1. /\ StoresTyped /\ RunTyped /\ LockTyped /\ told \subseteq Operations /\ Typed
      /\ run[p].at = "both"
  BY IInvParts DEF Copy, IInv
<1>2. k \in Invocation /\ k.at = "copied" /\ k.op = run[p].op /\ run[p].op \in Operations
  <2>1. run[p] \in Invocation /\ run[p].op \in Operations
    BY <1>1 DEF RunTyped
  <2>2. QED
    BY <2>1 DEF Invocation, Points
<1>3. run' = [run EXCEPT ![p] = k]
  BY <1>1, RunAsMove DEF Copy
<1> HIDE DEF k
<1>4. PICK o \in Operations : o = run[p].op
  BY <1>2
<1>5. /\ UNCHANGED <<payload, reserved, pointer, ledger, inode, backup, told>>
      /\ lock' = [lock EXCEPT ![o.target] = None] /\ Bound(o)
      /\ UNCHANGED <<cell, receipt>> \/ Insert(o)
  BY <1>4 DEF Copy, source
<1>6. /\ ledger[o] # None /\ ledger[o].phase = "reserved" /\ StageOf(run[p])
      /\ o.target \in Targets /\ lock[o.target] = p /\ lock[Source] = p
  BY <1>1, <1>4, OperationTyped DEF IInv, Stages, StageOf, Holding, HasSource, HasTarget
<1>7. o.target # Source
  BY <1>6, SpinOutAssumption
<1>8. /\ cell' \in [Targets -> [Ids -> Cell \cup {None}]]
      /\ receipt' \in [Operations -> BOOLEAN]
  <2>1. WithCopies(o) \in [Ids -> Cell \cup {None}]
    BY <1>1, <1>6, WithCopiesTyped
  <2>2. QED
    BY <1>1, <1>5, <1>6, <2>1 DEF StoresTyped, Insert
<1>9. Typed'
  <2>1. StoresTyped'
    BY <1>1, <1>5, <1>8 DEF StoresTyped, Planned
  <2>2. RunTyped'
    BY <1>1, <1>2, <1>3, RunStep
  <2>3. LockTyped'
    BY <1>1, <1>5, <1>6 DEF LockTyped
  <2>4. QED
    BY <1>1, <1>5, <2>1, <2>2, <2>3, TypedPartsNext
<1>10. Holding'
  <2>1. lock'[Source] = p
    BY <1>1, <1>5, <1>6, <1>7 DEF LockTyped
  <2>2. \A s \in Targets \cup {Source} : lock[s] # None /\ lock[s] # p => lock'[s] = lock[s]
    BY <1>1, <1>5, <1>6 DEF LockTyped
  <2>3. QED
    BY <1>1, <1>2, <1>3, <2>1, <2>2, HoldingStep DEF IInv, HasTarget
<1>11. Stages'
  <2>1. StageOf(k)
    BY <1>1, <1>2, <1>6 DEF StageOf
  <2>2. QED
    BY <1>1, <1>3, <1>5, <2>1, StagesStep DEF IInv
<1>12. Claims' /\ Answered'
  BY <1>5, SourceFrame DEF IInv, Answered
\* What each place holds after the copy.
<1>13. ASSUME NEW t \in Targets, NEW i \in Ids
       PROVE  \/ cell'[t][i] = cell[t][i]
              \/ /\ cell[t][i] = None /\ cell'[t][i] # None /\ t = o.target
                 /\ \E r \in Planned(o) : ledger[o].ids[r] = i /\ cell'[t][i].row = r
  <2>1. CASE UNCHANGED <<cell, receipt>>
    BY <2>1
  <2>2. CASE Insert(o)
    <3>1. CASE t = o.target
      <4>1. cell'[t][i] = WithCopies(o)[i]
        BY <1>1, <2>2, <3>1 DEF Insert, StoresTyped
      <4>2. CASE WithCopies(o)[i] = cell[o.target][i]
        BY <3>1, <4>1, <4>2
      <4>3. CASE /\ \E r \in Planned(o) : ledger[o].ids[r] = i /\ WithCopies(o)[i].row = r
                 /\ WithCopies(o)[i] # None
        BY <2>2, <3>1, <4>1, <4>3 DEF Insert, CopyOf
      <4>4. QED
        BY <1>1, <1>6, <4>2, <4>3, WithCopiesTyped
    <3>2. CASE t # o.target
      BY <1>1, <2>2, <3>2 DEF Insert, StoresTyped
    <3>3. QED
      BY <3>1, <3>2
  <2>3. QED
    BY <1>5, <2>1, <2>2
<1>14. Copies'
  <2>1. Copies /\ UNCHANGED <<reserved, ledger, backup>>
    BY <1>5 DEF IInv
  <2>2. ASSUME NEW t \in Targets, NEW i \in Ids
        PROVE  Sits(t, i, cell'[t][i], reserved', ledger')
    <3>1. CASE cell'[t][i] = cell[t][i]
      BY <2>1, <3>1 DEF Copies
    <3>2. CASE /\ t = o.target
               /\ \E r \in Planned(o) : ledger[o].ids[r] = i /\ cell'[t][i].row = r
      <4>1. LedgerOf(o)
        BY DEF IInv, Claims
      <4>2. \A r \in Planned(o) : reserved[r] = o /\ o # None
        BY <1>6, <4>1, OperationTyped DEF LedgerOf
      <4>3. QED
        BY <2>1, <3>2, <4>2 DEF Sits
    <3>3. QED
      BY <1>13, <3>1, <3>2
  <2>3. QED
    BY <2>1, <2>2 DEF Copies
<1>15. Arrived'
  <2> SUFFICES ASSUME NEW r \in Rows, pointer[r] # None, Bound(pointer[r])
               PROVE  (CopyOf(pointer[r], r) # None /\ CopyOf(pointer[r], r).row = r)'
    BY <1>5 DEF Arrived, Bound
  <2> DEFINE x == pointer[r]
  <2>1. x \in Operations /\ ledger[x] # None /\ r \in Planned(x) /\ x.target \in Targets
    BY <1>1, OperationTyped DEF IInv, Claims, StoresTyped
  <2>2. ledger[x].ids[r] \in Ids
    BY <1>1, <2>1, EntryTyped DEF Typed
  <2>3. CopyOf(x, r) # None /\ CopyOf(x, r).row = r
    BY DEF IInv, Arrived
  <2>4. cell'[x.target][ledger[x].ids[r]] = cell[x.target][ledger[x].ids[r]]
    BY <1>13, <2>1, <2>2, <2>3 DEF CopyOf
  <2>5. QED
    BY <1>5, <2>3, <2>4 DEF CopyOf
<1>16. QED
  BY <1>9, <1>10, <1>11, <1>12, <1>14, <1>15 DEF IInv

\* Mark makes the rows of an operation point to it, when their copies are there.
LEMMA MarkStep ==
  ASSUME IInv, NEW p \in Processes, Mark(p)
  PROVE  IInv'
<1>1. /\ StoresTyped /\ RunTyped /\ LockTyped /\ told \subseteq Operations /\ TypeOK
      /\ run[p].at = "copied"
  BY IInvParts DEF Mark
<1>2. PICK o \in Operations : o = run[p].op
  BY <1>1 DEF RunTyped
<1>3. /\ ledger[o] # None /\ ledger[o].phase = "reserved" /\ lock[Source] = p
  BY <1>1, <1>2 DEF IInv, Stages, StageOf, Holding, HasSource
<1>4. /\ UNCHANGED <<payload, reserved, cell, receipt, inode, backup>>
      /\ Bound(o) /\ Intact(o) /\ told' = told \cup {o}
      /\ pointer' = [r \in Rows |-> IF r \in Planned(o) THEN o ELSE pointer[r]]
      /\ ledger' = [ledger EXCEPT ![o].phase = "marked"]
      /\ lock' = [lock EXCEPT ![Source] = None]
      /\ run' = [run EXCEPT ![p] = Idle]
  BY <1>2 DEF Mark, target
<1>5. /\ ledger[o] \in Entry /\ Planned(o) \subseteq Rows
  BY <1>1, <1>3, EntryTyped
<1> DEFINE e == [ledger[o] EXCEPT !.phase = "marked"]
<1>6. /\ e \in Entry /\ e # None /\ e.phase = "marked" /\ e.ids = ledger[o].ids
      /\ e.manifest = ledger[o].manifest /\ e.inode = ledger[o].inode
  <2>1. /\ e \in Entry /\ e.phase = "marked" /\ e.ids = ledger[o].ids
        /\ e.manifest = ledger[o].manifest /\ e.inode = ledger[o].inode
    BY <1>5 DEF Entry
  <2>2. QED
    BY <2>1, SpinOutAssumption
<1>7. ledger' = [ledger EXCEPT ![o] = e]
  BY <1>4
<1> HIDE DEF e
<1>8. \A x \in Operations : ledger'[x] = IF x = o THEN e ELSE ledger[x]
  BY <1>1, <1>7 DEF StoresTyped
\* The entries keep all but their phase.
<1>9. ASSUME NEW x \in Operations
      PROVE  /\ ledger'[x] # None <=> ledger[x] # None
             /\ ledger[x] # None => /\ ledger'[x].ids = ledger[x].ids
                                    /\ ledger'[x].manifest = ledger[x].manifest
                                    /\ ledger'[x].inode = ledger[x].inode
             /\ ledger[x] # None /\ ledger[x].phase = "marked" => ledger'[x].phase = "marked"
  BY <1>3, <1>6, <1>8
<1>10. Typed'
  <2>1. ledger' \in [Operations -> Entry \cup {None}]
    BY <1>1, <1>6, <1>7 DEF StoresTyped
  <2>2. pointer' \in [Rows -> Operations \cup {None}]
    BY <1>1, <1>4 DEF StoresTyped
  <2>3. ASSUME NEW x \in Operations, ledger'[x] # None
        PROVE  /\ DOMAIN ledger'[x].ids \subseteq x.rows
               /\ DOMAIN ledger'[x].manifest.rows = DOMAIN ledger'[x].ids
    BY <1>1, <1>9, <2>3 DEF StoresTyped, Planned
  <2>4. StoresTyped'
    BY <1>1, <1>4, <2>1, <2>2, <2>3 DEF StoresTyped, Planned
  <2>5. RunTyped'
    BY <1>1, <1>4, IdleTyped, RunStep
  <2>6. LockTyped' /\ told' \subseteq Operations
    BY <1>1, <1>4 DEF LockTyped
  <2>7. QED
    BY <2>4, <2>5, <2>6, TypedPartsNext
<1>11. Holding'
  <2>1. \A s \in Targets \cup {Source} : lock[s] # None /\ lock[s] # p => lock'[s] = lock[s]
    BY <1>1, <1>3, <1>4 DEF LockTyped
  <2>2. QED
    BY <1>1, <1>4, <2>1, IdleTyped, HoldingStep DEF IInv, HasSource, HasTarget
<1>12. Stages'
  <2> SUFFICES ASSUME NEW q \in Processes PROVE StageOf(run[q])'
    BY DEF Stages
  <2>1. CASE q = p
    BY <1>1, <1>4, <2>1, IdleTyped DEF RunTyped, StageOf
  <2>2. CASE q # p
    <3>1. run'[q] = run[q] /\ StageOf(run[q]) /\ (run[q].at # "idle" => run[q].op \in Operations)
      BY <1>1, <1>4, <2>2 DEF RunTyped, IInv, Stages
    <3>2. run[q].at \notin {"both", "copied"}
      BY <1>3, <2>2 DEF IInv, Holding, HasSource
    <3>3. QED
      BY <1>9, <3>1, <3>2 DEF StageOf
  <2>3. QED
    BY <2>1, <2>2
<1>13. Claims'
  <2>1. ASSUME NEW x \in Operations PROVE LedgerOf(x)'
    <3> SUFFICES ASSUME ledger[x] # None PROVE LedgerOf(x)'
      BY <1>9 DEF LedgerOf
    <3>1. LedgerOf(x) /\ x # None /\ Planned(x) \subseteq Rows
      BY <1>1, OperationTyped, EntryTyped DEF IInv, Claims
    <3>2. ASSUME ledger'[x].phase = "marked", NEW r \in Planned(x) PROVE pointer'[r] = x
      <4>1. CASE x = o
        BY <1>4, <3>1, <3>2, <4>1
      <4>2. CASE x # o
        <5>1. reserved[r] = x /\ pointer[r] = x
          BY <1>8, <3>1, <3>2, <4>2 DEF LedgerOf
        <5>2. r \notin Planned(o)
          BY <1>3, <4>2, <5>1 DEF IInv, Claims, LedgerOf
        <5>3. QED
          BY <1>4, <3>1, <3>2, <5>1, <5>2
      <4>3. QED
        BY <4>1, <4>2
    <3>3. UNCHANGED <<reserved, inode>> /\ ledger'[x].ids = ledger[x].ids
          /\ ledger'[x].inode = ledger[x].inode
      BY <1>4, <1>9
    <3>4. QED
      BY <3>1, <3>2, <3>3 DEF LedgerOf, Planned
  <2>2. ASSUME NEW r \in Rows, reserved'[r] # None
        PROVE  ledger'[reserved'[r]] # None /\ r \in DOMAIN ledger'[reserved'[r]].ids
    <3>1. /\ reserved'[r] = reserved[r] /\ reserved[r] \in Operations
          /\ ledger[reserved[r]] # None /\ r \in Planned(reserved[r])
      BY <1>1, <1>4, <2>2 DEF IInv, Claims, StoresTyped
    <3>2. QED
      BY <1>9, <3>1 DEF Planned
  <2>3. ASSUME NEW r \in Rows, pointer'[r] # None
        PROVE  /\ ledger'[pointer'[r]] # None /\ ledger'[pointer'[r]].phase = "marked"
               /\ r \in DOMAIN ledger'[pointer'[r]].ids
    <3>1. CASE r \in Planned(o)
      BY <1>4, <1>6, <1>8, <3>1 DEF Planned
    <3>2. CASE r \notin Planned(o)
      <4>1. /\ pointer'[r] = pointer[r] /\ pointer[r] \in Operations
            /\ ledger[pointer[r]] # None /\ ledger[pointer[r]].phase = "marked"
            /\ r \in Planned(pointer[r])
        BY <1>1, <1>4, <2>3, <3>2 DEF IInv, Claims, StoresTyped
      <4>2. QED
        BY <1>9, <4>1 DEF Planned
    <3>3. QED
      BY <3>1, <3>2
  <2>4. QED
    BY <2>1, <2>2, <2>3 DEF Claims, Planned
<1>14. Copies'
  <2>1. ASSUME NEW t, NEW i, NEW v \in Cell \cup {None}, Sits(t, i, v, reserved, ledger)
        PROVE  Sits(t, i, v, reserved', ledger')
    <3> SUFFICES ASSUME v # None, v.row # None
                 PROVE  Sits(t, i, v, reserved', ledger')
      BY DEF Sits
    <3> DEFINE x == reserved[v.row]
    <3>1. /\ v.row \in Rows /\ x \in Operations /\ x # None /\ ledger[x] # None
          /\ x.target = t /\ ledger[x].ids[v.row] = i
      BY <2>1, RowIsHeld, OperationTyped
    <3>2. reserved'[v.row] = x /\ ledger'[x].ids = ledger[x].ids
      BY <1>4, <1>9, <3>1
    <3> HIDE DEF x
    <3>3. QED
      BY <3>1, <3>2 DEF Sits
  <2>2. QED
    BY <1>4, <2>1, Held DEF Copies
<1>15. Arrived'
  <2> SUFFICES ASSUME NEW r \in Rows, pointer'[r] # None, Bound(pointer[r])'
               PROVE  (CopyOf(pointer[r], r) # None /\ CopyOf(pointer[r], r).row = r)'
    BY DEF Arrived
  <2>1. CASE r \in Planned(o)
    <3>1. CopyOf(o, r).row = r /\ CopyOf(o, r) # None
      <4>1. CopyOf(o, r) = [row |-> r, version |-> ledger[o].manifest.rows[r], edited |-> FALSE]
        BY <1>4, <2>1 DEF Intact
      <4>2. ledger[o].manifest.rows[r] \in 0..MaxVersion
        BY <1>1, <1>3, <2>1, EntryTyped, SpinOutAssumption
      <4>3. CopyOf(o, r) \in Cell /\ CopyOf(o, r).row = r
        BY <4>1, <4>2 DEF Cell
      <4>4. QED
        BY <4>3, CellTyped
    <3>2. pointer'[r] = o /\ ledger'[o].ids = ledger[o].ids
      BY <1>3, <1>4, <1>9, <2>1
    <3>3. QED
      BY <1>4, <3>1, <3>2 DEF CopyOf
  <2>2. CASE r \notin Planned(o)
    <3>1. /\ pointer'[r] = pointer[r] /\ pointer[r] \in Operations /\ ledger[pointer[r]] # None
      BY <1>1, <1>4, <2>2 DEF IInv, Claims, StoresTyped
    <3>2. /\ ledger'[pointer[r]].ids = ledger[pointer[r]].ids
          /\ ledger'[pointer[r]].inode = ledger[pointer[r]].inode
      BY <1>9, <3>1
    <3>3. pointer[r] # None /\ Bound(pointer[r])
      BY <1>4, <3>1, <3>2 DEF Bound
    <3>4. CopyOf(pointer[r], r) # None /\ CopyOf(pointer[r], r).row = r
      BY <3>3 DEF IInv, Arrived
    <3>5. QED
      BY <1>4, <3>1, <3>2, <3>4 DEF CopyOf
  <2>3. QED
    BY <2>1, <2>2
<1>16. Answered'
  BY <1>1, <1>4, <1>6, <1>8, <1>9 DEF IInv, Answered
<1>17. QED
  BY <1>10, <1>11, <1>12, <1>13, <1>14, <1>15, <1>16 DEF IInv

-----------------------------------------------------------------------------
(* The steps of everybody else. *)

LEMMA WorkInSourceStep ==
  ASSUME IInv, NEW r \in Rows, WorkInSource(r)
  PROVE  IInv'
<1>1. StoresTyped /\ RunTyped /\ LockTyped /\ told \subseteq Operations
  BY IInvParts
<1>2. /\ UNCHANGED <<reserved, pointer, ledger, lock, run, told>>
      /\ UNCHANGED <<cell, receipt, inode, backup>>
      /\ lock[Source] = None /\ payload[r] < MaxVersion
      /\ payload' = [payload EXCEPT ![r] = @ + 1]
  BY DEF WorkInSource, target
<1>3. Typed'
  <2>1. payload[r] \in 0..MaxVersion
    BY <1>1 DEF StoresTyped
  <2>2. payload[r] + 1 \in 0..MaxVersion
    BY <1>2, <2>1, SpinOutAssumption
  <2>3. payload' \in [Rows -> 0..MaxVersion]
    BY <1>1, <1>2, <2>2 DEF StoresTyped
  <2>4. StoresTyped'
    BY <1>1, <1>2, <2>3 DEF StoresTyped, Planned
  <2>5. RunTyped' /\ LockTyped' /\ told' \subseteq Operations
    BY <1>1, <1>2 DEF RunTyped, LockTyped
  <2>6. QED
    BY <2>4, <2>5, TypedPartsNext
<1>4. Holding'
  BY <1>2 DEF IInv, Holding
<1>5. Stages'
  <2>1. ASSUME NEW q \in Processes PROVE StageOf(run[q])'
    <3>1. q # None /\ StageOf(run[q])
      BY SpinOutAssumption DEF IInv, Stages
    <3>2. run[q].at \notin {"both", "copied"}
      BY <1>2, <3>1 DEF IInv, Holding, HasSource
    <3>3. QED
      BY <1>2, <3>1, <3>2 DEF StageOf
  <2>2. QED
    BY <2>1 DEF Stages
<1>6. Claims' /\ Copies' /\ Arrived' /\ Answered'
  BY <1>2, SourceFrame, CopiesFrame, ArrivedFrame DEF IInv, Answered
<1>7. QED
  BY <1>3, <1>4, <1>5, <1>6 DEF IInv

LEMMA WorkInTargetStep ==
  ASSUME IInv, NEW t \in Targets, NEW i \in Ids, WorkInTarget(t, i)
  PROVE  IInv'
<1> DEFINE c == IF cell[t][i] = None THEN Local ELSE [cell[t][i] EXCEPT !.edited = TRUE]
<1>1. StoresTyped /\ RunTyped /\ LockTyped /\ told \subseteq Operations
  BY IInvParts
<1>2. /\ UNCHANGED <<payload, reserved, pointer, ledger, receipt, inode, backup, lock, run, told>>
      /\ cell' = [cell EXCEPT ![t][i] = c]
  BY DEF WorkInTarget, source
<1>3. /\ c \in Cell /\ c # None
      /\ cell[t][i] = None => c.row = None
      /\ cell[t][i] # None => c.row = cell[t][i].row
  <2>1. cell[t][i] \in Cell \cup {None}
    BY <1>1 DEF StoresTyped
  <2>2. QED
    BY <2>1, LocalTyped, CellTyped
<1> HIDE DEF c
<1>4. \A x \in Targets, j \in Ids :
        cell'[x][j] = IF x = t /\ j = i THEN c ELSE cell[x][j]
  BY <1>1, <1>2 DEF StoresTyped
<1>5. Typed'
  <2>1. cell' \in [Targets -> [Ids -> Cell \cup {None}]]
    BY <1>1, <1>2, <1>3 DEF StoresTyped
  <2>2. StoresTyped'
    BY <1>1, <1>2, <2>1 DEF StoresTyped, Planned
  <2>3. RunTyped' /\ LockTyped' /\ told' \subseteq Operations
    BY <1>1, <1>2 DEF RunTyped, LockTyped
  <2>4. QED
    BY <2>2, <2>3, TypedPartsNext
<1>6. Holding' /\ Claims' /\ Answered'
  BY <1>2, SourceFrame DEF IInv, Holding, Answered
<1>7. Stages'
  <2>1. ASSUME NEW q \in Processes PROVE StageOf(run[q])'
    BY <1>2 DEF IInv, Stages, StageOf, Manifest, Selected
  <2>2. QED
    BY <2>1 DEF Stages
<1>8. Copies'
  <2>1. Copies /\ UNCHANGED <<reserved, ledger, backup>>
    BY <1>2 DEF IInv
  <2>2. ASSUME NEW x \in Targets, NEW j \in Ids
        PROVE  Sits(x, j, cell'[x][j], reserved', ledger')
    <3>1. Sits(x, j, cell[x][j], reserved, ledger)
      BY <2>1 DEF Copies
    <3>2. \/ cell'[x][j] = cell[x][j]
          \/ cell'[x][j].row = None
          \/ cell[x][j] # None /\ cell'[x][j].row = cell[x][j].row
      BY <1>3, <1>4
    <3>3. QED
      BY <2>1, <3>1, <3>2 DEF Sits
  <2>3. QED
    BY <2>1, <2>2 DEF Copies
<1>9. Arrived'
  <2> SUFFICES ASSUME NEW r \in Rows, pointer[r] # None, Bound(pointer[r])
               PROVE  (CopyOf(pointer[r], r) # None /\ CopyOf(pointer[r], r).row = r)'
    BY <1>2 DEF Arrived, Bound
  <2> DEFINE o == pointer[r]
  <2>1. o \in Operations /\ ledger[o] # None /\ r \in Planned(o) /\ o.target \in Targets
    BY <1>1, OperationTyped DEF IInv, Claims, StoresTyped
  <2>2. ledger[o].ids[r] \in Ids
    BY <2>1, IInvParts, EntryTyped
  <2>3. CopyOf(o, r) # None /\ CopyOf(o, r).row = r
    BY DEF IInv, Arrived
  <2>4. /\ cell'[o.target][ledger[o].ids[r]] # None
        /\ cell'[o.target][ledger[o].ids[r]].row = r
    BY <1>3, <1>4, <2>1, <2>2, <2>3 DEF CopyOf
  <2>5. QED
    BY <1>2, <2>4 DEF CopyOf
<1>10. QED
  BY <1>5, <1>6, <1>7, <1>8, <1>9 DEF IInv

\* A restored file is no longer the one that any operation is bound to.
LEMMA RestoreStep ==
  ASSUME IInv, NEW t \in Targets, Restore(t)
  PROVE  IInv'
<1>1. StoresTyped /\ RunTyped /\ LockTyped /\ told \subseteq Operations /\ TypeOK
  BY IInvParts
<1>2. /\ UNCHANGED <<payload, reserved, pointer, ledger, backup, lock, run, told>>
      /\ t \in Restorable /\ inode[t] < MaxRestores
      /\ cell' = [cell EXCEPT ![t] = backup[t].cell]
      /\ receipt' = [o \in Operations |-> IF o.target = t THEN o \in backup[t].receipts
                                          ELSE receipt[o]]
      /\ inode' = [inode EXCEPT ![t] = @ + 1]
  BY DEF Restore, source
<1>3. /\ inode[t] \in Nat /\ inode'[t] = inode[t] + 1 /\ inode[t] + 1 \in 0..MaxRestores
      /\ \A x \in Targets : x # t => inode'[x] = inode[x]
      /\ \A x \in Targets : inode[x] \in Nat /\ inode'[x] \in Nat /\ inode[x] <= inode'[x]
  <2>1. \A x \in Targets : inode[x] \in 0..MaxRestores
    BY <1>1 DEF StoresTyped
  <2>2. inode[t] \in Nat /\ inode[t] + 1 \in 0..MaxRestores
    BY <1>2, <2>1, SpinOutAssumption
  <2>3. inode'[t] = inode[t] + 1 /\ \A x \in Targets : x # t => inode'[x] = inode[x]
    BY <1>1, <1>2 DEF StoresTyped
  <2>4. QED
    BY <2>1, <2>2, <2>3
<1>4. backup[t].cell \in [Ids -> Cell \cup {None}] /\ cell' = [cell EXCEPT ![t] = backup[t].cell]
      /\ \A x \in Targets : cell'[x] = IF x = t THEN backup[t].cell ELSE cell[x]
  BY <1>1, <1>2 DEF StoresTyped, Content_
<1>5. Typed'
  <2>1. cell' \in [Targets -> [Ids -> Cell \cup {None}]]
    BY <1>1, <1>4 DEF StoresTyped
  <2>2. inode' \in [Targets -> 0..MaxRestores]
    BY <1>1, <1>2, <1>3 DEF StoresTyped
  <2>3. receipt' \in [Operations -> BOOLEAN]
    <3>1. \A o \in Operations : receipt[o] \in BOOLEAN /\ (o \in backup[t].receipts) \in BOOLEAN
      BY <1>1 DEF StoresTyped
    <3>2. \A o \in Operations :
            (IF o.target = t THEN o \in backup[t].receipts ELSE receipt[o]) \in BOOLEAN
      BY <3>1, Zenon
    <3>3. QED
      BY <1>2, <3>2, Zenon
  <2>4. StoresTyped'
    BY <1>1, <1>2, <2>1, <2>2, <2>3 DEF StoresTyped, Planned
  <2>5. RunTyped' /\ LockTyped' /\ told' \subseteq Operations
    BY <1>1, <1>2 DEF RunTyped, LockTyped
  <2>6. QED
    BY <2>4, <2>5, TypedPartsNext
<1>6. Holding' /\ Answered'
  BY <1>2 DEF IInv, Holding, Answered
<1>7. Stages'
  <2>1. ASSUME NEW q \in Processes PROVE StageOf(run[q])'
    BY <1>2 DEF IInv, Stages, StageOf, Manifest, Selected
  <2>2. QED
    BY <2>1 DEF Stages
<1>8. Claims'
  <2>1. ASSUME NEW o \in Operations PROVE LedgerOf(o)'
    <3>1. LedgerOf(o) /\ o.target \in Targets /\ inode[o.target] \in Nat /\ inode'[o.target] \in Nat
          /\ inode[o.target] <= inode'[o.target]
          /\ (ledger[o] # None => ledger[o].inode \in Nat)
      BY <1>1, <1>3, OperationTyped, EntryTyped DEF IInv, Claims
    <3>2. QED
      BY <1>2, <3>1 DEF LedgerOf, Planned
  <2>2. QED
    BY <1>2, <2>1 DEF IInv, Claims, Planned
<1>9. Copies'
  <2>1. Copies /\ UNCHANGED <<reserved, ledger, backup>>
    BY <1>2 DEF IInv
  <2>2. ASSUME NEW x \in Targets, NEW i \in Ids
        PROVE  Sits(x, i, cell'[x][i], reserved', ledger')
    <3>1. \/ x \in Restorable /\ cell'[x] = backup[x].cell
          \/ cell'[x] = cell[x]
      BY <1>2, <1>4
    <3>2. QED
      BY <2>1, <3>1 DEF Copies
  <2>3. QED
    BY <2>1, <2>2 DEF Copies
<1>10. Arrived'
  <2> SUFFICES ASSUME NEW r \in Rows, pointer[r] # None, Bound(pointer[r])'
               PROVE  (CopyOf(pointer[r], r) # None /\ CopyOf(pointer[r], r).row = r)'
    BY <1>2 DEF Arrived
  <2> DEFINE o == pointer[r]
  <2>1. o \in Operations /\ ledger[o] # None /\ o.target \in Targets /\ LedgerOf(o)
    BY <1>1, OperationTyped DEF IInv, Claims, StoresTyped
  <2>2. ledger[o].inode = inode'[o.target]
    BY <1>2 DEF Bound
  <2>3. ledger[o].inode <= inode[o.target]
    BY <2>1 DEF LedgerOf
  <2>4. o.target # t
    BY <1>3, <2>1, <2>2, <2>3
  <2>5. Bound(o) /\ cell'[o.target] = cell[o.target]
    BY <1>3, <1>4, <2>1, <2>2, <2>4 DEF Bound
  <2>6. CopyOf(o, r) # None /\ CopyOf(o, r).row = r
    BY <2>5 DEF IInv, Arrived
  <2>7. QED
    BY <1>2, <2>5, <2>6 DEF CopyOf
<1>11. QED
  BY <1>5, <1>6, <1>7, <1>8, <1>9, <1>10 DEF IInv

LEMMA StutterStep ==
  ASSUME IInv, UNCHANGED vars
  PROVE  IInv'
<1>1. StoresTyped /\ RunTyped /\ LockTyped /\ told \subseteq Operations
  BY IInvParts
<1>2. /\ UNCHANGED <<source, target, lock, run, told>>
      /\ UNCHANGED <<payload, reserved, pointer, ledger, cell, receipt, inode, backup>>
  BY DEF vars, source, target
<1>3. Typed'
  BY <1>1, <1>2, StoresFrame, TypedPartsNext DEF RunTyped, LockTyped
<1>4. Holding' /\ Answered'
  BY <1>2 DEF IInv, Holding, Answered
<1>5. Stages'
  BY <1>2 DEF IInv, Stages, StageOf, Manifest, Selected
<1>6. Claims' /\ Copies' /\ Arrived'
  BY <1>2, SourceFrame, CopiesFrame, ArrivedFrame DEF IInv
<1>7. QED
  BY <1>3, <1>4, <1>5, <1>6 DEF IInv

LEMMA InvInit == Init => IInv
<1> SUFFICES ASSUME Init PROVE IInv
  OBVIOUS
<1>1. Typed
  BY TypedInit
<1>2. /\ \A p \in Processes : run[p].at = "idle"
      /\ \A o \in Operations : ledger[o] = None
      /\ \A r \in Rows : reserved[r] = None /\ pointer[r] = None
      /\ told = {}
  BY DEF Init, Idle
<1>3. Holding /\ Stages /\ Claims /\ Arrived /\ Answered
  BY <1>2 DEF Holding, HasSource, HasTarget, Stages, StageOf, Claims, LedgerOf, Arrived, Answered
<1>4. Copies
  <2>1. \A t \in Targets, i \in Ids : cell[t][i] = None
    BY DEF Init
  <2>2. \A t \in Restorable, i \in Ids : backup[t].cell[i] = None
    BY DEF Init
  <2>3. QED
    BY <2>1, <2>2 DEF Copies, Sits
<1>5. QED
  BY <1>1, <1>3, <1>4 DEF IInv

LEMMA InvNext == IInv /\ [Next]_vars => IInv'
<1> SUFFICES ASSUME IInv, [Next]_vars PROVE IInv'
  OBVIOUS
<1>1. ASSUME NEW p \in Processes, Step(p) PROVE IInv'
  <2>1. ASSUME NEW o \in Operations, Open(p, o) PROVE IInv'
    BY <2>1, OpenStep
  <2>2. ASSUME NEW o \in Operations, AnswerUnchanged(p, o) PROVE IInv'
    BY <2>2, AnswerUnchangedStep
  <2>3. CASE Backup(p)
    BY <2>3, BackupStep
  <2>4. CASE LockSource(p)
    BY <2>4, LockSourceStep
  <2>5. CASE Resume(p)
    BY <2>5, ResumeStep
  <2>6. CASE Reserve(p)
    BY <2>6, ReserveStep
  <2>7. CASE ReleaseTarget(p)
    BY <2>7, ReleaseTargetStep
  <2>8. CASE RelockSource(p)
    BY <2>8, RelockSourceStep
  <2>9. CASE RelockTarget(p)
    BY <2>9, RelockTargetStep
  <2>10. CASE Copy(p)
    BY <2>10, CopyStep
  <2>11. CASE Mark(p)
    BY <2>11, MarkStep
  <2>12. CASE Abandon(p)
    BY <2>12, AbandonStep
  <2>13. QED
    BY <1>1, <2>1, <2>2, <2>3, <2>4, <2>5, <2>6, <2>7, <2>8, <2>9, <2>10, <2>11, <2>12 DEF Step
<1>2. ASSUME NEW r \in Rows, WorkInSource(r) PROVE IInv'
  BY <1>2, WorkInSourceStep
<1>3. ASSUME NEW t \in Targets, Restore(t) PROVE IInv'
  BY <1>3, RestoreStep
<1>4. ASSUME NEW t \in Targets, NEW i \in Ids, WorkInTarget(t, i) PROVE IInv'
  BY <1>4, WorkInTargetStep
<1>5. CASE UNCHANGED vars
  BY <1>5, StutterStep
<1>6. QED
  BY <1>1, <1>2, <1>3, <1>4, <1>5 DEF Next

\* Which actions write to the pointers, and which to the cells.
LEMMA OfSteps ==
  ASSUME NEW p \in Processes, Step(p)
  PROVE  /\ pointer' = pointer \/ Mark(p)
         /\ cell' = cell \/ Copy(p)
<1>1. ASSUME NEW o, Open(p, o) \/ AnswerUnchanged(p, o) PROVE UNCHANGED <<pointer, cell>>
  BY <1>1 DEF Open, AnswerUnchanged, source, target
<1>2. ASSUME Backup(p) \/ LockSource(p) \/ Abandon(p) PROVE UNCHANGED <<pointer, cell>>
  BY <1>2 DEF Backup, LockSource, Abandon, source, target
<1>3. ASSUME Resume(p) \/ Reserve(p) PROVE UNCHANGED <<pointer, cell>>
  BY <1>3 DEF Resume, Reserve, source, target
<1>4. ASSUME ReleaseTarget(p) \/ RelockSource(p) \/ RelockTarget(p) PROVE UNCHANGED <<pointer, cell>>
  BY <1>4 DEF ReleaseTarget, RelockSource, RelockTarget, source, target
<1>5. Copy(p) => pointer' = pointer
  BY DEF Copy, source
<1>6. Mark(p) => cell' = cell
  BY DEF Mark, target
<1>7. QED
  BY <1>1, <1>2, <1>3, <1>4, <1>5, <1>6 DEF Step

LEMMA OnlyMarkPoints ==
  ASSUME Next, pointer' # pointer
  PROVE  \E p \in Processes : Mark(p)
<1>1. ASSUME NEW r, WorkInSource(r) PROVE pointer' = pointer
  BY <1>1 DEF WorkInSource
<1>2. ASSUME NEW t, Restore(t) PROVE pointer' = pointer
  BY <1>2 DEF Restore, source
<1>3. ASSUME NEW t, NEW i, WorkInTarget(t, i) PROVE pointer' = pointer
  BY <1>3 DEF WorkInTarget, source
<1>4. QED
  BY <1>1, <1>2, <1>3, OfSteps DEF Next

LEMMA OnlyTheseWrite ==
  ASSUME Next, cell' # cell
  PROVE  \/ \E p \in Processes : Copy(p)
         \/ \E t \in Targets : Restore(t) \/ \E i \in Ids : WorkInTarget(t, i)
<1>1. ASSUME NEW r, WorkInSource(r) PROVE cell' = cell
  BY <1>1 DEF WorkInSource, target
<1>2. QED
  BY <1>1, OfSteps DEF Next

LEMMA Invariant == Spec => []IInv
BY InvInit, InvNext, PTL DEF Spec

-----------------------------------------------------------------------------
(* The theorems. *)

\* All variables keep their types, for any number of commands and restores.
THEOREM TypeCorrect == Spec => []TypeOK
<1>1. IInv => TypeOK
  BY DEF IInv, Typed
<1>2. QED
  BY <1>1, Invariant, PTL

\* A row is copied at most once: two copies of it sit where the one operation that
\* holds the row planned them.
THEOREM CopiedOnce == Spec => []OneCopy
<1>1. IInv => OneCopy
  <2> SUFFICES ASSUME IInv, NEW r \in Rows, NEW t1 \in Targets, NEW t2 \in Targets,
                      NEW i1 \in Ids, NEW i2 \in Ids,
                      cell[t1][i1] # None, cell[t1][i1].row = r,
                      cell[t2][i2] # None, cell[t2][i2].row = r
               PROVE  t1 = t2 /\ i1 = i2
    BY DEF OneCopy
  <2>1. r # None
    BY SpinOutAssumption
  <2>2. /\ reserved[r].target = t1 /\ ledger[reserved[r]].ids[r] = i1
        /\ reserved[r].target = t2 /\ ledger[reserved[r]].ids[r] = i2
    BY <2>1, Held DEF Sits
  <2>3. QED
    BY <2>2
<1>2. QED
  BY <1>1, Invariant, PTL

\* What the source no longer lists is in the target, and what is in the target is
\* no longer listed or held by an operation that is not complete.
THEOREM NothingIsLost == Spec => []NothingLost
<1>1. IInv => NothingLost
  <2> SUFFICES ASSUME IInv PROVE NothingLost
    OBVIOUS
  <2>1. StoresTyped /\ told \subseteq Operations
    BY IInvParts
  <2>2. ASSUME NEW r \in Rows, pointer[r] # None
        PROVE  LET o == pointer[r]
               IN /\ ledger[o] # None /\ ledger[o].phase = "marked"
                  /\ Bound(o) => CopyOf(o, r) # None /\ CopyOf(o, r).row = r
    BY <2>2 DEF IInv, Claims, Arrived
  <2>3. ASSUME NEW o \in told PROVE ledger[o] # None /\ Marked(o)
    BY <2>1 DEF IInv, Answered, Claims, LedgerOf, Marked, HasReservations
  <2>4. ASSUME NEW t \in Targets, NEW i \in Ids, cell[t][i] # None, cell[t][i].row # None
        PROVE  LET r == cell[t][i].row
               IN reserved[r] # None /\ (pointer[r] = None => ledger[reserved[r]].phase = "reserved")
    <3> DEFINE r == cell[t][i].row
    <3>2. /\ reserved[r] \in Operations /\ ledger[reserved[r]] # None
          /\ r \in Planned(reserved[r])
      BY <2>4, Held, RowIsHeld
    <3>3. reserved[r] # None /\ LedgerOf(reserved[r])
      BY <3>2, OperationTyped DEF IInv, Claims
    <3>4. pointer[r] = None => ledger[reserved[r]].phase # "marked"
      BY <3>2, <3>3 DEF LedgerOf
    <3>5. QED
      BY <3>2, <3>3, <3>4, IInvParts, EntryTyped
  <2>5. QED
    BY <2>2, <2>3, <2>4 DEF NothingLost
<1>2. QED
  BY <1>1, Invariant, PTL

\* What is marked is the last version of the row, copied and untouched.
THEOREM MarkedAsCopied == Spec => NoEditLost
<1> DEFINE A == \A r \in Rows :
       pointer[r] = None /\ pointer'[r] # None =>
         CopyOf(pointer'[r], r) = [row |-> r, version |-> payload[r], edited |-> FALSE]
<1>1. IInv /\ [Next]_vars => [A]_vars
  <2> SUFFICES ASSUME IInv, Next, NEW r \in Rows, pointer[r] = None, pointer'[r] # None
               PROVE  CopyOf(pointer'[r], r) = [row |-> r, version |-> payload[r], edited |-> FALSE]
    OBVIOUS
  <2>1. PICK p \in Processes : Mark(p)
    BY OnlyMarkPoints
  <2>2. PICK o \in Operations : o = run[p].op
    BY <2>1, IInvParts DEF Mark, RunTyped
  <2>3. r \in Planned(o) /\ pointer'[r] = o /\ Intact(o)
    BY <2>1, <2>2 DEF Mark
  <2>4. ledger[o] # None /\ ledger[o].manifest = Manifest(o)
    BY <2>1, <2>2 DEF IInv, Stages, StageOf, Mark
  <2>5. r \in Selected(o) /\ ledger[o].manifest.rows[r] = payload[r]
    BY <2>3, <2>4, IInvParts, EntryTyped, ManifestTyped
  <2>6. QED
    BY <2>3, <2>5 DEF Intact
<1>2. QED
  BY <1>1, Invariant, PTL DEF Spec, NoEditLost

\* A copy overwrites nothing.
THEOREM WorkIsKept == Spec => WorkSurvives
<1> DEFINE A == inode' = inode =>
       \A t \in Targets, i \in Ids :
         cell[t][i] # None => cell'[t][i] # None /\ cell'[t][i].row = cell[t][i].row
<1>1. IInv /\ [Next]_vars => [A]_vars
  <2> SUFFICES ASSUME IInv, Next, inode' = inode, NEW t \in Targets, NEW i \in Ids, cell[t][i] # None
               PROVE  cell'[t][i] # None /\ cell'[t][i].row = cell[t][i].row
    OBVIOUS
  <2>1. StoresTyped /\ RunTyped /\ TypeOK
    BY IInvParts
  <2>2. CASE UNCHANGED cell
    BY <2>2
  <2>3. ASSUME NEW p \in Processes, Copy(p), ~UNCHANGED cell
        PROVE  cell'[t][i] # None /\ cell'[t][i].row = cell[t][i].row
    <3>1. PICK o \in Operations : o = run[p].op
      BY <2>1, <2>3 DEF Copy, RunTyped
    <3>2. Insert(o) /\ ledger[o] # None
      BY <2>3, <3>1 DEF Copy, IInv, Stages, StageOf
    <3>3. t = o.target => WithCopies(o)[i] = cell[t][i]
      BY <3>2, WithCopiesTyped DEF IInv, Insert, CopyOf
    <3>4. QED
      BY <2>1, <3>2, <3>3 DEF Insert, StoresTyped
  <2>4. ASSUME NEW x \in Targets, NEW j \in Ids, WorkInTarget(x, j)
        PROVE  cell'[t][i] # None /\ cell'[t][i].row = cell[t][i].row
    <3>1. CASE x = t /\ j = i
      <4>1. cell[t][i] \in Cell
        BY <2>1 DEF StoresTyped
      <4>2. cell'[t][i] = [cell[t][i] EXCEPT !.edited = TRUE]
        BY <2>1, <2>4, <3>1 DEF WorkInTarget, StoresTyped
      <4>3. QED
        BY <4>1, <4>2, CellTyped
    <3>2. CASE ~(x = t /\ j = i)
      BY <2>1, <2>4, <3>2 DEF WorkInTarget, StoresTyped
    <3>3. QED
      BY <3>1, <3>2
  <2>5. ASSUME NEW x \in Targets, Restore(x) PROVE FALSE
    <3>1. inode[x] \in Nat /\ inode'[x] = inode[x] + 1
      BY <2>1, <2>5, SpinOutAssumption DEF Restore, StoresTyped
    <3>2. QED
      BY <3>1
  <2>6. QED
    BY <2>2, <2>3, <2>4, <2>5, OnlyTheseWrite
<1>2. QED
  BY <1>1, Invariant, PTL DEF Spec, WorkSurvives

=============================================================================
