--------------------------- MODULE AppUpdateProofs ---------------------------
(***************************************************************************)
(* Theorems about AppUpdate.  TypeCorrect holds for any transports; the    *)
(* others are of a board with one, which every assumption named            *)
(* SingleTransport says.                                                   *)
(***************************************************************************)
EXTENDS AppUpdate, TLAPS

-----------------------------------------------------------------------------
(* The otadata operators, for every value of the two records. *)

\* Sequence numbers encode slots, and the two slots are each other's other.
LEMMA SlotOfType == \A n \in Nat : SlotOf(n) \in Slots
BY DEF SlotOf, Slots

LEMMA OtherType == \A s \in Slots : Other(s) \in Slots /\ Other(s) # s /\ Other(Other(s)) = s
BY DEF Other, Slots

LEMMA FactoryIsNoSlot == Factory \notin Slots
BY DEF Factory, Slots

\* The active record is a record that counts, if one does.
LEMMA ActiveIsValid ==
    ASSUME NEW od \in OtaDatas
    PROVE  /\ ActiveRecord(od) \in 0..1
           /\ HasSelection(od) => ValidRecord(od[ActiveRecord(od)])
BY SMTT(20) DEF ActiveRecord, HasSelection, OtaDatas

LEMMA BootPartitionType ==
    ASSUME NEW od \in OtaDatas
    PROVE  /\ HasSelection(od) => BootPartition(od) \in Slots
           /\ ~ HasSelection(od) => BootPartition(od) = Factory
<1>1. od[ActiveRecord(od)].seq \in Nat
  BY ActiveIsValid DEF OtaDatas, Records
<1>2. QED
  BY <1>1, SlotOfType DEF BootPartition

\* When the records that count agree, each of them names the boot partition
\* (and a record that counts decides what that is).
LEMMA AgreedSelection ==
    ASSUME NEW od \in OtaDatas, NEW s,
           \A i \in 0..1 : ValidRecord(od[i]) => SlotOf(od[i].seq) = s
    PROVE  HasSelection(od) => BootPartition(od) = s
BY ActiveIsValid DEF BootPartition

\* A reset makes no record count that did not, and renumbers none.
LEMMA AtResetRecords ==
    ASSUME NEW od \in OtaDatas
    PROVE  /\ AtReset(od) \in OtaDatas
           /\ \A i \in 0..1 : /\ AtReset(od)[i].seq = od[i].seq
                              /\ ValidRecord(AtReset(od)[i]) => ValidRecord(od[i])
<1> DEFINE a == Aborted(od)
<1>1. /\ a \in OtaDatas
      /\ \A i \in 0..1 : /\ a[i].seq = od[i].seq
                         /\ ValidRecord(a[i]) => ValidRecord(od[i])
  BY DEF Aborted, OtaDatas, Records, ImgStates, ValidRecord
<1>2. CASE HasSelection(a) /\ a[ActiveRecord(a)].state = "new"
  <2>1. ActiveRecord(a) \in 0..1 /\ ValidRecord(a[ActiveRecord(a)])
    BY <1>1, <1>2, ActiveIsValid
  <2>2. AtReset(od) = [a EXCEPT ![ActiveRecord(a)].state = "pending"]
    BY <1>2 DEF AtReset
  <2> HIDE DEF a
  <2>3. AtReset(od) \in OtaDatas
    BY <1>1, <2>1, <2>2 DEF OtaDatas, Records, ImgStates
  <2>4. ASSUME NEW i \in 0..1
        PROVE  /\ AtReset(od)[i].seq = a[i].seq
               /\ ValidRecord(AtReset(od)[i]) => ValidRecord(a[i])
    BY <1>1, <2>1, <2>2 DEF OtaDatas, Records, ValidRecord
  <2>5. QED
    BY <1>1, <2>3, <2>4
<1>3. CASE ~ (HasSelection(a) /\ a[ActiveRecord(a)].state = "new")
  BY <1>1, <1>3 DEF AtReset
<1>4. QED
  BY <1>2, <1>3

\* A selection that waits for no confirmation is not given up.
LEMMA SelectionSurvives ==
    ASSUME NEW od \in OtaDatas, HasSelection(od),
           \A i \in 0..1 : ValidRecord(od[i]) => od[i].state # "pending"
    PROVE  HasSelection(AtReset(od))
<1> DEFINE a == Aborted(od)
<1>1. PICK i \in 0..1 : ValidRecord(od[i])
  BY DEF HasSelection
<1>2. a[i] = od[i]
  BY <1>1 DEF Aborted
<1>3. a \in OtaDatas
  BY DEF Aborted, OtaDatas, Records, ImgStates
<1>4. CASE HasSelection(a) /\ a[ActiveRecord(a)].state = "new"
  <2>1. ActiveRecord(a) \in 0..1 /\ AtReset(od) = [a EXCEPT ![ActiveRecord(a)].state = "pending"]
    BY <1>3, <1>4, ActiveIsValid DEF AtReset
  <2> HIDE DEF a
  <2>2. ValidRecord(AtReset(od)[i])
    BY <1>1, <1>2, <1>3, <2>1 DEF ValidRecord, OtaDatas, Records
  <2>3. QED
    BY <2>2 DEF HasSelection
<1>5. CASE ~ (HasSelection(a) /\ a[ActiveRecord(a)].state = "new")
  BY <1>1, <1>2, <1>5 DEF AtReset, HasSelection
<1>6. QED
  BY <1>4, <1>5

\* Every operation leaves well-formed records.
LEMMA OperationsType ==
    ASSUME NEW od \in OtaDatas, NEW s
    PROVE  SelectSlot(od, s) \in OtaDatas /\ TornSelect(od) \in OtaDatas
             /\ MarkValid(od) \in OtaDatas
<1>1. ActiveRecord(od) \in 0..1 /\ SpareRecord(od) \in 0..1
  BY ActiveIsValid DEF SpareRecord
<1>2. NextSeq(od, s) \in Nat
  BY <1>1 DEF NextSeq, OtaDatas, Records
<1>3. SelectSlot(od, s) \in OtaDatas
  BY <1>1, <1>2 DEF SelectSlot, OtaDatas, Records, ImgStates
<1>4. TornSelect(od) \in OtaDatas
  BY <1>1 DEF TornSelect, Erased, OtaDatas, Records, ImgStates
<1>5. MarkValid(od) \in OtaDatas
  BY <1>1 DEF MarkValid, OtaDatas, Records, ImgStates
<1>6. QED
  BY <1>3, <1>4, <1>5

\* A first selection is the only one, and is of the slot asked for.
LEMMA FirstSelection ==
    ASSUME NEW od \in OtaDatas, ~ HasSelection(od), NEW s \in Slots
    PROVE  /\ SelectSlot(od, s) \in OtaDatas
           /\ HasSelection(SelectSlot(od, s))
           /\ \A i \in 0..1 : ValidRecord(SelectSlot(od, s)[i]) =>
                /\ SlotOf(SelectSlot(od, s)[i].seq) = s
                /\ SelectSlot(od, s)[i].state = "new"
<1> DEFINE n == IF s = "ota_0" THEN 1 ELSE 2
<1>1. n \in Nat /\ n # 0 /\ SlotOf(n) = s
  BY DEF SlotOf, Slots
<1>2. SelectSlot(od, s) = [od EXCEPT ![0] = [seq |-> n, state |-> "new"]]
  BY DEF SelectSlot, SpareRecord, NextSeq
<1> HIDE DEF n
<1>3. ~ ValidRecord(od[1])
  BY DEF HasSelection
<1>4. QED
  BY <1>1, <1>2, <1>3 DEF OtaDatas, Records, ImgStates, HasSelection, ValidRecord

\* Losing power during a first selection leaves none.
LEMMA TornFirstSelection ==
    ASSUME NEW od \in OtaDatas, ~ HasSelection(od)
    PROVE  TornSelect(od) \in OtaDatas /\ ~ HasSelection(TornSelect(od))
BY DEF TornSelect, SpareRecord, Erased, OtaDatas, Records, ImgStates, HasSelection, ValidRecord

LEMMA AllErasedSelectsNothing == AllErased \in OtaDatas /\ ~ HasSelection(AllErased)
BY DEF AllErased, Erased, OtaDatas, Records, ImgStates, HasSelection, ValidRecord

\* Confirming changes neither which records count nor what they name.
LEMMA MarkValidRecords ==
    ASSUME NEW od \in OtaDatas, HasSelection(od)
    PROVE  /\ MarkValid(od) \in OtaDatas
           /\ HasSelection(MarkValid(od))
           /\ \A i \in 0..1 : /\ MarkValid(od)[i].seq = od[i].seq
                              /\ ValidRecord(MarkValid(od)[i]) => ValidRecord(od[i])
<1>1. ActiveRecord(od) \in 0..1 /\ ValidRecord(od[ActiveRecord(od)])
  BY ActiveIsValid
<1>2. MarkValid(od) = [od EXCEPT ![ActiveRecord(od)].state = "valid"]
  BY DEF MarkValid
<1>3. QED
  BY <1>1, <1>2 DEF OtaDatas, Records, ImgStates, HasSelection, ValidRecord

-----------------------------------------------------------------------------
(* The updates. *)

USE DEF At, InLoader

\* TypeOK needs one more fact to be inductive.
TypeInv == TypeOK /\ \A t \in Tasks : task[t].pc = "recv" => task[t].written < N

LEMMA IdleTaskType ==
    IdleTask \in TaskStates
BY NAssumption DEF IdleTask, TaskStates

LEMMA ProgressType ==
    ASSUME NEW r \in TaskStates, NEW w \in 0..N, NEW l \in {"recv", "end"}
    PROVE  [r EXCEPT !.written = w, !.pc = l] \in TaskStates
BY DEF TaskStates

LEMMA TargetType ==
    ASSUME TypeOK
    PROVE  Target \in Slots /\ ResumeSlot \in Slots
<1>1. BootPartition(otadata) \in Slots \cup {Factory}
  BY BootPartitionType DEF TypeOK
<1>2. Target \in Slots
  BY <1>1, OtherType, FactoryIsNoSlot DEF Target, TypeOK, Slots
<1>3. QED
  BY <1>2, OtherType DEF ResumeSlot

LEMMA ResetType ==
    ASSUME TypeInv, NEW od \in OtaDatas, Reset(od),
           slot' \in [Slots -> [1..N -> Images \cup {Blank}]]
    PROVE  TypeInv'
<1>1. otadata' \in OtaDatas
  BY AtResetRecords DEF Reset
<1>2. running' \in Slots \cup {Factory}
  BY DEF Reset, BootChoice, Slots
<1>3. lastRun' \in Slots \cup {None}
  BY <1>2 DEF Reset, TypeInv, TypeOK
<1>4. task' = [t \in Tasks |-> IdleTask]
  BY DEF Reset
<1>5. \A t \in Tasks : task'[t].pc # "recv"
  BY <1>4 DEF IdleTask
<1>6. lastSlot' \in Slots \cup {None}
  BY DEF Reset, InitNvs, TypeInv, TypeOK
<1>7. QED
  BY <1>1, <1>2, <1>3, <1>4, <1>5, <1>6, IdleTaskType DEF TypeInv, TypeOK

LEMMA PutChunkType ==
    ASSUME TypeInv, NEW t \in Tasks, CanWrite(t),
           NEW c \in Images \cup {Blank}, PutChunk(t, c)
    PROVE  slot' \in [Slots -> [1..N -> Images \cup {Blank}]]
<1>1. task[t].written + 1 \in 1..N
  BY NAssumption DEF TypeInv, TypeOK, CanWrite, TaskStates
<1>2. QED
  BY <1>1 DEF PutChunk, TypeInv, TypeOK

LEMMA StopType ==
    ASSUME TypeInv, NEW t \in Tasks, Stop(t)
    PROVE  /\ task' \in [Tasks -> TaskStates]
           /\ \A u \in Tasks : task'[u].pc = "recv" => task'[u].written < N
<1>1. IdleTask.pc # "recv"
  BY DEF IdleTask
<1>2. QED
  BY <1>1, IdleTaskType DEF Stop, TypeInv, TypeOK

LEMMA TypeStep ==
    ASSUME TypeInv, [Next]_vars
    PROVE  TypeInv'
<1> USE DEF TypeInv, TaskStates
<1>1. ASSUME NEW t \in Tasks, BeginUpdate(t)
      PROVE  TypeInv'
  <2>1. PICK img \in Images :
          task' = [task EXCEPT ![t] = [pc |-> "recv", target |-> Target,
                                       image |-> img, written |-> 0]]
    BY <1>1 DEF BeginUpdate
  <2>2. Target \in Slots
    BY TargetType
  <2> HIDE DEF Target
  <2>3. QED
    BY <1>1, <2>1, <2>2, NAssumption DEF BeginUpdate, TypeOK
<1>2. ASSUME NEW t \in Tasks, AbortRecv(t) \/ RejectMagic(t) \/ EndFails(t) \/ SetBootFails(t)
      PROVE  TypeInv'
  BY <1>2, StopType DEF AbortRecv, RejectMagic, EndFails, SetBootFails, TypeOK
<1>3. ASSUME NEW t \in Tasks, Receive(t)
      PROVE  TypeInv'
  <2>1. task[t].image \in Images \cup {Blank} /\ task[t].written + 1 \in 1..N
    BY <1>3, NAssumption DEF Receive, CanWrite, TypeOK
  <2>2. slot' \in [Slots -> [1..N -> Images \cup {Blank}]]
    BY <1>3, <2>1, PutChunkType DEF Receive
  <2>3. task[t].written + 1 # N => task[t].written + 1 < N
    BY <2>1, NAssumption
  <2>4. /\ task' \in [Tasks -> TaskStates]
        /\ \A u \in Tasks : task'[u].pc = "recv" => task'[u].written < N
    <3> DEFINE label == IF task[t].written + 1 = N THEN "end" ELSE "recv"
    <3>1. task' = [task EXCEPT ![t] = [task[t] EXCEPT !.written = @ + 1, !.pc = label]]
      BY <1>3 DEF Receive, TypeOK
    <3>2. /\ label \in {"recv", "end"}
          /\ label = "recv" => task[t].written + 1 < N
      BY <2>3
    <3> HIDE DEF label
    <3>3. [task[t] EXCEPT !.written = @ + 1, !.pc = label] \in TaskStates
      <4>1. task[t].written + 1 \in 0..N
        BY <2>1, NAssumption
      <4>2. task[t] \in TaskStates
        BY DEF TypeOK
      <4>3. QED
        BY <3>2, <4>1, <4>2, ProgressType
    <3>4. QED
      BY <3>1, <3>2, <3>3 DEF TypeOK, TaskStates
  <2>5. QED
    BY <1>3, <2>2, <2>4 DEF Receive, TypeOK
<1>4. ASSUME NEW t \in Tasks, WriteFails(t)
      PROVE  TypeInv'
  BY <1>4, StopType, PutChunkType DEF WriteFails, TypeOK
<1>5. ASSUME NEW t \in Tasks, EndUpdate(t)
      PROVE  TypeInv'
  BY <1>5 DEF EndUpdate, TypeOK
<1>6. ASSUME NEW t \in Tasks, Resume(t)
      PROVE  TypeInv'
  BY <1>6, TargetType DEF Resume, TypeOK
<1>7. ASSUME NEW t \in Tasks, SetBoot(t)
      PROVE  TypeInv'
  BY <1>7, OperationsType DEF SetBoot, TypeOK
<1>8. ASSUME NEW t \in Tasks, SaveLast(t)
      PROVE  TypeInv'
  BY <1>8 DEF SaveLast, TypeOK
<1>9. ASSUME NEW t \in Tasks, Restart(t)
      PROVE  TypeInv'
  BY <1>9, ResetType DEF Restart, TypeOK
<1>10. CASE PowerLoss
  <2>1. CASE UNCHANGED slot /\ Reset(otadata)
    BY <2>1, ResetType DEF TypeOK
  <2>2. CASE \E t \in Tasks : CanWrite(t) /\ PutChunk(t, Blank) /\ Reset(otadata)
    BY <2>2, ResetType, PutChunkType DEF TypeOK
  <2>3. CASE UNCHANGED slot /\ Reset(TornSelect(otadata))
    BY <2>3, ResetType, OperationsType DEF TypeOK
  <2>4. QED
    BY <1>10, <2>1, <2>2, <2>3 DEF PowerLoss
<1>11. CASE AppConfirm
  BY <1>11, OperationsType DEF AppConfirm, TypeOK
<1>12. CASE AppCrash
  BY <1>12, ResetType DEF AppCrash, TypeOK
<1>13. CASE Tier1
  BY <1>13, ResetType, AllErasedSelectsNothing DEF Tier1, TypeOK
<1>14. CASE UNCHANGED vars
  BY <1>14 DEF vars, TypeOK
<1>15. QED
  BY <1>1, <1>2, <1>3, <1>4, <1>5, <1>6, <1>7, <1>8, <1>9, <1>10, <1>11, <1>12,
     <1>13, <1>14 DEF Next, Step, Proceed, Write

LEMMA TypeInit == Init => TypeInv
<1> SUFFICES ASSUME Init PROVE TypeInv
  OBVIOUS
<1>1. otadata \in OtaDatas
  BY DEF Init, AllErased, Erased, OtaDatas, Records, ImgStates
<1>2. slot \in [Slots -> [1..N -> Images \cup {Blank}]]
  BY ImagesAssumption DEF Init, Filled
<1>3. QED
  BY <1>1, <1>2, IdleTaskType DEF Init, TypeInv, TypeOK, IdleTask, Slots

\* Whatever transports run and whatever fails, the variables keep their types:
\* no handler writes beyond its slot or selects, or saves, something else.
THEOREM TypeCorrect == Spec => []TypeOK
<1>1. TypeInv => TypeOK
  BY DEF TypeInv
<1>2. QED
  BY <1>1, TypeInit, TypeStep, PTL DEF Spec

-----------------------------------------------------------------------------
(* Inv, for a single transport.                                            *)

\* A handler that has not selected its slot yet finds nothing selected.
LEMMA NothingSelected ==
    ASSUME SingleTransport, SelectionLeads, InLoader,
           NEW t \in Tasks, task[t].pc \notin {"save", "restart"}
    PROVE  ~ HasSelection(otadata)
BY DEF SingleTransport, SelectionLeads

\* A handler's step that changes nothing but its own state.
LEMMA TaskOnlyInv ==
    ASSUME SingleTransport, TypeInv, Inv, NEW t \in Tasks,
           ~ HasSelection(otadata), TaskInv(t)',
           UNCHANGED <<slot, otadata, lastSlot, running>>
    PROVE  Inv'
<1>1. \A u \in Tasks : TaskInv(u)'
  BY DEF SingleTransport
<1>2. (SelectionLeads /\ RecordsAgree /\ SelectedIsComplete /\ RememberedIsComplete)'
  BY DEF Inv, SelectionLeads, RecordsAgree, SelectedIsComplete, RememberedIsComplete, Complete
<1>3. QED
  BY <1>1, <1>2 DEF Inv

LEMMA StopInv ==
    ASSUME SingleTransport, TypeInv, Inv, NEW t \in Tasks, Stop(t), InLoader,
           task[t].pc \notin {"save", "restart"},
           UNCHANGED <<slot, otadata, lastSlot, running>>
    PROVE  Inv'
<1>1. ~ HasSelection(otadata)
  BY NothingSelected DEF Inv
<1>2. task'[t].pc = "idle"
  BY DEF Stop, IdleTask, TypeInv, TypeOK
<1>3. TaskInv(t)'
  BY <1>2 DEF TaskInv
<1>4. QED
  BY <1>1, <1>3, TaskOnlyInv

\* A chunk goes where nothing remembered lives.
LEMMA PutChunkInv ==
    ASSUME TypeInv, Inv, NEW t \in Tasks, CanWrite(t), NEW c, PutChunk(t, c),
           UNCHANGED lastSlot
    PROVE  RememberedIsComplete'
<1>1. SUFFICES ASSUME lastSlot # None
               PROVE  Complete(lastSlot)'
  BY DEF RememberedIsComplete
<1>2. lastSlot \in Slots /\ task[t].target = Other(lastSlot)
  BY <1>1 DEF Inv, TaskInv, CanWrite, TypeInv, TypeOK
<1>3. slot'[lastSlot] = slot[lastSlot]
  BY <1>2, OtherType DEF PutChunk, TypeInv, TypeOK
<1>4. QED
  BY <1>1, <1>3 DEF Inv, RememberedIsComplete, Complete

\* After a reset the selected application runs, or the loader does and
\* nothing is selected.
LEMMA ResetInv ==
    ASSUME TypeInv, NEW od \in OtaDatas, Reset(od),
           \A i \in 0..1 : ValidRecord(od[i]) => SlotOf(od[i].seq) = BootPartition(od),
           BootPartition(od) \in Slots => Complete(BootPartition(od))',
           RememberedIsComplete'
    PROVE  Inv'
<1> DEFINE s == BootPartition(od)
<1>1. otadata' = AtReset(od) /\ otadata' \in OtaDatas
  BY AtResetRecords DEF Reset
<1>2. \A i \in 0..1 : ValidRecord(otadata'[i]) => SlotOf(otadata'[i].seq) = s
  BY <1>1, AtResetRecords
<1>3. HasSelection(otadata') => BootPartition(otadata') = s /\ s \in Slots
  BY <1>1, <1>2, AgreedSelection, BootPartitionType
<1>4. ~ HasSelection(otadata') => BootPartition(otadata') = Factory
  BY <1>1, BootPartitionType
<1>5. running' = BootPartition(otadata')
  <2>1. CASE HasSelection(otadata')
    BY <1>3, <2>1 DEF Reset, BootChoice
  <2>2. CASE ~ HasSelection(otadata')
    BY <1>4, <2>2, FactoryIsNoSlot DEF Reset, BootChoice, Factory
  <2>3. QED
    BY <2>1, <2>2
<1>6. SelectionLeads'
  BY <1>3, <1>5, FactoryIsNoSlot DEF SelectionLeads
<1>7. RecordsAgree'
  BY <1>2, <1>3 DEF RecordsAgree, HasSelection
<1>8. SelectedIsComplete'
  BY <1>3, <1>4, FactoryIsNoSlot DEF SelectedIsComplete
<1>9. ASSUME NEW t \in Tasks
      PROVE  TaskInv(t)'
  <2>1. task'[t].pc = "idle"
    BY DEF Reset, IdleTask
  <2>2. QED
    BY <2>1 DEF TaskInv
<1>10. QED
  BY <1>5, <1>6, <1>7, <1>8, <1>9 DEF Inv

LEMMA InvInit == Init => Inv
<1> SUFFICES ASSUME Init PROVE Inv
  OBVIOUS
<1>1. \A t \in Tasks : TaskInv(t)
  BY DEF Init, IdleTask, TaskInv
<1>2. RememberedIsComplete
  BY DEF Init, RememberedIsComplete
<1>3. CASE ~ Migrated
  <2>1. ~ HasSelection(otadata) /\ otadata \in OtaDatas /\ InLoader
    BY <1>3, AllErasedSelectsNothing DEF Init
  <2>2. QED
    BY <1>1, <1>2, <2>1, BootPartitionType, FactoryIsNoSlot
    DEF Inv, SelectionLeads, RecordsAgree, SelectedIsComplete, HasSelection
<1>4. CASE Migrated
  <2>1. otadata \in OtaDatas
    BY TypeInit DEF TypeInv, TypeOK
  <2>2. /\ ValidRecord(otadata[0])
        /\ otadata[0].seq = 1
        /\ ~ ValidRecord(otadata[1])
    BY <1>4 DEF Init, AllErased, Erased, ValidRecord
  <2>3. SlotOf(1) = "ota_0" /\ "ota_0" \in Slots
    BY DEF SlotOf, Slots
  <2>4. BootPartition(otadata) = "ota_0"
    BY <2>2, <2>3 DEF BootPartition, ActiveRecord, HasSelection
  <2>5. Complete("ota_0")
    BY <1>4, <2>3, ImagesAssumption DEF Init, Complete
  <2>6. running = "ota_0"
    BY <1>4 DEF Init
  <2>7. RecordsAgree
    BY <2>2, <2>3, <2>4 DEF RecordsAgree
  <2>8. QED
    BY <1>1, <1>2, <2>3, <2>4, <2>5, <2>6, <2>7, FactoryIsNoSlot
    DEF Inv, SelectionLeads, SelectedIsComplete
<1>5. QED
  BY <1>3, <1>4

LEMMA InvStep ==
    ASSUME SingleTransport, TypeInv, Inv, [Next]_vars
    PROVE  Inv'
<1>1. ASSUME NEW t \in Tasks, BeginUpdate(t)
      PROVE  Inv'
  <2>1. ~ HasSelection(otadata)
    BY <1>1, NothingSelected DEF BeginUpdate, Inv
  <2>2. Target \in Slots /\ (lastSlot # None => Target = Other(lastSlot))
    BY <2>1, TargetType, BootPartitionType, FactoryIsNoSlot DEF Target, TypeInv, TypeOK
  <2>3. /\ task'[t].pc = "recv"
        /\ task'[t].target = Target
        /\ task'[t].written = 0
    BY <1>1 DEF BeginUpdate, TypeInv, TypeOK
  <2>4. TaskInv(t)'
    BY <1>1, <2>2, <2>3, NAssumption DEF BeginUpdate, TaskInv
  <2>5. QED
    BY <1>1, <2>1, <2>4, TaskOnlyInv DEF BeginUpdate
<1>2. ASSUME NEW t \in Tasks, AbortRecv(t) \/ RejectMagic(t) \/ EndFails(t) \/ SetBootFails(t)
      PROVE  Inv'
  BY <1>2, StopInv DEF AbortRecv, RejectMagic, EndFails, SetBootFails
<1>3. ASSUME NEW t \in Tasks, CanWrite(t), NEW c, PutChunk(t, c),
             UNCHANGED <<otadata, lastSlot, running>>, TaskInv(t)'
      PROVE  Inv'
  <2>1. ~ HasSelection(otadata)
    BY <1>3, NothingSelected DEF CanWrite, Inv
  <2>2. RememberedIsComplete'
    BY <1>3, PutChunkInv
  <2>3. SelectedIsComplete'
    BY <1>3, <2>1, BootPartitionType, FactoryIsNoSlot DEF SelectedIsComplete, TypeInv, TypeOK
  <2>4. \A u \in Tasks : TaskInv(u)'
    BY <1>3 DEF SingleTransport
  <2>5. QED
    BY <1>3, <2>1, <2>2, <2>3, <2>4 DEF Inv, SelectionLeads, RecordsAgree
<1>4. ASSUME NEW t \in Tasks, Receive(t)
      PROVE  Inv'
  <2>1. TaskInv(t)
    BY DEF Inv
  <2>2. /\ task'[t].pc \in {"recv", "end"}
        /\ task'[t].target = task[t].target
        /\ task'[t].written = task[t].written + 1
        /\ task'[t].pc = "recv" => task[t].written + 1 # N
    BY <1>4 DEF Receive, TypeInv, TypeOK, TaskStates
  <2>3. task'[t].pc = "recv" => task'[t].written < N
    BY <1>4, TypeStep DEF TypeInv, Next, Step, Write
  <2>4. TaskInv(t)'
    BY <1>4, <2>1, <2>2, <2>3 DEF TaskInv, Receive, CanWrite
  <2>5. QED
    BY <1>3, <1>4, <2>4 DEF Receive
<1>5. ASSUME NEW t \in Tasks, WriteFails(t)
      PROVE  Inv'
  <2>1. task'[t].pc = "idle"
    BY <1>5 DEF WriteFails, Stop, IdleTask, TypeInv, TypeOK
  <2>2. TaskInv(t)'
    BY <2>1 DEF TaskInv
  <2>3. QED
    BY <1>3, <1>5, <2>2 DEF WriteFails
<1>6. ASSUME NEW t \in Tasks, EndUpdate(t)
      PROVE  Inv'
  <2>1. ~ HasSelection(otadata)
    BY <1>6, NothingSelected DEF EndUpdate, Inv
  <2>2. task'[t].pc = "setboot" /\ task'[t].target = task[t].target
    BY <1>6 DEF EndUpdate, TypeInv, TypeOK, TaskStates
  <2>3. TaskInv(t)'
    BY <1>6, <2>2 DEF Inv, TaskInv, EndUpdate
  <2>4. QED
    BY <1>6, <2>1, <2>3, TaskOnlyInv DEF EndUpdate
<1>7. ASSUME NEW t \in Tasks, Resume(t)
      PROVE  Inv'
  <2>1. ~ HasSelection(otadata)
    BY <1>7, NothingSelected DEF Resume, Inv
  <2>2. task'[t].pc = "setboot" /\ task'[t].target = ResumeSlot
    BY <1>7 DEF Resume, TypeInv, TypeOK, TaskStates
  <2>3. TaskInv(t)'
    BY <1>7, <2>2, TargetType DEF Resume, TaskInv, TypeInv
  <2>4. QED
    BY <1>7, <2>1, <2>3, TaskOnlyInv DEF Resume
<1>8. ASSUME NEW t \in Tasks, SetBoot(t)
      PROVE  Inv'
  <2>1. ~ HasSelection(otadata)
    BY <1>8, NothingSelected DEF SetBoot, Inv
  <2>2. task[t].target \in Slots
    BY <1>8 DEF Inv, TaskInv, SetBoot
  <2>3. /\ otadata' \in OtaDatas
        /\ HasSelection(otadata')
        /\ \A i \in 0..1 : ValidRecord(otadata'[i]) => SlotOf(otadata'[i].seq) = task[t].target
    BY <1>8, <2>1, <2>2, FirstSelection DEF SetBoot, TypeInv, TypeOK
  <2>4. BootPartition(otadata') = task[t].target
    BY <2>3, AgreedSelection
  <2>5. task'[t].pc = "save" /\ task'[t].target = task[t].target
    BY <1>8 DEF SetBoot, TypeInv, TypeOK, TaskStates
  <2>6. SelectionLeads' /\ RecordsAgree'
    BY <2>3, <2>4, <2>5 DEF SelectionLeads, RecordsAgree
  <2>7. SelectedIsComplete' /\ RememberedIsComplete'
    BY <1>8, <2>4 DEF SelectedIsComplete, RememberedIsComplete, Inv, SetBoot, Complete
  <2>8. TaskInv(t)'
    BY <1>8, <2>2, <2>4, <2>5 DEF TaskInv, SetBoot
  <2>9. QED
    BY <1>8, <2>6, <2>7, <2>8 DEF Inv, SetBoot, SingleTransport
<1>9. ASSUME NEW t \in Tasks, SaveLast(t)
      PROVE  Inv'
  <2>1. task'[t].pc = "restart" /\ task'[t].target = task[t].target
    BY <1>9 DEF SaveLast, TypeInv, TypeOK, TaskStates
  <2>2. TaskInv(t)'
    BY <1>9, <2>1 DEF Inv, TaskInv, SaveLast
  <2>3. SelectionLeads' /\ RecordsAgree' /\ SelectedIsComplete'
    BY <1>9, <2>1 DEF Inv, SelectionLeads, RecordsAgree, SelectedIsComplete, SaveLast, Complete
  <2>4. RememberedIsComplete'
    BY <1>9 DEF Inv, TaskInv, RememberedIsComplete, SelectedIsComplete, SaveLast, Complete
  <2>5. QED
    BY <1>9, <2>2, <2>3, <2>4 DEF Inv, SaveLast, SingleTransport
<1>10. ASSUME NEW od, od = otadata, UNCHANGED slot, Reset(od)
       PROVE  Inv'
  <2>1. SelectedIsComplete /\ RememberedIsComplete /\ RecordsAgree
    BY DEF Inv
  <2>2. RememberedIsComplete'
    BY <1>10, <2>1 DEF RememberedIsComplete, Complete, Reset, InitNvs
  <2>3. BootPartition(od) \in Slots => Complete(BootPartition(od))'
    BY <1>10, <2>1 DEF SelectedIsComplete, Complete
  <2>4. QED
    BY <1>10, <2>1, <2>2, <2>3, ResetInv DEF RecordsAgree, TypeInv, TypeOK
<1>11. ASSUME NEW od \in OtaDatas, ~ HasSelection(od), Reset(od), RememberedIsComplete'
       PROVE  Inv'
  BY <1>11, ResetInv, BootPartitionType, FactoryIsNoSlot DEF HasSelection
<1>12. ASSUME NEW od \in OtaDatas, ~ HasSelection(od), Reset(od), UNCHANGED slot
       PROVE  Inv'
  BY <1>11, <1>12 DEF Inv, RememberedIsComplete, Complete, Reset, InitNvs
<1>13. CASE PowerLoss
  <2>1. CASE UNCHANGED slot /\ Reset(otadata)
    BY <1>10, <2>1
  <2>2. ASSUME NEW t \in Tasks, CanWrite(t), PutChunk(t, Blank), Reset(otadata)
        PROVE  Inv'
    <3>1. ~ HasSelection(otadata)
      BY <2>2, NothingSelected DEF CanWrite, Inv
    <3>2. RememberedIsComplete'
      BY <2>2, PutChunkInv DEF Reset, InitNvs, RememberedIsComplete
    <3>3. QED
      BY <1>11, <2>2, <3>1, <3>2 DEF TypeInv, TypeOK
  <2>3. ASSUME NEW t \in Tasks, At(t, "setboot"), UNCHANGED slot,
               Reset(TornSelect(otadata))
        PROVE  Inv'
    <3>1. ~ HasSelection(otadata)
      BY <2>3, NothingSelected DEF Inv
    <3>2. QED
      BY <1>12, <2>3, <3>1, TornFirstSelection DEF TypeInv, TypeOK
  <2>4. QED
    BY <1>13, <2>1, <2>2, <2>3 DEF PowerLoss
<1>14. CASE AppConfirm
  <2>1. HasSelection(otadata) /\ BootPartition(otadata) = running
    BY <1>14, BootPartitionType, FactoryIsNoSlot DEF AppConfirm, Inv, TypeInv, TypeOK
  <2>2. /\ otadata' \in OtaDatas
        /\ HasSelection(otadata')
        /\ \A i \in 0..1 : ValidRecord(otadata'[i]) => SlotOf(otadata'[i].seq) = running
    BY <1>14, <2>1, MarkValidRecords DEF AppConfirm, Inv, RecordsAgree, TypeInv, TypeOK
  <2>3. BootPartition(otadata') = running
    BY <2>2, AgreedSelection
  <2>4. SelectionLeads' /\ RecordsAgree'
    BY <1>14, <2>2, <2>3, FactoryIsNoSlot DEF SelectionLeads, RecordsAgree, AppConfirm
  <2>5. SelectedIsComplete' /\ RememberedIsComplete'
    BY <1>14, <2>1, <2>3
    DEF Inv, SelectedIsComplete, RememberedIsComplete, AppConfirm, Complete
  <2>6. \A t \in Tasks : TaskInv(t)'
    BY <1>14, <2>1, <2>3 DEF Inv, TaskInv, AppConfirm
  <2>7. QED
    BY <1>14, <2>3, <2>4, <2>5, <2>6 DEF Inv, AppConfirm
<1>15. CASE AppCrash
  BY <1>10, <1>15 DEF AppCrash
<1>16. CASE Tier1
  BY <1>12, <1>16, AllErasedSelectsNothing DEF Tier1
<1>17. CASE UNCHANGED vars
  <2>1. (SelectionLeads /\ RecordsAgree /\ SelectedIsComplete /\ RememberedIsComplete)'
    BY <1>17 DEF vars, Inv, SelectionLeads, RecordsAgree, SelectedIsComplete,
                 RememberedIsComplete, Complete
  <2>2. \A t \in Tasks : TaskInv(t)'
    BY <1>17 DEF vars, Inv, TaskInv
  <2>3. QED
    BY <1>17, <2>1, <2>2 DEF vars, Inv
<1>18. ASSUME NEW t \in Tasks, Step(t)
       PROVE  Inv'
  BY <1>1, <1>2, <1>4, <1>5, <1>6, <1>7, <1>8, <1>9, <1>10, <1>18
  DEF Step, Proceed, Write, Restart
<1>19. QED
  BY <1>13, <1>14, <1>15, <1>16, <1>17, <1>18 DEF Next

\* One transport: handlers write only where nothing selected or remembered
\* lives, through every fault, reset and loss of power.
THEOREM InvAlways ==
    ASSUME SingleTransport
    PROVE  Spec => []TypeInv /\ []Inv
<1>1. Init => TypeInv /\ Inv
  BY TypeInit, InvInit
<1>2. TypeInv /\ Inv /\ [Next]_vars => (TypeInv /\ Inv)'
  BY TypeStep, InvStep
<1>3. QED
  BY <1>1, <1>2, PTL DEF Spec

\* One transport: whatever fails, and wherever the power goes, otadata never
\* selects a slot that does not hold a complete image.
THEOREM SelectionIsSafe ==
    ASSUME SingleTransport
    PROVE  Spec => []SelectedIsComplete
<1>1. Inv => SelectedIsComplete
  BY DEF Inv
<1>2. QED
  BY <1>1, InvAlways, PTL

\* One transport: whatever fails, the slot remembered in NVS stays resumable.
THEOREM MemoryIsSafe ==
    ASSUME SingleTransport
    PROVE  Spec => []RememberedIsComplete
<1>1. Inv => RememberedIsComplete
  BY DEF Inv
<1>2. QED
  BY <1>1, InvAlways, PTL

-----------------------------------------------------------------------------
(* LastInv, when last_slot is never lost.                                  *)

MemoryKept == ~ Migrated /\ Faults \subseteq {"power"}

LEMMA LastInit ==
    ASSUME MemoryKept
    PROVE  Init => LastInv
<1> SUFFICES ASSUME Init PROVE LastInv
  OBVIOUS
<1>1. InLoader /\ ~ HasSelection(otadata) /\ lastRun = None /\ lastSlot = None
  BY AllErasedSelectsNothing DEF MemoryKept, Init
<1>2. \A t \in Tasks : task[t].pc # "restart"
  BY DEF Init, IdleTask
<1>3. QED
  BY <1>1, <1>2 DEF LastInv, HasSelection

\* A reset keeps it when what it finds selected, if it keeps that selected, is
\* what is remembered.
LEMMA LastReset ==
    ASSUME MemoryKept, TypeInv', Inv', NEW od \in OtaDatas, Reset(od),
           HasSelection(AtReset(od)) => lastSlot = BootPartition(AtReset(od)),
           ~ HasSelection(AtReset(od)) => lastSlot = lastRun
    PROVE  LastInv'
<1>1. otadata' = AtReset(od) /\ lastSlot' = lastSlot
  BY DEF MemoryKept, Reset, InitNvs
<1>2. \A t \in Tasks : task'[t].pc = "idle"
  BY DEF Reset, IdleTask
<1>3. InLoader' => ~ HasSelection(otadata')
  BY <1>2 DEF Inv, SelectionLeads
<1>4. ~ InLoader' => /\ running' = BootPartition(otadata')
                     /\ running' \in Slots
                     /\ HasSelection(otadata')
  BY BootPartitionType, FactoryIsNoSlot DEF Inv, TypeInv, TypeOK
<1>5. ~ InLoader' => lastRun' = running' /\ lastSlot' = running'
  BY <1>1, <1>4 DEF Reset
<1>6. InLoader' => lastSlot' = lastRun'
  BY <1>1, <1>3, FactoryIsNoSlot DEF Reset
<1>7. InLoader' => \A i \in 0..1 : ~ ValidRecord(otadata'[i])
  BY <1>3 DEF HasSelection
<1>8. QED
  BY <1>2, <1>5, <1>6, <1>7 DEF LastInv

\* What a reset finds, if no handler is about to save: the selection
\* remembered, or none that lasts.
LEMMA LastResetAsIs ==
    ASSUME MemoryKept, TypeInv, TypeInv', Inv, Inv', LastInv, Reset(otadata),
           \A t \in Tasks : InLoader => task[t].pc # "save"
    PROVE  LastInv'
<1>1. otadata \in OtaDatas /\ AtReset(otadata) \in OtaDatas
  BY AtResetRecords DEF TypeInv, TypeOK
<1>2. HasSelection(AtReset(otadata)) =>
        HasSelection(otadata) /\ BootPartition(AtReset(otadata)) = BootPartition(otadata)
  <2>1. \A i \in 0..1 : ValidRecord(AtReset(otadata)[i]) =>
          /\ ValidRecord(otadata[i])
          /\ SlotOf(AtReset(otadata)[i].seq) = BootPartition(otadata)
    BY <1>1, AtResetRecords DEF Inv, RecordsAgree
  <2>2. QED
    BY <1>1, <2>1, AgreedSelection DEF HasSelection
<1>3. CASE ~ InLoader
  BY <1>1, <1>2, <1>3, LastReset DEF LastInv, Inv
<1>4. CASE InLoader /\ ~ HasSelection(otadata)
  BY <1>1, <1>2, <1>4, LastReset DEF LastInv
<1>5. CASE InLoader /\ HasSelection(otadata)
  <2>1. HasSelection(AtReset(otadata))
    BY <1>1, <1>5, SelectionSurvives DEF LastInv
  <2>2. lastSlot = BootPartition(otadata)
    BY <1>5 DEF Inv, SelectionLeads, LastInv
  <2>3. QED
    BY <1>1, <1>2, <2>1, <2>2, LastReset
<1>6. QED
  BY <1>3, <1>4, <1>5

\* A reset that finds nothing selected.
LEMMA LastResetNothing ==
    ASSUME MemoryKept, TypeInv', Inv', NEW od \in OtaDatas, Reset(od), ~ HasSelection(od),
           lastSlot = lastRun
    PROVE  LastInv'
<1>1. ~ HasSelection(AtReset(od))
  BY AtResetRecords DEF HasSelection
<1>2. QED
  BY <1>1, LastReset

LEMMA LastStep ==
    ASSUME SingleTransport, MemoryKept, TypeInv, TypeInv', Inv, Inv', LastInv, [Next]_vars
    PROVE  LastInv'
<1>1. ASSUME UNCHANGED <<otadata, lastSlot, running, lastRun>>,
             \A t \in Tasks : task'[t].pc = "restart" => task[t].pc = "restart"
      PROVE  LastInv'
  BY <1>1 DEF LastInv
<1>2. ASSUME NEW t \in Tasks,
             \/ BeginUpdate(t) \/ AbortRecv(t) \/ RejectMagic(t) \/ Write(t)
             \/ EndUpdate(t) \/ EndFails(t) \/ Resume(t) \/ SetBootFails(t)
      PROVE  LastInv'
  <2>1. UNCHANGED <<otadata, lastSlot, running, lastRun>>
    BY <1>2 DEF BeginUpdate, AbortRecv, RejectMagic, Write, Receive, WriteFails,
                EndUpdate, EndFails, Resume, SetBootFails
  <2>2. \A u \in Tasks : task'[u].pc = "restart" => task[u].pc = "restart"
    BY <1>2 DEF BeginUpdate, AbortRecv, RejectMagic, Write, Receive, WriteFails,
                EndUpdate, EndFails, Resume, SetBootFails, Stop, IdleTask,
                TypeInv, TypeOK, TaskStates
  <2>3. QED
    BY <1>1, <2>1, <2>2
<1>3. ASSUME NEW t \in Tasks, SetBoot(t)
      PROVE  LastInv'
  <2>1. ~ HasSelection(otadata) /\ task[t].target \in Slots
    BY <1>3, NothingSelected DEF SetBoot, Inv, TaskInv
  <2>2. /\ HasSelection(otadata')
        /\ \A i \in 0..1 : ValidRecord(otadata'[i]) => otadata'[i].state = "new"
    BY <1>3, <2>1, FirstSelection DEF SetBoot, TypeInv, TypeOK
  <2>3. \A u \in Tasks : task'[u].pc # "restart"
    BY <1>3 DEF SetBoot, SingleTransport, TypeInv, TypeOK, TaskStates
  <2>4. QED
    BY <1>3, <2>2, <2>3 DEF LastInv, SetBoot
<1>4. ASSUME NEW t \in Tasks, SaveLast(t)
      PROVE  LastInv'
  <2>1. lastSlot' = task[t].target /\ task[t].target = BootPartition(otadata)
    BY <1>4 DEF SaveLast, MemoryKept, Inv, TaskInv
  <2>2. BootPartition(otadata) \in Slots
    BY <1>4, <2>1 DEF SaveLast, Inv, TaskInv
  <2>3. HasSelection(otadata)
    BY <2>2, BootPartitionType, FactoryIsNoSlot DEF TypeInv, TypeOK
  <2>4. QED
    BY <1>4, <2>1, <2>3 DEF LastInv, SaveLast
<1>5. ASSUME Reset(otadata), \A t \in Tasks : InLoader => task[t].pc # "save"
      PROVE  LastInv'
  BY <1>5, LastResetAsIs
<1>6. ASSUME NEW t \in Tasks, Restart(t)
      PROVE  LastInv'
  BY <1>5, <1>6 DEF Restart, SingleTransport
<1>7. CASE PowerLoss
  <2>1. \A t \in Tasks : InLoader => task[t].pc # "save"
    BY <1>7 DEF PowerLoss, MemoryKept
  <2>2. CASE Reset(otadata)
    BY <1>5, <2>1, <2>2
  <2>3. ASSUME NEW t \in Tasks, At(t, "setboot"), Reset(TornSelect(otadata))
        PROVE  LastInv'
    <3>1. ~ HasSelection(otadata) /\ otadata \in OtaDatas
      BY <2>3, NothingSelected DEF Inv, TypeInv, TypeOK
    <3>2. lastSlot = lastRun
      BY <2>3, <3>1 DEF LastInv
    <3>3. QED
      BY <2>3, <3>1, <3>2, TornFirstSelection, LastResetNothing
  <2>4. QED
    BY <1>7, <2>2, <2>3 DEF PowerLoss
<1>8. CASE AppConfirm
  <2>1. ~ InLoader /\ running' = running /\ lastRun' = lastRun /\ lastSlot' = lastSlot
    BY <1>8, FactoryIsNoSlot DEF AppConfirm
  <2>2. \A t \in Tasks : task'[t].pc # "restart"
    BY <1>8, <2>1 DEF AppConfirm, Inv, TaskInv
  <2>3. QED
    BY <2>1, <2>2 DEF LastInv
<1>9. CASE AppCrash
  BY <1>5, <1>9, FactoryIsNoSlot DEF AppCrash
<1>10. CASE Tier1
  <2>1. lastSlot = lastRun
    BY <1>10, FactoryIsNoSlot DEF Tier1, LastInv
  <2>2. QED
    BY <1>10, <2>1, AllErasedSelectsNothing, LastResetNothing DEF Tier1
<1>11. CASE UNCHANGED vars
  BY <1>1, <1>11 DEF vars
<1>12. QED
  BY <1>2, <1>3, <1>4, <1>6, <1>7, <1>8, <1>9, <1>10, <1>11 DEF Next, Step, Proceed

\* One transport, a board that never had an application from elsewhere, and no
\* loss of last_slot: last_slot is the slot of the last run, but between a
\* selection and the commit that follows it.
THEOREM LastSlotFollows ==
    ASSUME SingleTransport, MemoryKept
    PROVE  Spec => []LastInv
<1>1. Init => LastInv
  BY LastInit
<1>2. TypeInv /\ TypeInv' /\ Inv /\ Inv' /\ LastInv /\ [Next]_vars => LastInv'
  BY LastStep
<1>3. QED
  BY <1>1, <1>2, InvAlways, PTL DEF Spec

\* On such a board, back in the loader, /resume offers the application that
\* ran last, and /update overwrites the other one.
THEOREM ResumeIsRight ==
    ASSUME SingleTransport, MemoryKept
    PROVE  Spec => []ResumeIsLastRun
<1>1. TypeInv /\ Inv /\ LastInv => ResumeIsLastRun
  <2> SUFFICES ASSUME TypeInv, Inv, LastInv, InLoader, Idle, lastRun # None
               PROVE  ResumeSlot = lastRun
    BY DEF ResumeIsLastRun
  <2>1. ~ HasSelection(otadata)
    BY DEF Inv, SelectionLeads, Idle
  <2>2. BootPartition(otadata) = Factory /\ lastSlot = lastRun /\ lastSlot \in Slots
    BY <2>1, BootPartitionType DEF LastInv, TypeInv, TypeOK
  <2>3. Target = Other(lastSlot)
    BY <2>2, FactoryIsNoSlot DEF Target
  <2>4. QED
    BY <2>2, <2>3, OtherType DEF ResumeSlot
<1>2. QED
  BY <1>1, InvAlways, LastSlotFollows, PTL
=============================================================================
