---------------------------- MODULE AppStoreProofs ----------------------------
(***************************************************************************)
(* AppUpdate, with one transport, implements AppStore.                     *)
(***************************************************************************)
EXTENDS AppUpdateProofs

USE DEF At, InLoader

\* The abstract content of the slots, as in the instance Store.
Content == [s \in Slots |-> IF Complete(s) THEN AppIn(s) ELSE None]

LEMMA ContentOfComplete ==
    ASSUME NEW s \in Slots
    PROVE  /\ Content[s] \in Bootable \cup {None}
           /\ Complete(s) => Content[s] # None
<1>1. ASSUME Complete(s)
      PROVE  AppIn(s) \in Bootable /\ AppIn(s) # None
  <2>1. PICK img \in Bootable : slot[s] = Filled(img)
    BY <1>1 DEF Complete
  <2>2. AppIn(s) = img
    BY <2>1, NAssumption DEF AppIn, Filled
  <2>3. QED
    BY <2>1, <2>2, ImagesAssumption DEF None
<1>2. QED
  BY <1>1 DEF Content

LEMMA ContentType == \A s \in Slots : Content[s] \in Bootable \cup {None}
BY ContentOfComplete

LEMMA ContentUnchanged ==
    ASSUME UNCHANGED slot
    PROVE  Content' = Content
BY DEF Content, Complete, AppIn

\* Writing a chunk changes one slot; a blank chunk leaves it incomplete.
LEMMA ContentWritten ==
    ASSUME TypeInv, NEW t \in Tasks, NEW p \in Slots, p = task[t].target,
           CanWrite(t), NEW c, PutChunk(t, c)
    PROVE  /\ Content' = [Content EXCEPT ![p] = Content'[p]]
           /\ c = Blank => Content'[p] = None
<1>1. \A s \in Slots : s # p => slot'[s] = slot[s]
  BY DEF PutChunk, TypeInv, TypeOK
<1>2. \A s \in Slots : s # p => Content'[s] = Content[s]
  BY <1>1 DEF Content, Complete, AppIn
<1>3. Content' = [Content EXCEPT ![p] = Content'[p]]
  BY <1>2 DEF Content
<1>4. ASSUME c = Blank
      PROVE  ~ \E img \in Bootable : slot'[p] = Filled(img)
  <2>1. task[t] \in TaskStates /\ task[t].written < N
    BY DEF TypeInv, TypeOK, CanWrite
  <2>2. task[t].written + 1 \in 1..N
    BY <2>1, NAssumption DEF TaskStates
  <2>3. slot'[p][task[t].written + 1] = Blank
    BY <1>4, <2>2 DEF PutChunk, TypeInv, TypeOK
  <2>4. QED
    BY <2>2, <2>3, ImagesAssumption DEF Filled, Blank
<1>5. QED
  BY <1>3, <1>4 DEF Content, Complete

-----------------------------------------------------------------------------
LEMMA RefinedInit == Init => Store!Init
<1> SUFFICES ASSUME Init PROVE Store!Init
  OBVIOUS
<1>1. TypeInv /\ Inv
  BY TypeInit, InvInit
<1>2. Content \in [Slots -> Bootable \cup {None}]
  BY ContentOfComplete DEF Content
<1>3. BootPartition(otadata) = running
  <2>1. CASE Migrated
    BY <1>1, <2>1, FactoryIsNoSlot DEF Init, Inv, Slots
  <2>2. CASE ~ Migrated
    BY <2>2, AllErasedSelectsNothing, BootPartitionType DEF Init
  <2>3. QED
    BY <2>1, <2>2
<1>4. BootPartition(otadata) \in Slots \cup {Factory}
  BY <1>1, BootPartitionType DEF TypeInv, TypeOK
<1>5. BootPartition(otadata) \in Slots => Content[BootPartition(otadata)] # None
  BY <1>1, ContentOfComplete DEF Inv, SelectedIsComplete
<1>6. QED
  BY <1>2, <1>3, <1>4, <1>5 DEF Store!Init, Content

\* A reset of the board is a restart of the abstract one.
LEMMA RefinedReset ==
    ASSUME TypeInv, TypeInv', Inv, Inv', NEW od \in OtaDatas, Reset(od),
           BootPartition(AtReset(od)) \in {BootPartition(otadata), Factory},
           \/ Content' = Content
           \/ /\ InLoader
              /\ \E p \in Slots \ {BootPartition(otadata)} :
                   Content' = [Content EXCEPT ![p] = None]
    PROVE  Store!Restart
<1>1. BootPartition(otadata') \in {BootPartition(otadata), Factory}
  BY DEF Reset
<1>2. running' = BootPartition(otadata')
  <2>1. CASE InLoader'
    <3>1. ~ HasSelection(otadata')
      BY <2>1 DEF Reset, IdleTask, Inv, SelectionLeads
    <3>2. QED
      BY <2>1, <3>1, BootPartitionType DEF TypeInv, TypeOK
  <2>2. CASE ~ InLoader'
    BY <2>2 DEF Inv
  <2>3. QED
    BY <2>1, <2>2
<1>3. QED
  BY <1>1, <1>2 DEF Store!Restart, Content

\* When the records agree, a reset keeps the selection or drops it.
LEMMA ResetKeepsOrDrops ==
    ASSUME TypeInv, RecordsAgree
    PROVE  BootPartition(AtReset(otadata)) \in {BootPartition(otadata), Factory}
<1>1. otadata \in OtaDatas /\ AtReset(otadata) \in OtaDatas
  BY AtResetRecords DEF TypeInv, TypeOK
<1>2. \A i \in 0..1 : ValidRecord(AtReset(otadata)[i]) =>
                        SlotOf(AtReset(otadata)[i].seq) = BootPartition(otadata)
  BY <1>1, AtResetRecords DEF RecordsAgree
<1>3. QED
  BY <1>1, <1>2, AgreedSelection, BootPartitionType

LEMMA ResetOfNothing ==
    ASSUME NEW od \in OtaDatas, ~ HasSelection(od)
    PROVE  BootPartition(AtReset(od)) = Factory
<1>1. ~ HasSelection(AtReset(od)) /\ AtReset(od) \in OtaDatas
  BY AtResetRecords DEF HasSelection
<1>2. QED
  BY <1>1, BootPartitionType

LEMMA RefinedStep ==
    ASSUME SingleTransport, TypeInv, TypeInv', Inv, Inv', [Next]_vars
    PROVE  [Store!Next]_Store!vars
<1> USE DEF Store!Next
<1>1. ASSUME UNCHANGED <<slot, otadata, running>>
      PROVE  UNCHANGED Store!vars
  BY <1>1, ContentUnchanged DEF Store!vars, Content
<1>2. ASSUME NEW t \in Tasks,
             \/ BeginUpdate(t) \/ AbortRecv(t) \/ RejectMagic(t) \/ EndUpdate(t)
             \/ EndFails(t) \/ Resume(t) \/ SetBootFails(t) \/ SaveLast(t)
      PROVE  UNCHANGED Store!vars
  BY <1>1, <1>2 DEF BeginUpdate, AbortRecv, RejectMagic, EndUpdate, EndFails, Resume,
                    SetBootFails, SaveLast
<1>3. ASSUME NEW t \in Tasks, CanWrite(t)
      PROVE  \E p \in Slots \ {BootPartition(otadata)} : p = task[t].target
  <2>1. ~ HasSelection(otadata)
    BY <1>3, NothingSelected DEF CanWrite, Inv
  <2>2. task[t].target \in Slots
    BY <1>3 DEF CanWrite, Inv, TaskInv
  <2>3. QED
    BY <2>1, <2>2, BootPartitionType, FactoryIsNoSlot DEF TypeInv, TypeOK
<1>4. ASSUME NEW t \in Tasks, Write(t)
      PROVE  Store!Overwrite
  <2>1. CanWrite(t) /\ \E c : PutChunk(t, c)
    BY <1>4 DEF Write, Receive, WriteFails
  <2>2. PICK p \in Slots \ {BootPartition(otadata)} : p = task[t].target
    BY <1>3, <2>1
  <2>3. Content' = [Content EXCEPT ![p] = Content'[p]]
    BY <2>1, <2>2, ContentWritten
  <2>4. Content'[p] \in Bootable \cup {None}
    <3>1. (\A s \in Slots : Content[s] \in Bootable \cup {None})'
      BY ContentType, PTL
    <3>2. QED
      BY <2>2, <3>1
  <2>5. InLoader /\ UNCHANGED <<otadata, running>>
    BY <1>4 DEF Write, Receive, WriteFails, CanWrite
  <2>6. QED
    BY <2>2, <2>3, <2>4, <2>5 DEF Store!Overwrite, Content
<1>5. ASSUME NEW t \in Tasks, SetBoot(t)
      PROVE  Store!Select
  <2>1. /\ InLoader /\ UNCHANGED <<slot, running>>
        /\ task[t].target \in Slots /\ Complete(task[t].target)
    BY <1>5 DEF SetBoot, Inv, TaskInv
  <2>2. task'[t].pc = "save" /\ task'[t].target = task[t].target
    BY <1>5 DEF SetBoot, TypeInv, TypeOK, TaskStates
  <2>3. BootPartition(otadata') = task[t].target
    BY <2>2 DEF Inv, TaskInv
  <2>4. Content[task[t].target] # None /\ Content' = Content
    BY <2>1, ContentOfComplete, ContentUnchanged
  <2>5. QED
    BY <2>1, <2>3, <2>4 DEF Store!Select, Content
<1>6. CASE AppConfirm
  <2>1. HasSelection(otadata) /\ BootPartition(otadata) = running
    BY <1>6, BootPartitionType, FactoryIsNoSlot DEF AppConfirm, Inv, TypeInv, TypeOK
  <2>2. BootPartition(otadata') = running /\ UNCHANGED <<slot, running>>
    BY <1>6, FactoryIsNoSlot DEF AppConfirm, Inv
  <2>3. QED
    BY <2>1, <2>2, ContentUnchanged DEF Store!vars, Content
<1>7. ASSUME UNCHANGED slot, Reset(otadata)
      PROVE  Store!Restart
  BY <1>7, ContentUnchanged, ResetKeepsOrDrops, RefinedReset DEF Inv, TypeInv, TypeOK
<1>8. ASSUME UNCHANGED slot, NEW od \in OtaDatas, ~ HasSelection(od), Reset(od)
      PROVE  Store!Restart
  BY <1>8, ContentUnchanged, ResetOfNothing, RefinedReset
<1>9. CASE PowerLoss
  <2>1. CASE UNCHANGED slot /\ Reset(otadata)
    BY <1>7, <2>1
  <2>2. ASSUME NEW t \in Tasks, CanWrite(t), PutChunk(t, Blank), Reset(otadata)
        PROVE  Store!Restart
    <3>1. PICK p \in Slots \ {BootPartition(otadata)} : p = task[t].target
      BY <1>3, <2>2
    <3>2. Content' = [Content EXCEPT ![p] = None]
      BY <2>2, <3>1, ContentWritten
    <3>3. QED
      BY <2>2, <3>2, ResetKeepsOrDrops, RefinedReset DEF CanWrite, Inv, TypeInv, TypeOK
  <2>3. ASSUME NEW t \in Tasks, At(t, "setboot"), UNCHANGED slot,
               Reset(TornSelect(otadata))
        PROVE  Store!Restart
    <3>1. ~ HasSelection(otadata)
      BY <2>3, NothingSelected DEF Inv
    <3>2. QED
      BY <1>8, <2>3, <3>1, TornFirstSelection DEF TypeInv, TypeOK
  <2>4. QED
    BY <1>9, <2>1, <2>2, <2>3 DEF PowerLoss
<1>10. ASSUME NEW t \in Tasks, Step(t)
       PROVE  [Store!Next]_Store!vars
  BY <1>2, <1>4, <1>5, <1>7, <1>10 DEF Step, Proceed, Restart
<1>11. CASE AppCrash
  BY <1>7, <1>11 DEF AppCrash
<1>12. CASE Tier1
  BY <1>8, <1>12, AllErasedSelectsNothing DEF Tier1
<1>13. CASE UNCHANGED vars
  BY <1>1, <1>13 DEF vars
<1>14. QED
  BY <1>6, <1>9, <1>10, <1>11, <1>12, <1>13 DEF Next

\* One transport: every behaviour of the loader, with any fault and any loss of
\* power, is one that AppStore allows.
THEOREM Refinement ==
    ASSUME SingleTransport
    PROVE  Spec => ImplementsAppStore
<1>1. Init => Store!Init
  BY RefinedInit
<1>2. TypeInv /\ TypeInv' /\ Inv /\ Inv' /\ [Next]_vars => [Store!Next]_Store!vars
  BY RefinedStep
<1>3. QED
  BY <1>1, <1>2, InvAlways, PTL DEF Spec, Store!Spec, ImplementsAppStore
===============================================================================
