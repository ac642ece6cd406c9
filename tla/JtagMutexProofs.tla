--------------------------- MODULE JtagMutexProofs ---------------------------
(***************************************************************************)
(* Proofs about JtagMutex, for any transports and any mutexes.             *)
(***************************************************************************)
EXTENDS JtagMutex, TLAPS

LEMMA InitInv == Init => Inv
<1> SUFFICES ASSUME Init PROVE Inv
  OBVIOUS
<1> USE DEF Init, IdleTask, None
<1>1. TypeOK
  BY DEF TypeOK
<1>2. HoldsMine
  BY DEF HoldsMine, Using
<1>3. MadeMine
  BY DEF MadeMine
<1>4. LockNotLost
  BY DEF LockNotLost
<1> QED BY <1>1, <1>2, <1>3, <1>4 DEF Inv

LEMMA NextInv == Inv /\ [Next]_vars => Inv'
<1> SUFFICES ASSUME Inv, [Next]_vars
             PROVE  Inv'
  OBVIOUS
<1> USE NoneAssumption DEF Inv, TypeOK, None
<1>1. ASSUME NEW t \in Tasks, Request(t) PROVE Inv'
  BY <1>1 DEF Request, At, Goto, HoldsMine, MadeMine, LockNotLost, Using
<1>2. ASSUME NEW t \in Tasks, Check(t) PROVE Inv'
  BY <1>2 DEF Check, At, Goto, HoldsMine, MadeMine, LockNotLost, Using
<1>3. ASSUME NEW t \in Tasks, Create(t) PROVE Inv'
  <2>1. PICK h \in Handles \ made : made' = made \cup {h} /\ mutex' = h
    BY <1>3 DEF Create
  <2>2. TypeOK'
    BY <1>3, <2>1 DEF Create, At, Goto
  <2>3. HoldsMine' /\ MadeMine'
    BY <1>3, <2>1 DEF Create, At, Goto, HoldsMine, MadeMine, Using
  <2>4. LockNotLost'
    \* Nobody has taken the new mutex.
    BY <1>3, <2>1 DEF Create, MadeMine, LockNotLost
  <2> QED BY <2>2, <2>3, <2>4
<1>4. ASSUME NEW t \in Tasks, Fetch(t) PROVE Inv'
  BY <1>4 DEF Fetch, At, HoldsMine, MadeMine, LockNotLost, Using
<1>5. ASSUME NEW t \in Tasks, Take(t) PROVE Inv'
  <2>1. TypeOK'
    BY <1>5 DEF Take, At, Goto
  <2>2. task[t].mine \in made /\ made \subseteq Handles
    BY <1>5 DEF Take, At, MadeMine
  <2>3. HoldsMine'
    <3> SUFFICES ASSUME NEW u \in Tasks, Using(u)'
                 PROVE  holder'[task'[u].mine] = u
      BY DEF HoldsMine
    <3>1. CASE u = t
      BY <1>5, <2>2, <3>1 DEF Take, Goto
    <3>2. CASE u # t
      BY <1>5, <2>2, <3>2 DEF Take, At, Goto, HoldsMine, MadeMine, Using
    <3> QED BY <3>1, <3>2
  <2>4. MadeMine'
    BY <1>5, <2>2 DEF Take, At, Goto, MadeMine
  <2>5. LockNotLost'
    BY <1>5, <2>2 DEF Take, At, Goto, LockNotLost, HoldsMine, Using
  <2> QED BY <2>1, <2>3, <2>4, <2>5
<1>6. ASSUME NEW t \in Tasks, TakeTimesOut(t) PROVE Inv'
  BY <1>6 DEF TakeTimesOut, At, IdleTask, HoldsMine, MadeMine, LockNotLost, Using
<1>7. ASSUME NEW t \in Tasks, CheckInit(t) PROVE Inv'
  BY <1>7 DEF CheckInit, At, Goto, HoldsMine, MadeMine, LockNotLost, Using
<1>8. ASSUME NEW t \in Tasks, InitPins(t) PROVE Inv'
  BY <1>8 DEF InitPins, At, Goto, HoldsMine, MadeMine, LockNotLost, Using
<1>9. ASSUME NEW t \in Tasks, Unlock(t) PROVE Inv'
  <2>1. TypeOK'
    BY <1>9 DEF Unlock, IdleTask
  <2>2. HoldsMine'
    \* The mutex that is given back is t's, or nobody's.
    BY <1>9 DEF Unlock, At, IdleTask, HoldsMine, MadeMine, Using
  <2>3. MadeMine'
    BY <1>9 DEF Unlock, At, IdleTask, MadeMine
  <2>4. LockNotLost'
    BY <1>9 DEF Unlock, At, MadeMine, LockNotLost
  <2> QED BY <2>1, <2>2, <2>3, <2>4
<1>10. ASSUME NEW t \in Tasks, UnlockAborts(t) PROVE Inv'
  BY <1>10 DEF UnlockAborts, IdleTask, HoldsMine, MadeMine, LockNotLost, Using
<1>11. CASE UNCHANGED vars
  BY <1>11 DEF vars, HoldsMine, MadeMine, LockNotLost, Using
<1> QED
  BY <1>1, <1>2, <1>3, <1>4, <1>5, <1>6, <1>7, <1>8, <1>9, <1>10, <1>11 DEF Next

\* Whoever is past the lock holds the mutex it took, however many mutexes the
\* first requests made.
THEOREM InvAlways == Spec => []Inv
<1> QED BY InitInv, NextInv, PTL DEF Spec

\* JTAG has one user at a time as long as one mutex was made: the unprotected
\* creation in ensure_jtag_mutex is the only way two can meet.
THEOREM LockExcludes == Spec => []OneMutexOneUser
<1>1. Inv => OneMutexOneUser
  BY DEF Inv, HoldsMine, MadeMine, OneMutexOneUser, MutualExclusion, Using
<1> QED BY <1>1, InvAlways, PTL

\* The mutex in use is never left behind taken, race or not.
THEOREM LockStaysUsable == Spec => []LockNotLost
<1>1. Inv => LockNotLost
  BY DEF Inv
<1> QED BY <1>1, InvAlways, PTL
=============================================================================
