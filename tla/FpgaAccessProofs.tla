--------------------------- MODULE FpgaAccessProofs ---------------------------
(***************************************************************************)
(* Proofs about FpgaAccess, for any size of an image and any number of     *)
(* probes: what the two locks do guarantee, with or without overlap, and   *)
(* what a success means where requests do not overlap.                     *)
(***************************************************************************)
EXTENDS FpgaAccess, TLAPS

USE DEF chips

JtagPcs   == {"begin", "shift", "end"}
FlashPcs  == {"erase", "erasing", "recv", "write", "writing"}
ReinitPcs == {"reinit", "chip", "remove", "add"}

\* The program counter tells which lock a task holds.  A probe in the middle of an
\* update is made with the mutex held.
HoldsJtag(r)  == r.pc \in JtagPcs
HoldsFlash(r) == r.pc \in FlashPcs \/ (r.pc \in ReinitPcs /\ r.back \in {"erasing", "writing"})

LockInv ==
    \A t \in Tasks :
        /\ jtagLock = t <=> HoldsJtag(task[t])
        /\ flashMutex = t <=> HoldsFlash(task[t])

\* A chunk that is to be shifted or written exists.
Counted(r) ==
    /\ r.pc \in {"jtag", "begin"} => r.n = 0
    /\ r.pc \in {"shift", "recv", "write", "writing"} => r.n < N
    /\ r.pc \in ReinitPcs => r.back # None
    /\ r.pc \in ReinitPcs /\ r.back = "writing" => r.n < N

\* The session of the task that shifts is its own, with what it shifted, or gone.
Session(t, r, s) ==
    /\ r.pc \in {"shift", "end"} => s.owner \in {t, None}
    /\ r.pc = "shift" /\ s.owner = t => s.chunks = r.n

IInv ==
    /\ TypeOK
    /\ LockInv
    /\ \A t \in Tasks : Counted(task[t])
    /\ \A t \in Tasks : Session(t, task[t], stream)

LEMMA NoneIsNoTask == None \notin Tasks
BY TasksAssumption DEF None

\* What has to be seen of a step of task t that makes its state r.
LEMMA Preserves ==
    ASSUME IInv, NEW t \in Tasks, NEW r \in TaskStates,
           task' = [task EXCEPT ![t] = r],
           jtagLock' \in {jtagLock, t, None}, jtagLock \in {t, None} \/ jtagLock' = jtagLock,
           jtagLock' = t <=> HoldsJtag(r),
           flashMutex' \in {flashMutex, t, None}, flashMutex \in {t, None} \/ flashMutex' = flashMutex,
           flashMutex' = t <=> HoldsFlash(r),
           stream' \in Streams, stream' \in {stream, Closed} \/ jtagLock = t,
           Counted(r), Session(t, r, stream'),
           ready' \in BOOLEAN, handle' \in BOOLEAN,
           fpga' \in {"blank", "flash", "bridge", "user"}, flash' \in Contents, own' \in {"kept", "changed"}
    PROVE  IInv'
<1>1. /\ task' \in [Tasks -> TaskStates]
      /\ task'[t] = r
      /\ \A u \in Tasks \ {t} : task'[u] = task[u]
  BY DEF IInv, TypeOK
<1>2. TypeOK'
  BY <1>1 DEF IInv, TypeOK
<1>3. LockInv'
  <2> SUFFICES ASSUME NEW u \in Tasks
               PROVE  /\ jtagLock' = u <=> HoldsJtag(task'[u])
                      /\ flashMutex' = u <=> HoldsFlash(task'[u])
    BY DEF LockInv, HoldsJtag, HoldsFlash
  <2>1. CASE u = t
    BY <1>1, <2>1
  <2>2. CASE u # t
    <3>1. /\ jtagLock = u <=> HoldsJtag(task[u])
          /\ flashMutex = u <=> HoldsFlash(task[u])
      BY DEF IInv, LockInv
    <3>2. (jtagLock' = u <=> jtagLock = u) /\ (flashMutex' = u <=> flashMutex = u)
      BY <2>2, NoneIsNoTask
    <3> QED BY <1>1, <2>2, <3>1, <3>2
  <2> QED BY <2>1, <2>2
<1>4. (\A u \in Tasks : Counted(task[u]))'
  BY <1>1 DEF IInv, Counted
<1>5. (\A u \in Tasks : Session(u, task[u], stream))'
  <2> SUFFICES ASSUME NEW u \in Tasks PROVE Session(u, task'[u], stream')
    BY DEF Session
  <2>1. CASE u = t
    BY <1>1, <2>1
  <2>2. CASE u # t /\ stream' = stream
    BY <1>1, <2>2 DEF IInv
  <2>3. CASE u # t /\ stream' = Closed
    BY <1>1, <2>3, NoneIsNoTask DEF Session, Closed
  <2>4. CASE u # t /\ jtagLock = t
    <3>1. ~ HoldsJtag(task[u])
      BY <2>4 DEF IInv, LockInv
    <3> QED BY <1>1, <2>4, <3>1 DEF Session, HoldsJtag, JtagPcs
  <2> QED BY <2>1, <2>2, <2>3, <2>4
<1> QED BY <1>2, <1>3, <1>4, <1>5 DEF IInv

LEMMA InitIInv == Init => IInv
<1> SUFFICES ASSUME Init PROVE IInv
  OBVIOUS
<1> USE NAssumption, AttemptsAssumption, NoneIsNoTask DEF Init
<1>1. TypeOK
  <2>1. stream \in Streams /\ flash \in Contents
    BY DEF Streams, Contents, Closed
  <2>2. 0 \in 0..N /\ 0 \in 0..Attempts - 1
    OBVIOUS
  <2>3. task \in [Tasks -> TaskStates]
    BY <2>2 DEF TaskStates, Resting
  <2> QED BY <2>1, <2>3 DEF TypeOK
<1>2. LockInv
  BY DEF LockInv, HoldsJtag, HoldsFlash, JtagPcs, FlashPcs, ReinitPcs, Resting
<1>3. \A t \in Tasks : Counted(task[t])
  BY DEF Counted, ReinitPcs, Resting
<1>4. \A t \in Tasks : Session(t, task[t], stream)
  BY DEF Session, Resting
<1> QED BY <1>1, <1>2, <1>3, <1>4 DEF IInv

-----------------------------------------------------------------------------
LEMMA TaskFacts ==
    ASSUME IInv, NEW t \in Tasks
    PROVE  /\ task[t] \in TaskStates /\ task \in [Tasks -> TaskStates]
           /\ Counted(task[t]) /\ Session(t, task[t], stream)
           /\ jtagLock = t <=> HoldsJtag(task[t])
           /\ flashMutex = t <=> HoldsFlash(task[t])
           /\ ready \in BOOLEAN /\ handle \in BOOLEAN /\ own \in {"kept", "changed"}
           /\ stream \in Streams /\ flash \in Contents
           /\ fpga \in {"blank", "flash", "bridge", "user"}
BY DEF IInv, TypeOK, LockInv

LEMMA RequestStep ==
    ASSUME IInv, NEW t \in Tasks, NEW op \in Ops, Request(t, op) PROVE IInv'
<1> DEFINE p == CASE op = "sram"             -> "begin"
                  [] op \in {"update", "id"} -> "jtag"
                  [] op = "id_current"       -> "reinit"
           b == IF op = "id_current" THEN "read" ELSE None
           r == [op |-> op, n |-> 0, tries |-> 0, answer |-> None, lost |-> FALSE,
                 pc |-> p, back |-> b]
<1>1. /\ p \in {"begin", "jtag", "reinit"}
      /\ p = "begin" <=> op = "sram"
      /\ p = "reinit" <=> op = "id_current"
      /\ b \in {None, "read"}
      /\ p = "reinit" => b = "read"
  BY OpsAssumption
<1>2. r \in TaskStates
  <2> HIDE DEF p, b
  <2>1. 0 \in 0..N /\ 0 \in 0..Attempts - 1
    BY NAssumption, AttemptsAssumption
  <2> QED BY <1>1, <2>1 DEF TaskStates
<1>3. task' = [task EXCEPT ![t] = r] /\ task[t].pc = "idle"
  BY DEF Request, At
<1>4. /\ UNCHANGED <<flashMutex, ready, handle, flash, own, stream, fpga>>
      /\ jtagLock' = IF op = "sram" THEN t ELSE jtagLock
      /\ op = "sram" => jtagLock = None
  BY DEF Request, flashVars, fpgaVars
<1>5. Counted(r) /\ Session(t, r, stream')
  BY <1>1, NAssumption DEF Counted, Session, ReinitPcs, None
<1>6. (HoldsJtag(r) <=> op = "sram") /\ ~ HoldsFlash(r)
  BY <1>1 DEF HoldsJtag, HoldsFlash, JtagPcs, FlashPcs, ReinitPcs, None
<1>7. jtagLock # t /\ flashMutex # t
  BY <1>3, TaskFacts DEF HoldsJtag, HoldsFlash, JtagPcs, FlashPcs, ReinitPcs
<1> HIDE DEF r
<1> QED BY <1>2, <1>3, <1>4, <1>5, <1>6, <1>7, TaskFacts, Preserves, NoneIsNoTask

-----------------------------------------------------------------------------
(* The steps in a JTAG session: TakeJtag to Settle. *)

LEMMA TakeJtagStep == ASSUME IInv, NEW t \in Tasks, TakeJtag(t) PROVE IInv'
<1> DEFINE r == [task[t] EXCEPT !.pc = "begin"]
<1> USE TaskFacts DEF TakeJtag, At, Goto, flashVars, fpgaVars
<1>1. r \in TaskStates /\ task' = [task EXCEPT ![t] = r]
  BY DEF TaskStates
<1>2. Counted(r) /\ Session(t, r, stream')
  BY <1>1 DEF Counted, Session, ReinitPcs
<1>3. HoldsJtag(r) /\ ~ HoldsFlash(r) /\ ~ HoldsFlash(task[t])
  BY DEF HoldsJtag, HoldsFlash, JtagPcs, FlashPcs, ReinitPcs, TaskStates
<1> QED BY <1>1, <1>2, <1>3, Preserves, NoneIsNoTask

LEMMA AnswerStep ==
    ASSUME IInv, NEW t \in Tasks, NEW a \in {"ok", "error"}, Answer(t, a),
           task[t].pc \notin FlashPcs,
           task[t].pc \in ReinitPcs => task[t].back \notin {"erasing", "writing"},
           jtagLock' = (IF HoldsJtag(task[t]) THEN None ELSE jtagLock),
           flashMutex' = flashMutex, stream' \in {stream, Closed}, stream' \in Streams,
           ready' \in BOOLEAN, handle' \in BOOLEAN,
           fpga' \in {"blank", "flash", "bridge", "user"}, flash' \in Contents, own' \in {"kept", "changed"}
    PROVE  IInv'
<1> DEFINE r == [task[t] EXCEPT !.pc = "idle", !.answer = a]
<1>1. r \in TaskStates /\ task' = [task EXCEPT ![t] = r]
  BY TaskFacts DEF Answer, TaskStates
<1>2. Counted(r) /\ Session(t, r, stream')
  BY <1>1, TaskFacts DEF Counted, Session, ReinitPcs, TaskStates
<1>3. ~ HoldsJtag(r) /\ ~ HoldsFlash(r) /\ ~ HoldsFlash(task[t])
  BY TaskFacts DEF HoldsJtag, HoldsFlash, JtagPcs, FlashPcs, ReinitPcs, TaskStates
<1>4. jtagLock' \in {jtagLock, None} /\ (jtagLock \in {t, None} \/ jtagLock' = jtagLock) /\ jtagLock' # t
  BY TaskFacts, NoneIsNoTask
<1>5. flashMutex' # t
  BY <1>3, TaskFacts
<1> HIDE DEF r
<1> QED BY <1>1, <1>2, <1>3, <1>4, <1>5, Preserves, NoneIsNoTask

LEMMA ClosedType == Closed \in Streams
BY NAssumption DEF Closed, Streams

LEMMA AnsweringSteps ==
    ASSUME IInv, NEW t \in Tasks,
           JtagTimeout(t) \/ SramBeginFails(t) \/ ShiftFails(t) \/ SramEndFails(t) \/ ReadId(t)
    PROVE  IInv'
<1> USE TaskFacts, ClosedType
    DEF At, HoldsJtag, JtagPcs, FlashPcs, ReinitPcs, flashVars, fpgaVars
<1>1. CASE JtagTimeout(t)
  BY <1>1, AnswerStep DEF JtagTimeout
<1>2. CASE SramBeginFails(t)
  BY <1>2, AnswerStep DEF SramBeginFails
<1>3. CASE ShiftFails(t)
  BY <1>3, AnswerStep DEF ShiftFails
<1>4. CASE SramEndFails(t)
  BY <1>4, AnswerStep DEF SramEndFails
<1>5. CASE ReadId(t)
  <2>1. PICK a \in {"ok", "error"} : Answer(t, a)
    BY <1>5, Zenon DEF ReadId
  <2> QED BY <1>5, <2>1, AnswerStep DEF ReadId
<1> QED BY <1>1, <1>2, <1>3, <1>4, <1>5

LEMMA SramBeginStep == ASSUME IInv, NEW t \in Tasks, SramBegin(t) PROVE IInv'
<1> DEFINE r == [task[t] EXCEPT !.pc = "shift"]
<1> USE TaskFacts DEF SramBegin, At, Goto, flashVars
<1>1. r \in TaskStates /\ task' = [task EXCEPT ![t] = r]
  BY DEF TaskStates
<1>2. r.n = 0 /\ r.pc = "shift"
  BY DEF Counted, TaskStates
<1>3. stream' = [owner |-> t, chunks |-> 0] /\ stream' \in Streams
  BY NAssumption DEF Streams
<1>4. Counted(r) /\ Session(t, r, stream')
  BY <1>2, <1>3, NAssumption DEF Counted, Session, ReinitPcs
<1>5. HoldsJtag(r) /\ ~ HoldsFlash(r) /\ ~ HoldsFlash(task[t]) /\ jtagLock = t
  BY <1>2 DEF HoldsJtag, HoldsFlash, JtagPcs, FlashPcs, ReinitPcs
<1> QED BY <1>1, <1>3, <1>4, <1>5, Preserves

LEMMA ShiftStep == ASSUME IInv, NEW t \in Tasks, Shift(t) PROVE IInv'
<1> DEFINE r == [task[t] EXCEPT !.n = @ + 1, !.pc = IF task[t].n + 1 = N THEN "end" ELSE "shift"]
<1>0. /\ task[t].pc = "shift" /\ task[t].n \in 0..N /\ task[t].n < N /\ stream \in Streams
      /\ stream.owner \in {t, None}
      /\ stream.owner = t => stream.chunks = task[t].n
      /\ jtagLock = t
  BY TaskFacts DEF Shift, At, Counted, Session, TaskStates, HoldsJtag, JtagPcs
<1>1. r \in TaskStates /\ task' = [task EXCEPT ![t] = r]
  <2>1. task[t].n + 1 \in 0..N
    BY <1>0, NAssumption
  <2>2. r \in TaskStates
    BY <2>1, TaskFacts DEF TaskStates
  <2> QED BY <2>2, TaskFacts, Zenon DEF Shift
<1>2. r.n = task[t].n + 1 /\ r.pc \in {"shift", "end"} /\ (r.pc = "shift" => r.n < N)
  BY <1>0, TaskFacts, NAssumption DEF TaskStates
<1>3. /\ stream' \in Streams
      /\ stream'.owner = stream.owner
      /\ stream.owner = t => stream'.chunks = stream.chunks + 1
  BY <1>0, NAssumption DEF Shift, Streams
<1>4. Counted(r) /\ Session(t, r, stream')
  BY <1>0, <1>2, <1>3 DEF Counted, Session, ReinitPcs
<1>5. HoldsJtag(r) /\ ~ HoldsFlash(r) /\ ~ HoldsFlash(task[t])
  BY <1>0, <1>2 DEF HoldsJtag, HoldsFlash, JtagPcs, FlashPcs, ReinitPcs
<1>6. UNCHANGED <<jtagLock, flashMutex, ready, handle, flash, own, fpga>>
  BY DEF Shift, flashVars
<1> HIDE DEF r
<1> QED BY <1>0, <1>1, <1>3, <1>4, <1>5, <1>6, TaskFacts, Preserves

LEMMA SramEndStep == ASSUME IInv, NEW t \in Tasks, SramEnd(t) PROVE IInv'
<1>1. /\ task[t].pc = "end" /\ jtagLock = t /\ jtagLock' = None /\ stream' = Closed
      /\ UNCHANGED <<flashMutex, ready, handle, flash, own>>
      /\ fpga' \in {"blank", "flash", "bridge", "user"}
  BY TaskFacts DEF SramEnd, Started, At, flashVars, HoldsJtag, JtagPcs
<1>2. CASE Answer(t, "ok")
  BY <1>1, <1>2, TaskFacts, ClosedType, AnswerStep DEF HoldsJtag, JtagPcs, FlashPcs, ReinitPcs
<1>3. CASE Goto(t, "settle")
  <2> DEFINE r == [task[t] EXCEPT !.pc = "settle"]
  <2>1. r \in TaskStates /\ task' = [task EXCEPT ![t] = r]
    BY <1>3, TaskFacts DEF Goto, TaskStates
  <2>2. Counted(r) /\ Session(t, r, stream')
    BY <2>1, TaskFacts DEF Counted, Session, ReinitPcs, TaskStates
  <2>3. ~ HoldsJtag(r) /\ ~ HoldsFlash(r) /\ ~ HoldsFlash(task[t])
    BY <1>1, TaskFacts DEF HoldsJtag, HoldsFlash, JtagPcs, FlashPcs, ReinitPcs, TaskStates
  <2> QED BY <1>1, <2>1, <2>2, <2>3, TaskFacts, ClosedType, Preserves, NoneIsNoTask
<1> QED BY <1>2, <1>3 DEF SramEnd

-----------------------------------------------------------------------------
(* The steps that leave both locks and the session alone. *)

LEMMA Moves ==
    ASSUME IInv, NEW t \in Tasks, NEW r \in TaskStates,
           task' = [task EXCEPT ![t] = r],
           UNCHANGED <<jtagLock, flashMutex, stream, fpga>>,
           ~ HoldsJtag(r), ~ HoldsJtag(task[t]), HoldsFlash(r) <=> HoldsFlash(task[t]),
           Counted(r), ready' \in BOOLEAN, handle' \in BOOLEAN, flash' \in Contents, own' \in {"kept", "changed"}
    PROVE  IInv'
<1>1. Session(t, r, stream')
  BY DEF Session, HoldsJtag, JtagPcs
<1> QED BY <1>1, TaskFacts, Preserves

LEMMA SettleStep == ASSUME IInv, NEW t \in Tasks, Settle(t) PROVE IInv'
<1> DEFINE r == IF task[t].op = "update" THEN [task[t] EXCEPT !.pc = "reinit", !.back = "lock"]
                ELSE [task[t] EXCEPT !.pc = "read"]
<1>1. task[t].pc = "settle" /\ UNCHANGED <<jtagLock, flashMutex, stream, fpga, ready, handle, flash, own>>
  BY DEF Settle, At, flashVars, fpgaVars
<1>2. r \in TaskStates
  BY TaskFacts DEF TaskStates
<1>3. task' = [task EXCEPT ![t] = r]
  BY TaskFacts DEF Settle
<1>4. /\ ~ HoldsJtag(r) /\ ~ HoldsJtag(task[t]) /\ ~ HoldsFlash(r) /\ ~ HoldsFlash(task[t])
      /\ Counted(r)
  BY <1>1, TaskFacts DEF HoldsJtag, HoldsFlash, JtagPcs, FlashPcs, ReinitPcs, TaskStates, Counted, None
<1> HIDE DEF r
<1> QED BY <1>1, <1>2, <1>3, <1>4, TaskFacts, Moves

LEMMA ReinitStep == ASSUME IInv, NEW t \in Tasks, Reinit(t) PROVE IInv'
<1> DEFINE r == [task[t] EXCEPT !.pc = "chip", !.tries = 0]
<1>1. /\ task[t].pc = "reinit" /\ UNCHANGED <<jtagLock, flashMutex, stream, fpga, handle, flash, own>>
      /\ ready' = FALSE
  BY DEF Reinit, At, fpgaVars
<1>2. r \in TaskStates
  <2>1. 0 \in 0..Attempts - 1
    BY AttemptsAssumption
  <2> QED BY <2>1, TaskFacts DEF TaskStates
<1>3. task' = [task EXCEPT ![t] = r]
  BY TaskFacts DEF Reinit
<1>4. /\ ~ HoldsJtag(r) /\ ~ HoldsJtag(task[t]) /\ (HoldsFlash(r) <=> HoldsFlash(task[t]))
      /\ Counted(r)
  BY <1>1, TaskFacts DEF HoldsJtag, HoldsFlash, JtagPcs, FlashPcs, ReinitPcs, TaskStates, Counted
<1> HIDE DEF r
<1> QED BY <1>1, <1>2, <1>3, <1>4, TaskFacts, Moves

\* A step that only moves the program counter.
LEMMA GotoStep ==
    ASSUME IInv, NEW t \in Tasks, NEW l, Goto(t, l),
           UNCHANGED <<jtagLock, flashMutex, stream, fpga>>,
           ready' \in BOOLEAN, handle' \in BOOLEAN, flash' \in Contents, own' \in {"kept", "changed"},
           \/ task[t].pc \in ReinitPcs /\ l \in ReinitPcs
           \/ task[t].pc \in ReinitPcs /\ l = task[t].back
           \/ task[t].pc = "recv" /\ l = "write"
           \/ task[t].pc = "erase" /\ l = "erasing"
           \/ task[t].pc = "write" /\ l = "writing"
           \/ task[t].pc = "read" /\ l = "reading"
    PROVE  IInv'
<1> DEFINE r == [task[t] EXCEPT !.pc = l]
<1>1. l \in {"reinit", "chip", "remove", "add", "lock", "erasing", "writing", "read", "reading", "write"}
  BY TaskFacts DEF Counted, ReinitPcs, TaskStates
<1>2. r \in TaskStates
  BY <1>1, TaskFacts DEF TaskStates
<1>3. task' = [task EXCEPT ![t] = r]
  BY TaskFacts DEF Goto
<1>4. /\ ~ HoldsJtag(r) /\ ~ HoldsJtag(task[t]) /\ (HoldsFlash(r) <=> HoldsFlash(task[t]))
      /\ Counted(r)
  BY <1>1, TaskFacts DEF HoldsJtag, HoldsFlash, JtagPcs, FlashPcs, ReinitPcs, TaskStates, Counted, None
<1> HIDE DEF r
<1> QED BY <1>2, <1>3, <1>4, TaskFacts, Moves

LEMMA GotoSteps ==
    ASSUME IInv, NEW t \in Tasks, ChipReset(t) \/ Remove(t) \/ Add(t) \/ Recv(t)
    PROVE  IInv'
<1> USE TaskFacts DEF At, ReinitPcs, flashVars, fpgaVars
<1>1. CASE ChipReset(t)
  BY <1>1, GotoStep DEF ChipReset
<1>2. CASE Remove(t)
  BY <1>2, GotoStep DEF Remove
<1>3. CASE Add(t)
  BY <1>3, GotoStep DEF Add
<1>4. CASE Recv(t)
  BY <1>4, GotoStep DEF Recv
<1> QED BY <1>1, <1>2, <1>3, <1>4

LEMMA EnsureSteps ==
    ASSUME IInv, NEW t \in Tasks, EnsureForErase(t) \/ EnsureForWrite(t) \/ EnsureForRead(t)
    PROVE  IInv'
<1>1. PICK l \in {"erasing", "writing", "reading"} :
        /\ EnsureReady(t, l)
        /\ \/ task[t].pc = "erase" /\ l = "erasing"
           \/ task[t].pc = "write" /\ l = "writing"
           \/ task[t].pc = "read" /\ l = "reading"
  BY Zenon DEF EnsureForErase, EnsureForWrite, EnsureForRead, At
<1>2. UNCHANGED <<jtagLock, flashMutex, stream, fpga, ready, handle, flash, own>>
  BY <1>1 DEF EnsureReady, flashVars, fpgaVars
<1>3. CASE ready
  <2>1. Goto(t, l)
    BY <1>1, <1>3 DEF EnsureReady, Goto
  <2> QED BY <1>1, <1>2, <2>1, TaskFacts, GotoStep
<1>4. CASE ~ ready
  <2> DEFINE r == [task[t] EXCEPT !.pc = "reinit", !.back = l]
  <2>1. task' = [task EXCEPT ![t] = r] /\ r \in TaskStates
    BY <1>1, <1>4, TaskFacts DEF EnsureReady, TaskStates
  <2>2. /\ ~ HoldsJtag(r) /\ ~ HoldsJtag(task[t]) /\ (HoldsFlash(r) <=> HoldsFlash(task[t]))
        /\ Counted(r)
    BY <1>1, TaskFacts DEF HoldsJtag, HoldsFlash, JtagPcs, FlashPcs, ReinitPcs, TaskStates, Counted, None
  <2> HIDE DEF r
  <2> QED BY <1>2, <2>1, <2>2, TaskFacts, Moves
<1> QED BY <1>3, <1>4

LEMMA EffectsAre ==
    /\ Effects \subseteq {"done", "none", "part"}
    /\ ~ Reachable => Effects = {"none"}
BY DEF Effects

LEMMA EraseType ==
    ASSUME IInv, NEW t \in Tasks, Erase(t)
    PROVE  flash' \in Contents /\ own' \in {"kept", "changed"}
<1>1. PICK effect \in [1..N -> Effects \cup {"none"}] :
        flash' = [i \in 1..N |-> After(effect[i], flash[i], "erased")]
  BY Zenon DEF Erase
<1>2. ASSUME NEW i \in 1..N
      PROVE  After(effect[i], flash[i], "erased") \in {"old", "erased", "mixed"} \cup Tasks
  <2>1. effect[i] \in {"done", "none", "part"}
    BY EffectsAre
  <2>2. flash[i] \in {"old", "erased", "mixed"} \cup Tasks
    BY TaskFacts DEF Contents
  <2> QED BY <2>1, <2>2 DEF After
<1>3. own' \in {"kept", "changed"}
  BY TaskFacts DEF Erase, OwnFlash
<1> QED BY <1>1, <1>2, <1>3 DEF Contents

LEMMA AfterEraseStep ==
    ASSUME IInv, NEW t \in Tasks, NEW x \in BOOLEAN, AfterErase(t, x),
           task[t].pc = "erasing" \/ (task[t].pc \in ReinitPcs /\ task[t].back = "erasing"),
           UNCHANGED <<jtagLock, stream, fpga>>, ready' \in BOOLEAN, handle' \in BOOLEAN,
           flash' \in Contents, own' \in {"kept", "changed"}
    PROVE  IInv'
<1> DEFINE r == [task[t] EXCEPT !.pc = "recv", !.n = 0, !.lost = @ \/ x]
<1>1. r \in TaskStates
  <2>1. 0 \in 0..N
    BY NAssumption
  <2> QED BY <2>1, TaskFacts DEF TaskStates
<1>2. task' = [task EXCEPT ![t] = r] /\ UNCHANGED flashMutex
  BY TaskFacts DEF AfterErase
<1>3. /\ ~ HoldsJtag(r) /\ ~ HoldsJtag(task[t]) /\ HoldsFlash(r) /\ HoldsFlash(task[t])
      /\ Counted(r)
  BY TaskFacts, NAssumption
     DEF HoldsJtag, HoldsFlash, JtagPcs, FlashPcs, ReinitPcs, TaskStates, Counted
<1> HIDE DEF r
<1> QED BY <1>1, <1>2, <1>3, TaskFacts, Moves

LEMMA EraseStep == ASSUME IInv, NEW t \in Tasks, Erase(t) PROVE IInv'
<1>1. task[t].pc = "erasing" /\ UNCHANGED <<jtagLock, stream, fpga, ready, handle>>
  BY DEF Erase, At, fpgaVars
<1>2. PICK effect \in [1..N -> Effects \cup {"none"}] :
        AfterErase(t, \E i \in 1..N : effect[i] # "done")
  BY Zenon DEF Erase
<1> DEFINE x == \E i \in 1..N : effect[i] # "done"
<1>3. AfterErase(t, x) /\ x \in BOOLEAN
  BY <1>2
<1> HIDE DEF x
<1> QED BY <1>1, <1>3, TaskFacts, EraseType, AfterEraseStep

-----------------------------------------------------------------------------
(* The steps that take or give the mutex of the flash, and the reset.      *)

LEMMA FlashMoves ==
    ASSUME IInv, NEW t \in Tasks, NEW r \in TaskStates,
           task' = [task EXCEPT ![t] = r],
           UNCHANGED jtagLock, stream' \in {stream, Closed},
           ~ HoldsJtag(r), ~ HoldsJtag(task[t]), Counted(r),
           flashMutex' \in {flashMutex, t, None}, flashMutex \in {t, None} \/ flashMutex' = flashMutex,
           flashMutex' = t <=> HoldsFlash(r),
           ready' \in BOOLEAN, handle' \in BOOLEAN,
           fpga' \in {"blank", "flash", "bridge", "user"}, flash' \in Contents, own' \in {"kept", "changed"}
    PROVE  IInv'
<1>1. Session(t, r, stream')
  BY DEF Session, HoldsJtag, JtagPcs
<1>2. stream' \in Streams
  BY TaskFacts, ClosedType
<1> QED BY <1>1, <1>2, TaskFacts, Preserves

LEMMA LockStep == ASSUME IInv, NEW t \in Tasks, Lock(t) PROVE IInv'
<1> DEFINE r == [task[t] EXCEPT !.pc = "erase"]
<1>1. /\ task[t].pc = "lock" /\ flashMutex = None /\ flashMutex' = t
      /\ UNCHANGED <<jtagLock, stream, fpga, ready, handle, flash, own>>
  BY DEF Lock, At, fpgaVars
<1>2. r \in TaskStates /\ task' = [task EXCEPT ![t] = r]
  BY TaskFacts DEF Lock, Goto, TaskStates
<1>3. ~ HoldsJtag(r) /\ ~ HoldsJtag(task[t]) /\ HoldsFlash(r) /\ Counted(r)
  BY <1>1, TaskFacts DEF HoldsJtag, HoldsFlash, JtagPcs, FlashPcs, ReinitPcs, TaskStates, Counted
<1> HIDE DEF r
<1> QED BY <1>1, <1>2, <1>3, TaskFacts, FlashMoves

LEMMA RecvFailsStep == ASSUME IInv, NEW t \in Tasks, RecvFails(t) PROVE IInv'
<1> DEFINE r == [task[t] EXCEPT !.answer = "error", !.pc = IF t = "http" THEN "reset" ELSE "idle"]
<1>1. /\ task[t].pc = "recv" /\ flashMutex' = None
      /\ UNCHANGED <<jtagLock, stream, fpga, ready, handle, flash, own>>
  BY DEF RecvFails, At, fpgaVars
<1>2. flashMutex = t
  BY <1>1, TaskFacts DEF HoldsFlash, FlashPcs
<1>3. r \in TaskStates /\ task' = [task EXCEPT ![t] = r]
  BY TaskFacts DEF RecvFails, TaskStates
<1>4. ~ HoldsJtag(r) /\ ~ HoldsJtag(task[t]) /\ ~ HoldsFlash(r) /\ Counted(r)
  BY <1>1, TaskFacts DEF HoldsJtag, HoldsFlash, JtagPcs, FlashPcs, ReinitPcs, TaskStates, Counted
<1> HIDE DEF r
<1> QED BY <1>1, <1>2, <1>3, <1>4, NoneIsNoTask, TaskFacts, FlashMoves

LEMMA FpgaResetStep == ASSUME IInv, NEW t \in Tasks, FpgaReset(t) PROVE IInv'
<1> DEFINE r == [task[t] EXCEPT !.pc = "idle"]
<1>1. /\ task[t].pc = "reset" /\ stream' = Closed /\ fpga' = "flash"
      /\ UNCHANGED <<jtagLock, flashMutex, ready, handle, flash, own>>
  BY DEF FpgaReset, At, flashVars
<1>2. r \in TaskStates /\ task' = [task EXCEPT ![t] = r]
  BY TaskFacts DEF FpgaReset, Goto, TaskStates
<1>3. /\ ~ HoldsJtag(r) /\ ~ HoldsJtag(task[t]) /\ ~ HoldsFlash(r) /\ ~ HoldsFlash(task[t])
      /\ Counted(r)
  BY <1>1, TaskFacts DEF HoldsJtag, HoldsFlash, JtagPcs, FlashPcs, ReinitPcs, TaskStates, Counted
<1> HIDE DEF r
<1> QED BY <1>1, <1>2, <1>3, TaskFacts, FlashMoves

LEMMA AfterWriteStep ==
    ASSUME IInv, NEW t \in Tasks, NEW x \in BOOLEAN, AfterWrite(t, x),
           task[t].pc = "writing" \/ (task[t].pc \in ReinitPcs /\ task[t].back = "writing"),
           UNCHANGED <<jtagLock, stream, fpga>>,
           ready' \in BOOLEAN, handle' \in BOOLEAN, flash' \in Contents, own' \in {"kept", "changed"}
    PROVE  IInv'
<1>1. /\ task[t].n \in 0..N /\ task[t].n < N /\ flashMutex = t
      /\ ~ HoldsJtag(task[t])
  BY TaskFacts DEF Counted, HoldsFlash, HoldsJtag, JtagPcs, FlashPcs, ReinitPcs, TaskStates
<1>2. CASE task[t].n + 1 = N
  <2> DEFINE r == [task[t] EXCEPT !.pc = "reset", !.n = N, !.answer = "ok", !.lost = @ \/ x]
  <2>1. task' = [task EXCEPT ![t] = r] /\ flashMutex' = None
    BY <1>2, TaskFacts DEF AfterWrite
  <2>2. r \in TaskStates
    <3>1. N \in 0..N
      BY NAssumption
    <3> QED BY <3>1, TaskFacts DEF TaskStates
  <2>3. ~ HoldsJtag(r) /\ ~ HoldsFlash(r) /\ Counted(r)
    BY TaskFacts DEF HoldsJtag, HoldsFlash, JtagPcs, FlashPcs, ReinitPcs, TaskStates, Counted
  <2> HIDE DEF r
  <2> QED BY <1>1, <2>1, <2>2, <2>3, NoneIsNoTask, TaskFacts, FlashMoves
<1>3. CASE task[t].n + 1 # N
  <2> DEFINE r == [task[t] EXCEPT !.pc = "recv", !.n = @ + 1, !.lost = @ \/ x]
  <2>1. task' = [task EXCEPT ![t] = r] /\ flashMutex' = flashMutex
    BY <1>3, TaskFacts DEF AfterWrite
  <2>2. task[t].n + 1 \in 0..N /\ task[t].n + 1 < N
    BY <1>1, <1>3, NAssumption
  <2>3. r \in TaskStates
    BY <2>2, TaskFacts DEF TaskStates
  <2>4. ~ HoldsJtag(r) /\ HoldsFlash(r) /\ Counted(r)
    BY <2>2, TaskFacts DEF HoldsJtag, HoldsFlash, JtagPcs, FlashPcs, ReinitPcs, TaskStates, Counted
  <2> HIDE DEF r
  <2> QED BY <1>1, <2>1, <2>3, <2>4, TaskFacts, FlashMoves
<1> QED BY <1>2, <1>3

LEMMA WriteStep == ASSUME IInv, NEW t \in Tasks, Write(t) PROVE IInv'
<1>1. /\ task[t].pc = "writing" /\ own' \in {"kept", "changed"}
      /\ UNCHANGED <<jtagLock, stream, fpga, ready, handle>>
  BY TaskFacts DEF Write, At, fpgaVars, OwnFlash
<1>2. PICK effect \in Effects :
        /\ flash' = [flash EXCEPT ![task[t].n + 1] =
                        After(effect, @, IF @ = "erased" THEN t ELSE "mixed")]
        /\ AfterWrite(t, effect # "done")
  BY DEF Write
<1>3. flash' \in Contents
  <2>1. effect \in {"done", "none", "part"}
    BY EffectsAre
  <2> QED BY <1>2, <2>1, TaskFacts DEF After, Contents
<1> DEFINE x == effect # "done"
<1>4. AfterWrite(t, x) /\ x \in BOOLEAN
  BY <1>2
<1> HIDE DEF x
<1> QED BY <1>1, <1>3, <1>4, TaskFacts, AfterWriteStep

\* The end of a probe that fails, wherever it was made.
LEMMA NotReadyStep ==
    ASSUME IInv, NEW t \in Tasks, NotReady(t), task[t].pc \in ReinitPcs,
           UNCHANGED <<jtagLock, stream, fpga, flash, own>>, ready' \in BOOLEAN, handle' \in BOOLEAN
    PROVE  IInv'
<1>1. task[t].back \in {"lock", "erasing", "writing", "read", "reading"} /\ ~ HoldsJtag(task[t])
  BY TaskFacts DEF Counted, TaskStates, HoldsJtag, JtagPcs, ReinitPcs
<1>2. CASE task[t].back \in {"lock", "read", "reading"}
  <2>1. Answer(t, "error") /\ UNCHANGED flashMutex
    BY <1>2 DEF NotReady
  <2> QED BY <1>1, <1>2, <2>1, TaskFacts, AnswerStep DEF FlashPcs, ReinitPcs
<1>3. CASE task[t].back = "erasing"
  <2>1. AfterErase(t, TRUE)
    BY <1>3 DEF NotReady
  <2> QED BY <1>3, <2>1, TaskFacts, AfterEraseStep
<1>4. CASE task[t].back = "writing"
  <2>1. AfterWrite(t, TRUE)
    BY <1>4 DEF NotReady
  <2> QED BY <1>4, <2>1, TaskFacts, AfterWriteStep
<1> QED BY <1>1, <1>2, <1>3, <1>4

LEMMA ProbeFailsSteps ==
    ASSUME IInv, NEW t \in Tasks, ChipResetFails(t) \/ AddFails(t) PROVE IInv'
<1>1. CASE ChipResetFails(t)
  BY <1>1, TaskFacts, NotReadyStep DEF ChipResetFails, At, ReinitPcs, fpgaVars
<1>2. CASE AddFails(t)
  <2>1. /\ task[t].pc = "add" /\ UNCHANGED <<jtagLock, stream, fpga, ready, flash, own>>
        /\ handle' \in BOOLEAN
    BY <1>2 DEF AddFails, At, fpgaVars
  <2>2. CASE task[t].tries + 1 < Attempts
    <3> DEFINE r == [task[t] EXCEPT !.pc = "remove", !.tries = @ + 1]
    <3>1. task' = [task EXCEPT ![t] = r] /\ UNCHANGED flashMutex
      BY <1>2, <2>2, TaskFacts DEF AddFails
    <3>2. task[t].tries + 1 \in 0..Attempts - 1
      BY <2>2, TaskFacts, AttemptsAssumption DEF TaskStates
    <3>3. r \in TaskStates
      BY <3>2, TaskFacts DEF TaskStates
    <3>4. /\ ~ HoldsJtag(r) /\ ~ HoldsJtag(task[t]) /\ (HoldsFlash(r) <=> HoldsFlash(task[t]))
          /\ Counted(r)
      BY <2>1, TaskFacts DEF HoldsJtag, HoldsFlash, JtagPcs, FlashPcs, ReinitPcs, TaskStates, Counted
    <3> HIDE DEF r
    <3> QED BY <2>1, <3>1, <3>3, <3>4, TaskFacts, Moves
  <2>3. CASE ~ (task[t].tries + 1 < Attempts)
    <3>1. NotReady(t)
      BY <1>2, <2>3 DEF AddFails
    <3> QED BY <2>1, <3>1, TaskFacts, NotReadyStep DEF ReinitPcs
  <2> QED BY <2>2, <2>3
<1> QED BY <1>1, <1>2

LEMMA AbortsStep == ASSUME IInv, NEW t \in Tasks, Aborts(t) PROVE IInv'
<1>1. /\ jtagLock' = None /\ flashMutex' = None /\ stream' = Closed
      /\ ready' \in BOOLEAN /\ handle' \in BOOLEAN /\ UNCHANGED <<flash, fpga>>
      /\ own' \in {"kept", "changed"}
      /\ task' = [u \in Tasks |-> Resting]
  BY TaskFacts DEF Aborts, OwnFlash
<1>2. Resting \in TaskStates
  <2>1. 0 \in 0..N /\ 0 \in 0..Attempts - 1
    BY NAssumption, AttemptsAssumption
  <2> QED BY <2>1 DEF Resting, TaskStates
<1>3. TypeOK'
  BY <1>1, <1>2, ClosedType, TaskFacts DEF TypeOK
<1>4. ASSUME NEW u \in Tasks PROVE task'[u] = Resting /\ task'[u].pc = "idle"
  BY <1>1 DEF Resting
<1>5. LockInv'
  BY <1>1, <1>4, NoneIsNoTask DEF LockInv, HoldsJtag, HoldsFlash, JtagPcs, FlashPcs, ReinitPcs
<1>6. (\A u \in Tasks : Counted(task[u]))' /\ (\A u \in Tasks : Session(u, task[u], stream))'
  BY <1>4 DEF Counted, Session, ReinitPcs
<1> QED BY <1>3, <1>5, <1>6 DEF IInv

-----------------------------------------------------------------------------
LEMMA NextIInv == IInv /\ [Next]_vars => IInv'
<1> SUFFICES ASSUME IInv, [Next]_vars PROVE IInv'
  OBVIOUS
<1>1. CASE UNCHANGED vars
  BY <1>1 DEF vars, IInv, TypeOK, LockInv, HoldsJtag, HoldsFlash, Counted, Session
<1>2. ASSUME NEW t \in Tasks, NEW op \in Ops, Request(t, op) PROVE IInv'
  BY <1>2, RequestStep
<1>3. ASSUME NEW t \in Tasks, Shift(t) \/ ShiftFails(t) \/ AwaitClient(t) PROVE IInv'
  BY <1>3, ShiftStep, AnsweringSteps, GotoSteps, RecvFailsStep DEF AwaitClient
<1>4. ASSUME NEW t \in Tasks, Proceed(t) PROVE IInv'
  BY <1>4, TakeJtagStep, AnsweringSteps, SramBeginStep, SramEndStep, SettleStep, ReinitStep,
     GotoSteps, ProbeFailsSteps, LockStep, EnsureSteps, EraseStep, WriteStep, FpgaResetStep, Zenon
     DEF Proceed
<1>5. ASSUME NEW t \in Tasks, Aborts(t) PROVE IInv'
  BY <1>5, AbortsStep
<1> QED BY <1>1, <1>2, <1>3, <1>4, <1>5, Zenon DEF Next

LEMMA IInvHolds == Spec => []IInv
BY InitIInv, NextIInv, PTL DEF Spec

\* The type invariant, for any constants.
THEOREM TypeCorrect == Spec => []TypeOK
<1>1. IInv => TypeOK
  BY DEF IInv
<1> QED BY <1>1, IInvHolds, PTL

\* No task ever holds both locks, so they cannot be waited for in a circle.
THEOREM OneLockAtATime == Spec => []HoldsOneLock
<1>1. IInv => HoldsOneLock
  BY DEF IInv, LockInv, HoldsOneLock, HoldsJtag, HoldsFlash, JtagPcs, FlashPcs, ReinitPcs
<1> QED BY <1>1, IInvHolds, PTL

\* No handler feeds a session that another has opened.
THEOREM SessionsAreOwn == Spec => []NoForeignStream
<1>1. IInv => NoForeignStream
  BY DEF IInv, Session, NoForeignStream
<1> QED BY <1>1, IInvHolds, PTL

-----------------------------------------------------------------------------
(* The mutex of the flash, and what an update has written. *)

\* Every step but a request, or an abort, is one of a busy task, which changes its
\* own state.
Works(t) == Shift(t) \/ ShiftFails(t) \/ AwaitClient(t) \/ Proceed(t)

LEMMA OwnStep ==
    ASSUME IInv, IInv', NEW t \in Tasks, Works(t)
    PROVE  /\ task[t].pc # "idle"
           /\ task'[t] \in TaskStates
           /\ task' = [task EXCEPT ![t] = task'[t]]
<1>1. task \in [Tasks -> TaskStates] /\ task' \in [Tasks -> TaskStates]
  BY DEF IInv, TypeOK
<1>2. task[t].pc # "idle" /\ \A u \in Tasks \ {t} : task'[u] = task[u]
  <2>1. CASE Shift(t) \/ ShiftFails(t) \/ AwaitClient(t)
    BY <1>1, <2>1 DEF Shift, ShiftFails, AwaitClient, Recv, RecvFails, At, Goto, Answer
  <2>2. CASE \/ TakeJtag(t) \/ JtagTimeout(t) \/ SramBegin(t) \/ SramBeginFails(t)
             \/ SramEnd(t) \/ SramEndFails(t) \/ Settle(t)
    BY <1>1, <2>2 DEF TakeJtag, JtagTimeout, SramBegin, SramBeginFails, SramEnd, SramEndFails,
                      Settle, At, Goto, Answer
  <2>3. CASE Reinit(t) \/ ChipReset(t) \/ Remove(t) \/ Add(t)
    BY <1>1, <2>3 DEF Reinit, ChipReset, Remove, Add, At, Goto
  <2>4. ASSUME NotReady(t), task[t].pc \in ReinitPcs
        PROVE  \A u \in Tasks \ {t} : task'[u] = task[u]
    <3>1. task[t].back \in {"lock", "erasing", "writing", "read", "reading"}
      BY <2>4, TaskFacts DEF Counted, TaskStates
    <3> QED BY <1>1, <2>4, <3>1 DEF NotReady, AfterErase, AfterWrite, Answer
  <2>5. CASE ChipResetFails(t)
    BY <2>4, <2>5 DEF ChipResetFails, At, ReinitPcs
  <2>6. CASE AddFails(t)
    BY <1>1, <2>4, <2>6 DEF AddFails, At, ReinitPcs
  <2>7. CASE Lock(t) \/ EnsureForErase(t) \/ Erase(t) \/ EnsureForWrite(t) \/ Write(t)
    BY <1>1, <2>7 DEF Lock, EnsureForErase, Erase, EnsureForWrite, Write, EnsureReady,
                      AfterErase, AfterWrite, At, Goto
  <2>8. CASE FpgaReset(t) \/ EnsureForRead(t) \/ ReadId(t)
    BY <1>1, <2>8 DEF FpgaReset, EnsureForRead, ReadId, EnsureReady, At, Goto, Answer
  <2> QED BY <2>1, <2>2, <2>3, <2>5, <2>6, <2>7, <2>8, Zenon DEF Works, Proceed
<1> QED BY <1>1, <1>2

LEMMA FlashKept ==
    ASSUME NEW t \in Tasks, Works(t)
    PROVE  Erase(t) \/ Write(t) \/ UNCHANGED flash
<1>1. Shift(t) \/ ShiftFails(t) \/ AwaitClient(t) => UNCHANGED flash
  BY DEF Shift, ShiftFails, AwaitClient, Recv, RecvFails, flashVars
<1>2. TakeJtag(t) \/ JtagTimeout(t) \/ SramBegin(t) \/ SramBeginFails(t)
      \/ SramEnd(t) \/ SramEndFails(t) \/ Settle(t) => UNCHANGED flash
  BY DEF TakeJtag, JtagTimeout, SramBegin, SramBeginFails, SramEnd, SramEndFails, Settle,
         flashVars, fpgaVars
<1>3. Reinit(t) \/ ChipReset(t) \/ ChipResetFails(t) \/ Remove(t) \/ Add(t) \/ AddFails(t)
        => UNCHANGED flash
  BY DEF Reinit, ChipReset, ChipResetFails, Remove, Add, AddFails, flashVars
<1>4. Lock(t) \/ EnsureForErase(t) \/ EnsureForWrite(t)
      \/ FpgaReset(t) \/ EnsureForRead(t) \/ ReadId(t) => UNCHANGED flash
  BY DEF Lock, EnsureForErase, EnsureForWrite, FpgaReset, EnsureForRead, ReadId, EnsureReady, flashVars
<1> QED BY <1>1, <1>2, <1>3, <1>4, Zenon DEF Works, Proceed

\* Who changes the flash holds its mutex.
LEMMA FlashHeld ==
    ASSUME IInv, NEW t \in Tasks, Works(t), flash' # flash
    PROVE  flashMutex = t
<1>1. task[t].pc \in {"erasing", "writing"}
  BY FlashKept DEF Erase, Write, At
<1> QED BY <1>1, TaskFacts DEF HoldsFlash, FlashPcs

\* The next state of the flash is known where a task is between two chunks, or at
\* one, and nothing was refused.
Placed(r) == r.pc \in {"recv", "write", "writing"} \/ (r.pc \in ReinitPcs /\ r.back = "writing")

Progress(t, r) ==
    Placed(r) /\ ~ r.lost => \A i \in 1..N : flash[i] = IF i <= r.n THEN t ELSE "erased"

\* What is reported, and has lost nothing.
Reports(r) == r.pc = "reset" /\ r.answer = "ok" /\ ~ r.lost

WrittenInv == \A t \in Tasks : Progress(t, task[t])

LEMMA NotAtFlash ==
    ASSUME NEW t \in Tasks, ~ Placed(task'[t]), ~ Reports(task'[t])
    PROVE  Progress(t, task[t])' /\ (Reports(task'[t]) => \A i \in 1..N : flash'[i] = t)
BY DEF Progress, Placed

LEMMA WrittenErase ==
    ASSUME IInv, IInv', NEW t \in Tasks, Erase(t)
    PROVE  Progress(t, task[t])' /\ ~ Reports(task'[t])
<1>1. PICK effect \in [1..N -> Effects \cup {"none"}] :
        /\ flash' = [i \in 1..N |-> After(effect[i], flash[i], "erased")]
        /\ AfterErase(t, \E i \in 1..N : effect[i] # "done")
  BY Zenon DEF Erase
<1>2. /\ task'[t].pc = "recv" /\ task'[t].n = 0
      /\ ~ task'[t].lost => \A i \in 1..N : effect[i] = "done"
  BY <1>1, TaskFacts DEF AfterErase, TaskStates
<1>3. ASSUME ~ task'[t].lost PROVE \A i \in 1..N : flash'[i] = "erased"
  BY <1>1, <1>2, <1>3 DEF After
<1> QED BY <1>2, <1>3, NAssumption DEF Progress, Reports

LEMMA WrittenWrite ==
    ASSUME IInv, IInv', WrittenInv, NEW t \in Tasks, Write(t)
    PROVE  /\ Progress(t, task[t])'
           /\ Reports(task'[t]) => \A i \in 1..N : flash'[i] = t
<1>1. PICK effect \in Effects :
        /\ flash' = [flash EXCEPT ![task[t].n + 1] =
                        After(effect, @, IF @ = "erased" THEN t ELSE "mixed")]
        /\ AfterWrite(t, effect # "done")
  BY DEF Write
<1>2. /\ task[t].pc = "writing" /\ task[t].n \in 0..N /\ task[t].n < N
      /\ task[t] \in TaskStates /\ task \in [Tasks -> TaskStates] /\ flash \in Contents
  BY TaskFacts DEF Write, At, Counted, TaskStates
<1>3. ~ task'[t].lost => effect = "done" /\ ~ task[t].lost
  BY <1>1, <1>2 DEF AfterWrite, TaskStates
<1>4. ASSUME ~ task'[t].lost
      PROVE  \A i \in 1..N : flash'[i] = IF i <= task[t].n + 1 THEN t ELSE "erased"
  <2>1. \A i \in 1..N : flash[i] = IF i <= task[t].n THEN t ELSE "erased"
    BY <1>2, <1>3, <1>4 DEF WrittenInv, Progress, Placed
  <2>2. task[t].n + 1 \in 1..N /\ flash[task[t].n + 1] = "erased"
    BY <1>2, <2>1, NAssumption
  <2>3. flash' = [flash EXCEPT ![task[t].n + 1] = t]
    BY <1>1, <1>3, <1>4, <2>2 DEF After
  <2>4. DOMAIN flash = 1..N
    BY <1>2 DEF Contents
  <2> QED BY <1>2, <2>1, <2>2, <2>3, <2>4, NAssumption
<1>5. CASE task[t].n + 1 = N
  <2>1. task'[t].pc = "reset"
    BY <1>1, <1>2, <1>5 DEF AfterWrite, TaskStates
  <2>2. \A i \in 1..N : i <= task[t].n + 1
    BY <1>5
  <2> QED BY <1>4, <2>1, <2>2 DEF Progress, Placed, Reports, ReinitPcs
<1>6. CASE task[t].n + 1 # N
  <2>1. task'[t].pc = "recv" /\ task'[t].n = task[t].n + 1
    BY <1>1, <1>2, <1>6 DEF AfterWrite, TaskStates
  <2> QED BY <1>4, <2>1 DEF Progress, Placed, Reports
<1> QED BY <1>5, <1>6

LEMMA WrittenNotReady ==
    ASSUME IInv, NEW t \in Tasks, NotReady(t), task[t].pc \in ReinitPcs
    PROVE  Progress(t, task[t])' /\ ~ Reports(task'[t])
<1>1. /\ task[t].back \in {"lock", "erasing", "writing", "read", "reading"}
      /\ task[t] \in TaskStates /\ task \in [Tasks -> TaskStates]
  BY TaskFacts DEF Counted, TaskStates
<1>2. task'[t].pc = "idle" \/ task'[t].lost
  <2>1. CASE task[t].back \in {"lock", "read", "reading"}
    <3>1. Answer(t, "error")
      BY <2>1 DEF NotReady
    <3> QED BY <1>1, <3>1 DEF Answer, TaskStates
  <2>2. CASE task[t].back = "erasing"
    <3>1. AfterErase(t, TRUE)
      BY <2>2 DEF NotReady
    <3> QED BY <1>1, <3>1 DEF AfterErase, TaskStates
  <2>3. CASE task[t].back = "writing"
    <3>1. AfterWrite(t, TRUE)
      BY <2>3 DEF NotReady
    <3> QED BY <1>1, <3>1 DEF AfterWrite, TaskStates
  <2> QED BY <1>1, <2>1, <2>2, <2>3
<1> QED BY <1>2 DEF Progress, Placed, Reports, ReinitPcs

\* A step of an update but for the erases and the writes.
LEMMA WrittenMoves ==
    ASSUME WrittenInv, NEW t \in Tasks, UNCHANGED flash,
           Placed(task'[t]) => /\ Placed(task[t])
                               /\ task'[t].n = task[t].n /\ task'[t].lost = task[t].lost,
           ~ Reports(task'[t])
    PROVE  Progress(t, task[t])' /\ ~ Reports(task'[t])
BY DEF WrittenInv, Progress, Placed

LEMMA WrittenOwn ==
    ASSUME IInv, IInv', WrittenInv, NEW t \in Tasks, Works(t), ~ At(t, "reset")
    PROVE  /\ Progress(t, task[t])'
           /\ Reports(task'[t]) => \A i \in 1..N : flash'[i] = t
<1> USE DEF At, Goto
<1>1. task[t] \in TaskStates /\ task \in [Tasks -> TaskStates]
  BY TaskFacts
<1>2. CASE Erase(t) \/ Write(t)
  BY <1>2, WrittenErase, WrittenWrite
<1>3. CASE Reinit(t) \/ ChipReset(t) \/ Remove(t) \/ Add(t)
  <2>1. UNCHANGED flash
    BY <1>3 DEF Reinit, ChipReset, Remove, Add, flashVars
  <2>2. task[t].back # None
    BY <1>3, TaskFacts DEF Reinit, ChipReset, Remove, Add, Counted, ReinitPcs
  <2>3. /\ Placed(task'[t]) => /\ Placed(task[t])
                               /\ task'[t].n = task[t].n /\ task'[t].lost = task[t].lost
        /\ ~ Reports(task'[t])
    BY <1>1, <1>3, <2>2 DEF Reinit, ChipReset, Remove, Add, Placed, Reports, ReinitPcs, TaskStates, None
  <2> QED BY <2>1, <2>3, WrittenMoves
<1>4. CASE ChipResetFails(t) \/ AddFails(t)
  <2>1. UNCHANGED flash /\ task[t].pc \in ReinitPcs
    BY <1>4 DEF ChipResetFails, AddFails, ReinitPcs
  <2>2. CASE NotReady(t)
    BY <2>1, <2>2, WrittenNotReady
  <2>3. CASE task' = [task EXCEPT ![t].pc = "remove", ![t].tries = @ + 1]
    <3>1. /\ task'[t].pc = "remove" /\ task'[t].back = task[t].back
          /\ task'[t].n = task[t].n /\ task'[t].lost = task[t].lost
      BY <1>1, <2>3 DEF TaskStates
    <3>2. Placed(task'[t]) => Placed(task[t])
      BY <2>1, <3>1 DEF Placed
    <3> QED BY <2>1, <3>1, <3>2, WrittenMoves DEF Reports
  <2> QED BY <1>4, <2>2, <2>3 DEF ChipResetFails, AddFails
<1>5. CASE Recv(t) \/ RecvFails(t) \/ Lock(t) \/ EnsureForErase(t) \/ EnsureForWrite(t)
  <2>1. UNCHANGED flash
    BY <1>5 DEF Recv, RecvFails, Lock, EnsureForErase, EnsureForWrite, EnsureReady, flashVars
  <2>2. /\ Placed(task'[t]) => /\ Placed(task[t])
                               /\ task'[t].n = task[t].n /\ task'[t].lost = task[t].lost
        /\ ~ Reports(task'[t])
    BY <1>1, <1>5 DEF Recv, RecvFails, Lock, EnsureForErase, EnsureForWrite, EnsureReady,
                      Placed, Reports, ReinitPcs, TaskStates
  <2> QED BY <2>1, <2>2, WrittenMoves
<1>6. CASE \/ TakeJtag(t) \/ JtagTimeout(t) \/ SramBegin(t) \/ SramBeginFails(t) \/ Shift(t)
           \/ ShiftFails(t) \/ SramEnd(t) \/ SramEndFails(t) \/ Settle(t)
  <2>1. \/ task'[t].pc \in {"idle", "begin", "shift", "end", "settle", "read"}
        \/ task'[t].pc = "reinit" /\ task'[t].back = "lock"
    BY <1>1, <1>6 DEF TakeJtag, JtagTimeout, SramBegin, SramBeginFails, Shift, ShiftFails, SramEnd,
                      SramEndFails, Settle, Answer, TaskStates
  <2> QED BY <2>1 DEF Progress, Placed, Reports, ReinitPcs
<1>7. CASE FpgaReset(t) \/ EnsureForRead(t) \/ ReadId(t)
  <2>1. \/ task'[t].pc \in {"idle", "reading"}
        \/ task'[t].pc = "reinit" /\ task'[t].back = "reading"
    BY <1>1, <1>7 DEF FpgaReset, EnsureForRead, EnsureReady, ReadId, Answer, TaskStates
  <2> QED BY <2>1 DEF Progress, Placed, Reports, ReinitPcs
<1> QED BY <1>2, <1>3, <1>4, <1>5, <1>6, <1>7, Zenon DEF Works, Proceed, AwaitClient

\* Of the other tasks, only one that does not hold the mutex can be at the flash.
LEMMA WrittenOthers ==
    ASSUME IInv, IInv', WrittenInv, NEW t \in Tasks, Works(t), NEW u \in Tasks \ {t}
    PROVE  Progress(u, task[u])'
<1>1. task'[u] = task[u]
  BY OwnStep, TaskFacts
<1>2. CASE UNCHANGED flash
  BY <1>1, <1>2 DEF WrittenInv, Progress
<1>3. CASE flash' # flash
  <2>1. flashMutex # u
    BY <1>3, FlashHeld
  <2>2. ~ Placed(task[u])
    BY <2>1, TaskFacts DEF Placed, HoldsFlash, FlashPcs
  <2> QED BY <1>1, <2>2 DEF Progress, Placed
<1> QED BY <1>2, <1>3

LEMMA WrittenInit == Init => WrittenInv
<1>1. ASSUME Init, NEW t \in Tasks PROVE task[t].pc = "idle"
  BY <1>1 DEF Init, Resting
<1> QED BY <1>1 DEF WrittenInv, Progress, Placed, ReinitPcs

\* A request, or an abort, leaves no task where the flash matters that was not there.
LEMMA RequestMoves ==
    ASSUME IInv, NEW t \in Tasks, NEW op \in Ops, Request(t, op)
    PROVE  /\ task'[t].pc \in {"begin", "jtag", "reinit"} /\ task'[t].op = op
           /\ task'[t].pc = "begin" <=> op = "sram"
           /\ task'[t].pc = "reinit" <=> op = "id_current"
           /\ task'[t].pc = "reinit" => task'[t].back = "read"
           /\ \A u \in Tasks \ {t} : task'[u] = task[u]
           /\ UNCHANGED <<flashMutex, ready, handle, flash, own, stream, fpga>>
BY OpsAssumption, TaskFacts DEF Request, flashVars, fpgaVars

LEMMA AbortMoves ==
    ASSUME NEW t \in Tasks, Aborts(t)
    PROVE  (\A u \in Tasks : task'[u] = Resting /\ task'[u].pc = "idle") /\ UNCHANGED <<flash, fpga>>
BY DEF Aborts, Resting

LEMMA WrittenNext == ASSUME IInv, IInv', WrittenInv, [Next]_vars PROVE WrittenInv'
<1>1. CASE UNCHANGED vars
  BY <1>1 DEF vars, WrittenInv, Progress
<1>2. ASSUME NEW t \in Tasks, NEW op \in Ops, Request(t, op) PROVE WrittenInv'
  <2>1. ~ Placed(task'[t]) /\ UNCHANGED flash /\ \A u \in Tasks \ {t} : task'[u] = task[u]
    BY <1>2, RequestMoves DEF Placed, ReinitPcs
  <2> QED BY <2>1 DEF WrittenInv, Progress, Placed
<1>3. ASSUME NEW t \in Tasks, Works(t) PROVE WrittenInv'
  <2>1. Progress(t, task[t])'
    <3>1. CASE At(t, "reset")
      <4>1. FpgaReset(t)
        BY <1>3, <3>1 DEF Works, Proceed, AwaitClient, At, Shift, ShiftFails, Recv, RecvFails,
           TakeJtag, JtagTimeout, SramBegin, SramBeginFails, SramEnd, SramEndFails, Settle,
           Reinit, ChipReset, ChipResetFails, Remove, Add, AddFails,
           Lock, EnsureForErase, Erase, EnsureForWrite, Write, EnsureForRead, ReadId
      <4>2. task'[t].pc = "idle"
        BY <4>1, TaskFacts DEF FpgaReset, Goto, TaskStates
      <4> QED BY <4>2 DEF Progress, Placed, ReinitPcs
    <3>2. CASE ~ At(t, "reset")
      BY <1>3, <3>2, WrittenOwn
    <3> QED BY <3>1, <3>2
  <2> QED BY <1>3, <2>1, WrittenOthers DEF WrittenInv
<1>4. ASSUME NEW t \in Tasks, Aborts(t) PROVE WrittenInv'
  BY <1>4, AbortMoves DEF WrittenInv, Progress, Placed, ReinitPcs
<1> QED BY <1>1, <1>2, <1>3, <1>4, Zenon DEF Next, Works

\* From lock to unlock the flash changes by the holder's steps alone.
THEOREM FlashIsExclusive == Spec => FlashExclusive
<1> DEFINE Excl == \A t \in Tasks : flashMutex = t /\ flash' # flash => task'[t] # task[t]
<1>1. IInv /\ [Next]_vars => [Excl]_vars
  <2> SUFFICES ASSUME IInv, Next, NEW t \in Tasks, flashMutex = t, flash' # flash
               PROVE  task'[t] # task[t]
    BY DEF vars
  <2>1. PICK u \in Tasks : Works(u)
    <3>1. ASSUME NEW u \in Tasks, NEW op \in Ops, Request(u, op) PROVE FALSE
      BY <3>1, RequestMoves
    <3>2. ASSUME NEW u \in Tasks, Aborts(u) PROVE FALSE
      BY <3>2, AbortMoves
    <3> QED BY <3>1, <3>2, Zenon DEF Next, Works
  <2>2. flashMutex = u /\ (Erase(u) \/ Write(u))
    BY <2>1, FlashHeld, FlashKept
  <2>3. task[u].pc \in {"erasing", "writing"} /\ task'[u].pc \in {"recv", "reset"}
    <3>1. CASE Erase(u)
      BY <3>1, TaskFacts DEF Erase, AfterErase, At, TaskStates
    <3>2. CASE Write(u)
      BY <3>2, TaskFacts DEF Write, AfterWrite, At, TaskStates
    <3> QED BY <2>2, <3>1, <3>2
  <2> QED BY <2>2, <2>3
<1> QED BY <1>1, IInvHolds, PTL DEF Spec, FlashExclusive

\* A success of handle_fpga_update or FPGA_FLASH_OK means that every chunk of the flash
\* is the one that was sent, unless an erase or a write of that update was refused or
\* left out: for any number of chunks and of probes, any sizes of images, with or
\* without overlap, and whatever failed before.
THEOREM UpdateIsWritten == Spec => WrittenUnlessLost
<1> DEFINE Good == \A t \in Tasks :
          ~ At(t, "reset") /\ task'[t].pc = "reset" /\ task'[t].answer = "ok" /\ ~ task'[t].lost
          => \A i \in 1..N : flash'[i] = t
<1>1. IInv /\ IInv' /\ WrittenInv /\ [Next]_vars => [Good]_vars
  <2> SUFFICES ASSUME IInv, IInv', WrittenInv, Next, NEW t \in Tasks,
                      ~ At(t, "reset"), Reports(task'[t])
               PROVE  \A i \in 1..N : flash'[i] = t
    BY DEF Reports
  <2>1. task'[t].pc = "reset" /\ task[t].pc # "reset"
    BY DEF Reports, At
  <2>2. ASSUME NEW u \in Tasks, NEW op \in Ops, Request(u, op) PROVE FALSE
    BY <2>1, <2>2, RequestMoves
  <2>3. ASSUME NEW u \in Tasks, Aborts(u) PROVE FALSE
    BY <2>1, <2>3, AbortMoves
  <2>4. PICK u \in Tasks : Works(u)
    BY <2>2, <2>3, Zenon DEF Next, Works
  <2>5. u = t
    BY <2>1, <2>4, OwnStep, TaskFacts
  <2> QED BY <2>4, <2>5, WrittenOwn
<1>2. IInv /\ IInv' /\ WrittenInv /\ [Next]_vars => WrittenInv'
  BY WrittenNext
<1> QED BY <1>1, <1>2, WrittenInit, IInvHolds, PTL DEF Spec, WrittenUnlessLost

-----------------------------------------------------------------------------
(* Requests that do not overlap. *)

BridgePcs == FlashPcs \cup {"lock"}

\* What a handler has reached that nobody disturbs.  A probe inside an erase or a
\* write is then never needed, so no step of an update is left out.
Solo(t, r) ==
    /\ r.pc \in BridgePcs => ready /\ handle /\ fpga = "bridge"
    /\ r.pc \in ReinitPcs => r.back \notin {"erasing", "writing"}
    /\ r.pc \in {"shift", "end"} => stream.owner = t
    /\ r.pc = "end" => stream.chunks = N
    /\ Reports(r) => \A i \in 1..N : flash[i] = t

OneBusy ==
    \A t, u \in Tasks : task[t].pc # "idle" /\ task[u].pc # "idle" => t = u

SoloInv ==
    /\ OneBusy
    /\ \A t \in Tasks : Solo(t, task[t])

\* What has to be seen of a step of task t that makes its state r.
LEMMA SoloPreserves ==
    ASSUME IInv, SoloInv, NEW t \in Tasks, NEW r \in TaskStates,
           task' = [task EXCEPT ![t] = r],
           task[t].pc # "idle" \/ \A u \in Tasks : task[u].pc = "idle",
           r.pc \in BridgePcs => ready' /\ handle' /\ fpga' = "bridge",
           r.pc \in ReinitPcs => r.back \notin {"erasing", "writing"},
           r.pc \in {"shift", "end"} => stream'.owner = t,
           r.pc = "end" => stream'.chunks = N,
           Reports(r) => \A i \in 1..N : flash'[i] = t
    PROVE  SoloInv'
<1>1. task'[t] = r /\ \A u \in Tasks \ {t} : task'[u] = task[u] /\ task[u].pc = "idle"
  BY TaskFacts DEF SoloInv, OneBusy
<1>2. OneBusy'
  BY <1>1 DEF OneBusy
<1>3. (\A u \in Tasks : Solo(u, task[u]))'
  <2> SUFFICES ASSUME NEW u \in Tasks PROVE Solo(u, task[u])'
    OBVIOUS
  <2>1. CASE u = t
    BY <1>1, <2>1 DEF Solo
  <2>2. CASE u # t
    BY <1>1, <2>2 DEF Solo, Reports, BridgePcs, FlashPcs, ReinitPcs
  <2> QED BY <2>1, <2>2
<1> QED BY <1>2, <1>3 DEF SoloInv

LEMMA SoloFacts ==
    ASSUME IInv, SoloInv, NEW t \in Tasks
    PROVE  Solo(t, task[t])
BY DEF SoloInv

LEMMA SoloInit == Init => SoloInv
<1>1. ASSUME Init, NEW t \in Tasks PROVE task[t].pc = "idle"
  BY <1>1 DEF Init, Resting
<1> QED BY <1>1 DEF SoloInv, OneBusy, Solo, Reports, BridgePcs, FlashPcs, ReinitPcs

\* Steps to where nothing is required.
QuietPcs == {"idle", "jtag", "begin", "settle", "read", "reading"}

LEMMA SoloQuiet ==
    ASSUME IInv, SoloInv, NEW t \in Tasks, NEW r \in TaskStates,
           task' = [task EXCEPT ![t] = r],
           task[t].pc # "idle" \/ \A u \in Tasks : task[u].pc = "idle",
           \/ r.pc \in QuietPcs
           \/ r.pc \in ReinitPcs /\ r.back \notin {"erasing", "writing"}
           \/ r.pc = "reset" /\ r.answer # "ok"
    PROVE  SoloInv'
<1>1. /\ r.pc \notin BridgePcs /\ r.pc \notin {"shift", "end", "recv", "write", "writing"}
      /\ r.pc = "reset" => r.answer # "ok"
      /\ r.pc \in ReinitPcs => r.back \notin {"erasing", "writing"}
  BY DEF QuietPcs, BridgePcs, FlashPcs, ReinitPcs
<1>2. ~ Reports(r)
  BY <1>1 DEF Reports
<1> QED BY <1>1, <1>2, SoloPreserves

LEMMA SoloRequest ==
    ASSUME IInv, SoloInv, ~ Overlap, NEW t \in Tasks, NEW op \in Ops, Request(t, op)
    PROVE  SoloInv'
<1> DEFINE p == CASE op = "sram"             -> "begin"
                  [] op \in {"update", "id"} -> "jtag"
                  [] op = "id_current"       -> "reinit"
           b == IF op = "id_current" THEN "read" ELSE None
           r == [op |-> op, n |-> 0, tries |-> 0, answer |-> None, lost |-> FALSE,
                 pc |-> p, back |-> b]
<1>1. p \in {"begin", "jtag", "reinit"} /\ b \in {None, "read"}
  BY OpsAssumption
<1>2. r \in TaskStates
  <2> HIDE DEF p, b
  <2>1. 0 \in 0..N /\ 0 \in 0..Attempts - 1
    BY NAssumption, AttemptsAssumption
  <2> QED BY <1>1, <2>1 DEF TaskStates
<1>3. task' = [task EXCEPT ![t] = r] /\ \A u \in Tasks : task[u].pc = "idle"
  BY DEF Request, At
<1>4. r.pc \in QuietPcs \/ (r.pc \in ReinitPcs /\ r.back \notin {"erasing", "writing"})
  <2> HIDE DEF p, b
  <2> QED BY <1>1 DEF QuietPcs, ReinitPcs, None
<1> HIDE DEF r
<1> QED BY <1>2, <1>3, <1>4, SoloQuiet

LEMMA SoloAnswers ==
    ASSUME IInv, SoloInv, NEW t \in Tasks, task[t].pc # "idle",
           NEW a \in {"ok", "error"}, Answer(t, a)
    PROVE  SoloInv'
<1> DEFINE r == [task[t] EXCEPT !.pc = "idle", !.answer = a]
<1>1. r \in TaskStates /\ task' = [task EXCEPT ![t] = r] /\ r.pc = "idle"
  BY TaskFacts DEF Answer, TaskStates
<1> HIDE DEF r
<1> QED BY <1>1, SoloQuiet DEF QuietPcs

\* A step that only moves the program counter, to where nothing is required.
LEMMA SoloGoto ==
    ASSUME IInv, SoloInv, NEW t \in Tasks, task[t].pc # "idle", NEW l, Goto(t, l),
           \/ l \in QuietPcs
           \/ l \in ReinitPcs /\ task[t].back \notin {"erasing", "writing"}
    PROVE  SoloInv'
<1> DEFINE r == [task[t] EXCEPT !.pc = l]
<1>1. r \in TaskStates /\ task' = [task EXCEPT ![t] = r] /\ r.pc = l /\ r.back = task[t].back
  BY TaskFacts DEF Goto, TaskStates, QuietPcs, ReinitPcs
<1> HIDE DEF r
<1> QED BY <1>1, SoloQuiet

LEMMA SoloJtag ==
    ASSUME IInv, SoloInv, NEW t \in Tasks,
           \/ TakeJtag(t) \/ JtagTimeout(t) \/ SramBegin(t) \/ SramBeginFails(t)
           \/ Shift(t) \/ ShiftFails(t) \/ SramEnd(t) \/ SramEndFails(t) \/ Settle(t)
    PROVE  SoloInv'
<1> USE DEF At
<1>1. CASE TakeJtag(t)
  BY <1>1, SoloGoto DEF TakeJtag, QuietPcs
<1>2. CASE JtagTimeout(t) \/ SramBeginFails(t) \/ ShiftFails(t) \/ SramEndFails(t)
  BY <1>2, SoloAnswers DEF JtagTimeout, SramBeginFails, ShiftFails, SramEndFails
<1>3. CASE SramBegin(t)
  <2> DEFINE r == [task[t] EXCEPT !.pc = "shift"]
  <2>1. /\ task[t].pc = "begin" /\ r \in TaskStates /\ task' = [task EXCEPT ![t] = r]
        /\ r.pc = "shift" /\ stream'.owner = t
    BY <1>3, TaskFacts DEF SramBegin, Goto, TaskStates
  <2> HIDE DEF r
  <2> QED BY <2>1, SoloPreserves DEF BridgePcs, FlashPcs, ReinitPcs, Reports
<1>4. CASE Shift(t)
  <2> DEFINE r == [task[t] EXCEPT !.n = @ + 1, !.pc = IF task[t].n + 1 = N THEN "end" ELSE "shift"]
  <2>1. /\ task[t].pc = "shift" /\ task[t].n \in 0..N /\ task[t].n < N
        /\ stream.owner = t /\ stream.chunks = task[t].n /\ stream \in Streams
    BY <1>4, TaskFacts, SoloFacts DEF Shift, Counted, Session, Solo, TaskStates
  <2>2. task' = [task EXCEPT ![t] = r]
    BY <1>4, TaskFacts, Zenon DEF Shift
  <2>3. r \in TaskStates
    <3>1. task[t].n + 1 \in 0..N
      BY <2>1, NAssumption
    <3> QED BY <3>1, TaskFacts DEF TaskStates
  <2>4. stream'.owner = t /\ stream'.chunks = task[t].n + 1
    BY <1>4, <2>1, NAssumption DEF Shift, Streams
  <2>5. r.pc \in {"shift", "end"} /\ (r.pc = "end" => stream'.chunks = N)
    BY <2>1, <2>4, TaskFacts DEF TaskStates
  <2> HIDE DEF r
  <2> QED BY <2>1, <2>2, <2>3, <2>4, <2>5, SoloPreserves DEF BridgePcs, FlashPcs, ReinitPcs, Reports
<1>5. CASE SramEnd(t)
  <2>1. CASE Answer(t, "ok")
    BY <1>5, <2>1, SoloAnswers DEF SramEnd
  <2>2. CASE Goto(t, "settle")
    BY <1>5, <2>2, SoloGoto DEF SramEnd, QuietPcs
  <2> QED BY <1>5, <2>1, <2>2 DEF SramEnd
<1>6. CASE Settle(t)
  <2> DEFINE r == IF task[t].op = "update" THEN [task[t] EXCEPT !.pc = "reinit", !.back = "lock"]
                  ELSE [task[t] EXCEPT !.pc = "read"]
  <2>1. r \in TaskStates /\ task[t].pc = "settle"
    BY <1>6, TaskFacts DEF Settle, TaskStates
  <2>2. task' = [task EXCEPT ![t] = r]
    BY <1>6, TaskFacts DEF Settle
  <2>3. r.pc \in QuietPcs \/ (r.pc \in ReinitPcs /\ r.back \notin {"erasing", "writing"})
    BY TaskFacts DEF QuietPcs, ReinitPcs, TaskStates
  <2> HIDE DEF r
  <2> QED BY <2>1, <2>2, <2>3, SoloQuiet
<1> QED BY <1>1, <1>2, <1>3, <1>4, <1>5, <1>6

\* The end of a probe that fails is an answer: the probe was made before the
\* update, or to read the ID.
LEMMA SoloNotReady ==
    ASSUME IInv, SoloInv, NEW t \in Tasks, task[t].pc \in ReinitPcs, NotReady(t)
    PROVE  SoloInv'
<1>1. task[t].back \in {"lock", "read", "reading"}
  BY TaskFacts, SoloFacts DEF Solo, Counted, TaskStates
<1>2. Answer(t, "error")
  BY <1>1 DEF NotReady
<1> QED BY <1>2, SoloAnswers DEF ReinitPcs

LEMMA SoloReinit ==
    ASSUME IInv, SoloInv, NEW t \in Tasks,
           \/ Reinit(t) \/ ChipReset(t) \/ ChipResetFails(t) \/ Remove(t) \/ Add(t) \/ AddFails(t)
    PROVE  SoloInv'
<1>1. /\ task[t].pc \in ReinitPcs
      /\ task[t].back \in {"lock", "read", "reading"}
  BY TaskFacts, SoloFacts
     DEF Reinit, ChipReset, ChipResetFails, Remove, Add, AddFails, At, ReinitPcs, Solo, Counted, TaskStates
<1>2. CASE Reinit(t)
  <2> DEFINE r == [task[t] EXCEPT !.pc = "chip", !.tries = 0]
  <2>1. 0 \in 0..Attempts - 1
    BY AttemptsAssumption
  <2>2. /\ r \in TaskStates /\ task' = [task EXCEPT ![t] = r]
        /\ r.pc = "chip" /\ r.back = task[t].back
    BY <1>2, <2>1, TaskFacts DEF Reinit, TaskStates
  <2> HIDE DEF r
  <2> QED BY <1>1, <2>2, SoloQuiet DEF ReinitPcs
<1>3. CASE ChipReset(t) \/ Remove(t)
  BY <1>1, <1>3, SoloGoto DEF ChipReset, Remove, ReinitPcs
<1>4. CASE ChipResetFails(t)
  BY <1>1, <1>4, SoloNotReady DEF ChipResetFails
<1>5. CASE Add(t)
  <2> DEFINE r == [task[t] EXCEPT !.pc = task[t].back]
  <2>1. /\ r \in TaskStates /\ task' = [task EXCEPT ![t] = r] /\ r.pc = task[t].back
    BY <1>1, <1>5, TaskFacts DEF Add, Goto, TaskStates
  <2>2. ready' /\ handle' /\ fpga' = "bridge" /\ task[t].pc # "idle"
    BY <1>1, <1>5 DEF Add, fpgaVars, ReinitPcs
  <2> HIDE DEF r
  <2> QED BY <1>1, <2>1, <2>2, SoloPreserves DEF ReinitPcs, Reports
<1>6. CASE AddFails(t)
  <2>1. CASE task[t].tries + 1 < Attempts
    <3> DEFINE r == [task[t] EXCEPT !.pc = "remove", !.tries = @ + 1]
    <3>1. task[t].tries + 1 \in 0..Attempts - 1
      BY <2>1, TaskFacts, AttemptsAssumption DEF TaskStates
    <3>2. /\ r \in TaskStates /\ task' = [task EXCEPT ![t] = r]
          /\ r.pc = "remove" /\ r.back = task[t].back
      BY <1>6, <2>1, <3>1, TaskFacts DEF AddFails, TaskStates
    <3> HIDE DEF r
    <3> QED BY <1>1, <3>2, SoloQuiet DEF ReinitPcs
  <2>2. CASE ~ (task[t].tries + 1 < Attempts)
    BY <1>1, <1>6, <2>2, SoloNotReady DEF AddFails
  <2> QED BY <2>1, <2>2
<1> QED BY <1>2, <1>3, <1>4, <1>5, <1>6

LEMMA SoloLock == ASSUME IInv, SoloInv, NEW t \in Tasks, Lock(t) PROVE SoloInv'
<1> DEFINE r == [task[t] EXCEPT !.pc = "erase"]
<1>1. /\ r \in TaskStates /\ task' = [task EXCEPT ![t] = r] /\ r.pc = "erase"
      /\ task[t].pc = "lock" /\ UNCHANGED <<ready, handle, fpga>>
  BY TaskFacts DEF Lock, Goto, At, TaskStates, fpgaVars
<1>2. ready /\ handle /\ fpga = "bridge"
  BY <1>1, SoloFacts DEF Solo, BridgePcs
<1> HIDE DEF r
<1> QED BY <1>1, <1>2, SoloPreserves DEF ReinitPcs, Reports

LEMMA SoloEnsure ==
    ASSUME IInv, SoloInv, NEW t \in Tasks, EnsureForErase(t) \/ EnsureForWrite(t)
    PROVE  SoloInv'
<1>1. PICK l \in {"erasing", "writing"} :
        /\ EnsureReady(t, l)
        /\ \/ task[t].pc = "erase" /\ l = "erasing"
           \/ task[t].pc = "write" /\ l = "writing"
  BY Zenon DEF EnsureForErase, EnsureForWrite, At
<1>2. ready /\ handle /\ fpga = "bridge"
  BY <1>1, SoloFacts DEF Solo, BridgePcs, FlashPcs
<1> DEFINE r == [task[t] EXCEPT !.pc = l]
<1>3. /\ r \in TaskStates /\ task' = [task EXCEPT ![t] = r] /\ r.pc = l /\ r.n = task[t].n
      /\ UNCHANGED <<ready, handle, fpga, flash>>
  BY <1>1, <1>2, TaskFacts DEF EnsureReady, TaskStates, flashVars, fpgaVars
<1> HIDE DEF r
<1> QED BY <1>1, <1>2, <1>3, SoloPreserves DEF ReinitPcs, Reports

LEMMA SoloErase ==
    ASSUME IInv, IInv', SoloInv, NEW t \in Tasks, Erase(t), Works(t) PROVE SoloInv'
<1>1. task[t].pc = "erasing" /\ UNCHANGED <<ready, handle, fpga>>
  BY DEF Erase, At, fpgaVars
<1>2. ready /\ handle /\ fpga = "bridge"
  BY <1>1, SoloFacts DEF Solo, BridgePcs, FlashPcs
<1>3. task'[t] \in TaskStates /\ task' = [task EXCEPT ![t] = task'[t]]
  BY OwnStep
<1>4. task'[t].pc = "recv"
  BY TaskFacts DEF Erase, AfterErase, TaskStates
<1> QED BY <1>1, <1>2, <1>3, <1>4, SoloPreserves DEF ReinitPcs, Reports

LEMMA SoloRecv == ASSUME IInv, SoloInv, NEW t \in Tasks, Recv(t) \/ RecvFails(t) PROVE SoloInv'
<1>1. CASE Recv(t)
  <2> DEFINE r == [task[t] EXCEPT !.pc = "write"]
  <2>1. /\ r \in TaskStates /\ task' = [task EXCEPT ![t] = r] /\ r.pc = "write" /\ r.n = task[t].n
        /\ task[t].pc = "recv" /\ UNCHANGED <<ready, handle, fpga>>
    BY <1>1, TaskFacts DEF Recv, Goto, At, TaskStates, flashVars, fpgaVars
  <2>2. ready /\ handle /\ fpga = "bridge"
    BY <2>1, SoloFacts DEF Solo, BridgePcs, FlashPcs
  <2> HIDE DEF r
  <2> QED BY <2>1, <2>2, SoloPreserves DEF ReinitPcs, Reports
<1>2. CASE RecvFails(t)
  <2> DEFINE r == [task[t] EXCEPT !.answer = "error", !.pc = IF t = "http" THEN "reset" ELSE "idle"]
  <2>1. /\ r \in TaskStates /\ task' = [task EXCEPT ![t] = r] /\ r.answer = "error"
        /\ r.pc \in {"reset", "idle"} /\ task[t].pc = "recv"
    BY <1>2, TaskFacts DEF RecvFails, At, TaskStates
  <2> HIDE DEF r
  <2> QED BY <2>1, SoloQuiet DEF QuietPcs
<1> QED BY <1>1, <1>2

LEMMA SoloWrite ==
    ASSUME IInv, IInv', WrittenInv, SoloInv, NEW t \in Tasks, Write(t), Works(t) PROVE SoloInv'
<1>1. task[t].pc = "writing" /\ UNCHANGED <<ready, handle, fpga>>
  BY DEF Write, At, fpgaVars
<1>2. ready /\ handle /\ fpga = "bridge"
  BY <1>1, SoloFacts DEF Solo, BridgePcs, FlashPcs
<1>3. task'[t] \in TaskStates /\ task' = [task EXCEPT ![t] = task'[t]]
  BY OwnStep
<1>4. task'[t].pc \in {"recv", "reset"}
  BY TaskFacts DEF Write, AfterWrite, TaskStates
<1>5. Reports(task'[t]) => \A i \in 1..N : flash'[i] = t
  BY WrittenWrite
<1> QED BY <1>1, <1>2, <1>3, <1>4, <1>5, SoloPreserves DEF ReinitPcs

LEMMA SoloReset == ASSUME IInv, SoloInv, NEW t \in Tasks, FpgaReset(t) PROVE SoloInv'
BY SoloGoto DEF FpgaReset, At, QuietPcs

LEMMA SoloRead ==
    ASSUME IInv, SoloInv, NEW t \in Tasks, EnsureForRead(t) \/ ReadId(t) PROVE SoloInv'
<1>1. CASE EnsureForRead(t)
  <2> DEFINE r == IF ready THEN [task[t] EXCEPT !.pc = "reading"]
                  ELSE [task[t] EXCEPT !.pc = "reinit", !.back = "reading"]
  <2>1. r \in TaskStates /\ task[t].pc = "read"
    BY <1>1, TaskFacts DEF EnsureForRead, At, TaskStates
  <2>2. task' = [task EXCEPT ![t] = r]
    BY <1>1, TaskFacts DEF EnsureForRead, EnsureReady
  <2>3. r.pc = "reading" \/ (r.pc = "reinit" /\ r.back = "reading")
    BY TaskFacts DEF TaskStates
  <2> HIDE DEF r
  <2> QED BY <2>1, <2>2, <2>3, SoloQuiet DEF QuietPcs, ReinitPcs
<1>2. CASE ReadId(t)
  <2>1. PICK a \in {"ok", "error"} : Answer(t, a)
    BY <1>2, Zenon DEF ReadId
  <2> QED BY <1>2, <2>1, SoloAnswers DEF ReadId, At
<1> QED BY <1>1, <1>2

\* A device is there whenever it is used.
LEMMA SoloNoAbort == ASSUME IInv, SoloInv, NEW t \in Tasks PROVE ~ Aborts(t)
BY SoloFacts DEF Aborts, Solo, BridgePcs, FlashPcs

LEMMA SoloNext ==
    ASSUME ~ Overlap, IInv, IInv', WrittenInv, SoloInv, [Next]_vars PROVE SoloInv'
<1>1. CASE UNCHANGED vars
  BY <1>1 DEF vars, SoloInv, OneBusy, Solo
<1>2. ASSUME NEW t \in Tasks, NEW op \in Ops, Request(t, op) PROVE SoloInv'
  BY <1>2, SoloRequest
<1>3. ASSUME NEW t \in Tasks, Works(t) PROVE SoloInv'
  <2>1. CASE Erase(t) \/ Write(t)
    BY <1>3, <2>1, SoloErase, SoloWrite
  <2> QED BY <1>3, <2>1, SoloJtag, SoloRecv, SoloReinit, SoloLock, SoloEnsure, SoloReset, SoloRead,
             Zenon DEF Works, Proceed, AwaitClient
<1>4. ASSUME NEW t \in Tasks, Aborts(t) PROVE FALSE
  BY <1>4, SoloNoAbort
<1> QED BY <1>1, <1>2, <1>3, <1>4, Zenon DEF Next, Works

\* The bridge and the flash behind it, for the lemmas and the theorems that follow.
AloneInv == WrittenInv /\ SoloInv

LEMMA AloneHolds == ASSUME ~ Overlap PROVE Spec => []AloneInv
<1>1. Init => AloneInv
  BY WrittenInit, SoloInit DEF AloneInv
<1>2. IInv /\ IInv' /\ AloneInv /\ [Next]_vars => AloneInv'
  BY WrittenNext, SoloNext DEF AloneInv
<1> QED BY <1>1, <1>2, IInvHolds, PTL DEF Spec

\* Without a device the flash is not ready, and it is used when it is ready only: a
\* reinit clears the flag before it removes the device.
DeviceInv ==
    /\ own = "kept"
    /\ ready => handle
    /\ \A t \in Tasks : task[t].pc \in {"chip", "remove", "add"} => ~ ready
    /\ \A t \in Tasks : task[t].pc = "reading" => handle

LEMMA DeviceReinit ==
    ASSUME IInv, IInv', SoloInv, DeviceInv, NEW t \in Tasks, Works(t),
           \/ Reinit(t) \/ ChipReset(t) \/ ChipResetFails(t) \/ Remove(t) \/ Add(t) \/ AddFails(t)
    PROVE  /\ own' = "kept" /\ (ready' => handle')
           /\ task'[t].pc \in {"chip", "remove", "add"} => ~ ready'
           /\ task'[t].pc = "reading" => handle'
<1> USE DEF At, Goto
<1>1. /\ task[t] \in TaskStates /\ task \in [Tasks -> TaskStates]
      /\ task[t].pc \in ReinitPcs /\ task[t].back \in {"lock", "read", "reading"}
  BY TaskFacts, SoloFacts
     DEF Reinit, ChipReset, ChipResetFails, Remove, Add, AddFails, ReinitPcs, Solo, Counted, TaskStates
<1>2. own' = "kept"
  BY DEF DeviceInv, Reinit, ChipReset, ChipResetFails, Remove, Add, AddFails, flashVars
<1>3. CASE Reinit(t) \/ ChipReset(t) \/ Remove(t)
  BY <1>1, <1>2, <1>3 DEF DeviceInv, Reinit, ChipReset, Remove, flashVars, TaskStates
<1>4. CASE Add(t)
  BY <1>1, <1>2, <1>4 DEF Add, TaskStates
<1>5. CASE ChipResetFails(t) \/ AddFails(t)
  <2>1. ~ ready'
    BY <1>5 DEF DeviceInv, ChipResetFails, AddFails
  <2>2. task'[t].pc = "remove" \/ Answer(t, "error")
    BY <1>1, <1>5 DEF ChipResetFails, AddFails, NotReady, TaskStates
  <2>3. task'[t].pc # "reading"
    BY <1>1, <2>2 DEF Answer, TaskStates
  <2> QED BY <1>2, <2>1, <2>3
<1> QED BY <1>3, <1>4, <1>5

LEMMA DeviceRest ==
    ASSUME IInv, IInv', SoloInv, DeviceInv, NEW t \in Tasks, Works(t),
           ~ (\/ Reinit(t) \/ ChipReset(t) \/ ChipResetFails(t) \/ Remove(t) \/ Add(t) \/ AddFails(t))
    PROVE  /\ UNCHANGED <<ready, handle, own>>
           /\ task'[t].pc \notin {"chip", "remove", "add"}
           /\ task'[t].pc = "reading" => ready
<1> USE DEF At, Goto
<1>1. /\ task[t] \in TaskStates /\ task \in [Tasks -> TaskStates] /\ Solo(t, task[t])
  BY TaskFacts, SoloFacts
<1>2. CASE Erase(t)
  <2>1. handle
    BY <1>1, <1>2 DEF Erase, Solo, BridgePcs, FlashPcs
  <2>2. UNCHANGED <<ready, handle, own>>
    BY <1>2, <2>1 DEF Erase, OwnFlash
  <2>3. task'[t].pc = "recv"
    BY <1>1, <1>2 DEF Erase, AfterErase, TaskStates
  <2> QED BY <2>2, <2>3
<1>3. CASE Write(t)
  <2>1. handle
    BY <1>1, <1>3 DEF Write, Solo, BridgePcs, FlashPcs
  <2>2. UNCHANGED <<ready, handle, own>>
    BY <1>3, <2>1 DEF Write, OwnFlash
  <2>3. task'[t].pc \in {"recv", "reset"}
    BY <1>1, <1>3 DEF Write, AfterWrite, TaskStates
  <2> QED BY <2>2, <2>3
<1>4. CASE \/ TakeJtag(t) \/ JtagTimeout(t) \/ SramBegin(t) \/ SramBeginFails(t) \/ Shift(t)
           \/ ShiftFails(t) \/ SramEnd(t) \/ SramEndFails(t) \/ Settle(t)
  <2>1. UNCHANGED <<ready, handle, own>>
    BY <1>4 DEF TakeJtag, JtagTimeout, SramBegin, SramBeginFails, Shift, ShiftFails, SramEnd,
                SramEndFails, Settle, flashVars
  <2>2. task'[t].pc \in {"idle", "begin", "shift", "end", "settle", "read", "reinit"}
    BY <1>1, <1>4 DEF TakeJtag, JtagTimeout, SramBegin, SramBeginFails, Shift, ShiftFails, SramEnd,
                      SramEndFails, Settle, Answer, TaskStates
  <2> QED BY <2>1, <2>2
<1>5. CASE \/ Recv(t) \/ RecvFails(t) \/ Lock(t) \/ EnsureForErase(t) \/ EnsureForWrite(t)
           \/ FpgaReset(t) \/ EnsureForRead(t) \/ ReadId(t)
  <2>1. UNCHANGED <<ready, handle, own>>
    BY <1>5 DEF Recv, RecvFails, Lock, EnsureForErase, EnsureForWrite, EnsureReady, FpgaReset,
                EnsureForRead, ReadId, flashVars
  <2>2. CASE EnsureForRead(t)
    BY <1>1, <2>1, <2>2 DEF EnsureForRead, EnsureReady, TaskStates
  <2>3. CASE Recv(t) \/ RecvFails(t) \/ Lock(t) \/ EnsureForErase(t) \/ EnsureForWrite(t)
             \/ FpgaReset(t) \/ ReadId(t)
    <3>1. task'[t].pc \in {"write", "idle", "reset", "erase", "erasing", "writing", "reinit"}
      BY <1>1, <2>3 DEF Recv, RecvFails, Lock, EnsureForErase, EnsureForWrite, EnsureReady,
                        FpgaReset, ReadId, Answer, TaskStates
    <3> QED BY <2>1, <3>1
  <2> QED BY <1>5, <2>2, <2>3
<1> QED BY <1>2, <1>3, <1>4, <1>5, Zenon DEF Works, Proceed, AwaitClient

LEMMA DeviceNext ==
    ASSUME ~ Overlap, IInv, IInv', SoloInv, SoloInv', DeviceInv, [Next]_vars PROVE DeviceInv'
<1>1. CASE UNCHANGED vars
  BY <1>1 DEF vars, DeviceInv
<1>2. ASSUME NEW t \in Tasks, NEW op \in Ops, Request(t, op) PROVE DeviceInv'
  BY <1>2, RequestMoves DEF DeviceInv
<1>3. ASSUME NEW t \in Tasks, Works(t) PROVE DeviceInv'
  <2>1. /\ task[t].pc # "idle" /\ \A u \in Tasks \ {t} : task'[u] = task[u]
    BY <1>3, OwnStep, TaskFacts
  <2>2. \A u \in Tasks \ {t} : task'[u].pc = "idle"
    BY <2>1 DEF SoloInv, OneBusy
  <2>3. /\ own' = "kept" /\ (ready' => handle')
        /\ task'[t].pc \in {"chip", "remove", "add"} => ~ ready'
        /\ task'[t].pc = "reading" => handle'
    BY <1>3, DeviceReinit, DeviceRest DEF DeviceInv
  <2> QED BY <2>2, <2>3 DEF DeviceInv
<1>4. ASSUME NEW t \in Tasks, Aborts(t) PROVE FALSE
  BY <1>4, SoloNoAbort
<1> QED BY <1>1, <1>2, <1>3, <1>4, Zenon DEF Next, Works

LEMMA DeviceHolds == ASSUME ~ Overlap PROVE Spec => []DeviceInv
<1>1. Init => DeviceInv
  <2>1. ASSUME Init, NEW t \in Tasks PROVE task[t].pc = "idle"
    BY <2>1 DEF Init, Resting
  <2> QED BY <2>1 DEF Init, DeviceInv
<1>2. IInv /\ IInv' /\ AloneInv /\ AloneInv' /\ DeviceInv /\ [Next]_vars => DeviceInv'
  BY DeviceNext DEF AloneInv
<1> QED BY <1>1, <1>2, AloneHolds, IInvHolds, PTL DEF Spec

\* Where requests do not overlap, the drivers of ESP-IDF are never handed s_ext_flash while
\* it is NULL, so that no erase or write goes to the flash of the ESP32 itself.
THEOREM OwnFlashIsKept ==
    ASSUME ~ Overlap
    PROVE  Spec => []OwnFlashKept
<1>1. DeviceInv => OwnFlashKept
  BY DEF DeviceInv, OwnFlashKept
<1> QED BY <1>1, DeviceHolds, PTL

-----------------------------------------------------------------------------
(* FpgaAccess implements FpgaDesigns where requests do not overlap.             *)

Result == [t \in Tasks |-> Outcome(task[t])]
Lost   == [t \in Tasks |-> task[t].lost]
Runs   == IF fpga = "flash" THEN Image ELSE fpga

\* Which request a handler serves can be told from where it is, and what it shifts
\* goes to an FPGA that was erased.
Serves(r) ==
    /\ r.pc \in {"jtag", "settle"} => r.op \in {"update", "id"}
    /\ r.pc \in {"begin", "shift", "end"} => r.op \in {"sram", "update", "id"}
    /\ r.pc \in BridgePcs \cup {"reset"} \/ (r.pc \in ReinitPcs /\ r.back = "lock")
         => r.op = "update"
    /\ r.pc \in {"read", "reading"} \/ (r.pc \in ReinitPcs /\ r.back \in {"read", "reading"})
         => r.op \in {"id", "id_current"}
    /\ r.pc = "reset" => r.answer \in {"ok", "error"}
    /\ r.pc \in {"shift", "end"} => fpga = "blank"

ServesInv == \A t \in Tasks : Serves(task[t])

LEMMA ServesStep ==
    ASSUME IInv, IInv', SoloInv, ServesInv, NEW t \in Tasks, Works(t)
    PROVE  Serves(task[t])'
<1>1. /\ task[t] \in TaskStates /\ task'[t] \in TaskStates
      /\ task \in [Tasks -> TaskStates] /\ task[t].pc # "idle"
  BY OwnStep, TaskFacts
<1>2. Serves(task[t]) /\ Solo(t, task[t]) /\ Counted(task[t])
  BY TaskFacts, SoloFacts DEF ServesInv
<1> USE DEF At, Goto, Answer, BridgePcs, FlashPcs, ReinitPcs
<1>3. ASSUME task'[t].pc = "idle" PROVE Serves(task[t])'
  BY <1>3 DEF Serves
<1>4. CASE \/ TakeJtag(t) \/ SramBegin(t) \/ Shift(t) \/ SramEnd(t) \/ Settle(t)
  BY <1>1, <1>2, <1>4 DEF TakeJtag, SramBegin, Shift, SramEnd, Settle, fpgaVars, Serves, TaskStates
<1>5. CASE Reinit(t) \/ ChipReset(t) \/ Remove(t) \/ Add(t)
  BY <1>1, <1>2, <1>5 DEF Reinit, ChipReset, Remove, Add, fpgaVars, Serves, Solo, Counted, TaskStates
<1>6. CASE NotReady(t) /\ task[t].pc \in ReinitPcs
  <2>1. task[t].back \in {"lock", "read", "reading"}
    BY <1>1, <1>2, <1>6 DEF Solo, Counted, TaskStates
  <2>2. Answer(t, "error")
    BY <2>1, <1>6 DEF NotReady
  <2> QED BY <1>1, <1>3, <2>2
<1>7. CASE ChipResetFails(t) \/ AddFails(t)
  BY <1>1, <1>2, <1>6, <1>7 DEF ChipResetFails, AddFails, fpgaVars, Serves, TaskStates
<1>8. CASE Lock(t) \/ EnsureForErase(t) \/ Recv(t) \/ RecvFails(t) \/ EnsureForWrite(t)
  BY <1>1, <1>2, <1>8
     DEF Lock, EnsureForErase, Recv, RecvFails, EnsureForWrite, EnsureReady, fpgaVars, Serves, Solo, TaskStates
<1>9. CASE Erase(t)
  <2>1. task[t].pc = "erasing" /\ task'[t].pc = "recv" /\ task'[t].op = task[t].op
    BY <1>1, <1>9 DEF Erase, AfterErase, TaskStates
  <2> QED BY <1>2, <2>1 DEF Serves
<1>10. CASE Write(t)
  <2>1. /\ task[t].pc = "writing" /\ task'[t].op = task[t].op
        /\ task'[t].pc = "recv" \/ (task'[t].pc = "reset" /\ task'[t].answer = "ok")
    BY <1>1, <1>10 DEF Write, AfterWrite, TaskStates
  <2> QED BY <1>2, <2>1 DEF Serves
<1>11. CASE EnsureForRead(t)
  BY <1>1, <1>2, <1>11 DEF EnsureForRead, EnsureReady, fpgaVars, Serves, TaskStates
<1>12. CASE \/ JtagTimeout(t) \/ SramBeginFails(t) \/ ShiftFails(t) \/ SramEndFails(t)
            \/ FpgaReset(t) \/ ReadId(t)
  BY <1>1, <1>3, <1>12 DEF JtagTimeout, SramBeginFails, ShiftFails, SramEndFails, FpgaReset, ReadId, TaskStates
<1> QED BY <1>4, <1>5, <1>7, <1>8, <1>9, <1>10, <1>11, <1>12, Zenon DEF Works, Proceed, AwaitClient

LEMMA ServesNext ==
    ASSUME ~ Overlap, IInv, IInv', SoloInv, ServesInv, [Next]_vars
    PROVE  ServesInv'
<1>1. CASE UNCHANGED vars
  BY <1>1 DEF vars, ServesInv, Serves
<1>2. ASSUME NEW t \in Tasks, NEW op \in Ops, Request(t, op) PROVE ServesInv'
  <2>1. \A u \in Tasks \ {t} : task'[u] = task[u] /\ task[u].pc = "idle"
    BY <1>2, RequestMoves DEF Request, At
  <2>2. Serves(task[t])'
    BY <1>2, OpsAssumption, RequestMoves DEF Serves, BridgePcs, FlashPcs, ReinitPcs
  <2> QED BY <2>1, <2>2 DEF ServesInv, Serves, BridgePcs, FlashPcs, ReinitPcs
<1>3. ASSUME NEW t \in Tasks, Works(t) PROVE ServesInv'
  <2>1. task'[t] \in TaskStates /\ task' = [task EXCEPT ![t] = task'[t]] /\ task[t].pc # "idle"
    BY <1>3, OwnStep
  <2>2. \A u \in Tasks \ {t} : task'[u] = task[u] /\ task[u].pc = "idle"
    BY <2>1, TaskFacts DEF SoloInv, OneBusy
  <2>3. \A u \in Tasks \ {t} : Serves(task[u])'
    BY <2>2 DEF Serves, BridgePcs, FlashPcs, ReinitPcs
  <2> QED BY <1>3, <2>3, ServesStep DEF ServesInv
<1>4. ASSUME NEW t \in Tasks, Aborts(t) PROVE FALSE
  BY <1>4, SoloNoAbort
<1> QED BY <1>1, <1>2, <1>3, <1>4, Zenon DEF Next, Works

LEMMA ServesHolds == ASSUME ~ Overlap PROVE Spec => []ServesInv
<1>1. Init => ServesInv
  <2>1. ASSUME Init, NEW t \in Tasks PROVE task[t].pc = "idle"
    BY <2>1 DEF Init, Resting
  <2> QED BY <2>1 DEF ServesInv, Serves, BridgePcs, FlashPcs, ReinitPcs
<1>2. IInv /\ IInv' /\ AloneInv /\ ServesInv /\ [Next]_vars => ServesInv'
  BY ServesNext DEF AloneInv
<1> QED BY <1>1, <1>2, AloneHolds, IInvHolds, PTL DEF Spec

\* Where requests do not overlap, a success of handle_fpga_jtag_sram, or "SRAM ... OK",
\* is given for every chunk of the design, taken in one session by an FPGA that was
\* erased; what it runs afterwards, if anything, is that design.
THEOREM SramIsLoaded ==
    ASSUME ~ Overlap
    PROVE  Spec => SramSuccessIsWhole
<1> DEFINE Good == \A t \in Tasks : At(t, "end") /\ task'[t].answer = "ok" /\ task'[t].pc = "idle"
                     => Whole(t) /\ fpga = "blank" /\ fpga' \in {"user", "blank"}
<1>1. IInv /\ IInv' /\ AloneInv /\ ServesInv /\ [Next]_vars => [Good]_vars
  <2> SUFFICES ASSUME IInv, IInv', SoloInv, ServesInv, Next, NEW t \in Tasks,
                      At(t, "end"), task'[t].answer = "ok", task'[t].pc = "idle"
               PROVE  Whole(t) /\ fpga = "blank" /\ fpga' \in {"user", "blank"}
    BY DEF AloneInv
  <2>1. /\ task[t].pc = "end" /\ task[t] \in TaskStates /\ task \in [Tasks -> TaskStates]
        /\ Whole(t) /\ fpga = "blank"
    BY TaskFacts, SoloFacts DEF At, Solo, Streams, Whole, ServesInv, Serves
  <2>2. ASSUME NEW u \in Tasks, NEW op \in Ops, Request(u, op) PROVE FALSE
    BY <2>1, <2>2, RequestMoves
  <2>3. PICK u \in Tasks : Works(u)
    BY <2>2, SoloNoAbort, Zenon DEF Next, Works
  <2>4. u = t
    BY <2>1, <2>3, OwnStep
  <2>5. SramEnd(t) \/ SramEndFails(t)
    BY <2>1, <2>3, <2>4 DEF Works, Proceed, AwaitClient, At, Shift, ShiftFails, Recv, RecvFails,
       TakeJtag, JtagTimeout, SramBegin, SramBeginFails, Settle,
       Reinit, ChipReset, ChipResetFails, Remove, Add, AddFails, Lock, EnsureForErase, Erase,
       EnsureForWrite, Write, FpgaReset, EnsureForRead, ReadId
  <2>6. SramEnd(t) /\ task[t].op = "sram"
    BY <2>1, <2>5 DEF SramEnd, SramEndFails, Answer, Goto, TaskStates
  <2> QED BY <2>1, <2>6 DEF SramEnd, Started
<1> QED BY <1>1, AloneHolds, ServesHolds, IInvHolds, PTL DEF Spec, SramSuccessIsWhole

-----------------------------------------------------------------------------
(* What FpgaDesigns sees of a step. *)

LEMMA WholeImage ==
    ASSUME NEW o \in Tasks \cup {"old"}
    PROVE  /\ flash = [i \in 1..N |-> o] => Image = o
           /\ flash' = [i \in 1..N |-> o] => Image' = o
BY NAssumption DEF Image

LEMMA PartImage ==
    ASSUME NEW i \in 1..N
    PROVE  /\ flash[i] \in {"erased", "mixed"} => Image = "damaged"
           /\ flash'[i] \in {"erased", "mixed"} => Image' = "damaged"
           /\ Image' \in {flash'[i], "damaged"}
<1>1. {"erased", "mixed"} \cap (Tasks \cup {"old"}) = {}
  BY TasksAssumption
<1>2. 1 \in 1..N
  BY NAssumption
<1> QED BY <1>1, <1>2 DEF Image

\* A step of t changes what is known of the request of t alone.
LEMMA ResultMoves ==
    ASSUME NEW t \in Tasks, \A u \in Tasks \ {t} : task'[u] = task[u]
    PROVE  /\ Result' = [Result EXCEPT ![t] = Outcome(task'[t])]
           /\ Lost' = [Lost EXCEPT ![t] = task'[t].lost]
           /\ task'[t].lost = task[t].lost => Lost' = Lost
<1>1. /\ Result' = [u \in Tasks |-> Outcome(task'[u])]
      /\ Lost' = [u \in Tasks |-> task'[u].lost]
  BY DEF Result, Outcome, Lost
<1>2. \A u \in Tasks : /\ Result'[u] = IF u = t THEN Outcome(task'[t]) ELSE Result[u]
                       /\ Lost'[u] = IF u = t THEN task'[t].lost ELSE Lost[u]
  BY <1>1 DEF Result, Lost
<1>3. /\ Result = [u \in Tasks |-> Result[u]] /\ Result' = [u \in Tasks |-> Result'[u]]
      /\ Lost = [u \in Tasks |-> Lost[u]] /\ Lost' = [u \in Tasks |-> Lost'[u]]
      /\ Lost[t] = task[t].lost
  BY <1>1 DEF Result, Lost
<1> HIDE DEF Result, Lost
<1> QED BY <1>2, <1>3

LEMMA ResultStep ==
    ASSUME IInv, IInv', NEW t \in Tasks, Works(t)
    PROVE  /\ Result[t] = "busy"
           /\ Result' = [Result EXCEPT ![t] = Outcome(task'[t])]
           /\ task'[t].pc # "idle" => Result' = Result
           /\ Lost' = [Lost EXCEPT ![t] = task'[t].lost]
           /\ task'[t].lost = task[t].lost => Lost' = Lost
<1>1. /\ task[t].pc # "idle"
      /\ \A u \in Tasks \ {t} : task'[u] = task[u]
  BY OwnStep, TaskFacts
<1>2. Result[t] = "busy"
  BY <1>1 DEF Result, Outcome
<1>3. /\ Result' = [Result EXCEPT ![t] = Outcome(task'[t])]
      /\ Lost' = [Lost EXCEPT ![t] = task'[t].lost]
      /\ task'[t].lost = task[t].lost => Lost' = Lost
  BY <1>1, ResultMoves
<1>4. task'[t].pc # "idle" => Outcome(task'[t]) = "busy"
  BY DEF Outcome
<1>5. Result = [u \in Tasks |-> Result[u]]
  BY DEF Result
<1> HIDE DEF Result, Lost, Outcome
<1> QED BY <1>2, <1>3, <1>4, <1>5

\* Nothing is lost but in an erase or a write.
LEMMA LostKept ==
    ASSUME IInv, IInv', SoloInv, NEW t \in Tasks, Works(t), ~ (Erase(t) \/ Write(t))
    PROVE  Lost' = Lost
<1> USE DEF At, Goto, Answer
<1>1. task[t] \in TaskStates /\ task \in [Tasks -> TaskStates]
  BY TaskFacts
<1>2. CASE \/ TakeJtag(t) \/ JtagTimeout(t) \/ SramBegin(t) \/ SramBeginFails(t) \/ Shift(t)
           \/ ShiftFails(t) \/ SramEnd(t) \/ SramEndFails(t) \/ Settle(t)
  <2>1. task'[t].lost = task[t].lost
    BY <1>1, <1>2 DEF TakeJtag, JtagTimeout, SramBegin, SramBeginFails, Shift, ShiftFails, SramEnd,
                      SramEndFails, Settle, TaskStates
  <2> QED BY <2>1, ResultStep
<1>3. CASE \/ Reinit(t) \/ ChipReset(t) \/ ChipResetFails(t) \/ Remove(t) \/ Add(t) \/ AddFails(t)
  <2>1. task[t].back \in {"lock", "read", "reading"}
    BY <1>1, <1>3, TaskFacts, SoloFacts
       DEF Reinit, ChipReset, ChipResetFails, Remove, Add, AddFails, ReinitPcs, Solo, Counted, TaskStates
  <2>2. CASE NotReady(t)
    <3>1. task' = [task EXCEPT ![t].pc = "idle", ![t].answer = "error"]
      BY <2>1, <2>2 DEF NotReady
    <3>2. task'[t].lost = task[t].lost
      BY <1>1, <3>1 DEF TaskStates
    <3> QED BY <3>2, ResultStep
  <2>3. CASE ~ NotReady(t)
    <3>1. task'[t].lost = task[t].lost
      BY <1>1, <1>3, <2>3 DEF Reinit, ChipReset, ChipResetFails, Remove, Add, AddFails, TaskStates
    <3> QED BY <3>1, ResultStep
  <2> QED BY <2>2, <2>3
<1>4. CASE \/ Recv(t) \/ RecvFails(t) \/ Lock(t) \/ EnsureForErase(t) \/ EnsureForWrite(t)
           \/ FpgaReset(t) \/ EnsureForRead(t) \/ ReadId(t)
  <2>1. task'[t].lost = task[t].lost
    BY <1>1, <1>4 DEF Recv, RecvFails, Lock, EnsureForErase, EnsureForWrite, EnsureReady, FpgaReset,
                      EnsureForRead, ReadId, TaskStates
  <2> QED BY <2>1, ResultStep
<1> QED BY <1>2, <1>3, <1>4, Zenon DEF Works, Proceed, AwaitClient

\* Most steps are not seen.
LEMMA Unseen ==
    ASSUME IInv, IInv', NEW t \in Tasks, Works(t), task'[t].pc # "idle",
           UNCHANGED <<fpga, flash>>, Lost' = Lost
    PROVE  UNCHANGED Designs!vars
<1>1. Result' = Result
  BY ResultStep
<1>2. Image' = Image
  BY DEF Image
<1> QED BY <1>1, <1>2 DEF Designs!vars, Result, Lost

\* A request that fails has changed nothing but, perhaps, what the FPGA runs.
LEMMA SeenToFail ==
    ASSUME IInv, IInv', NEW t \in Tasks, Works(t), task'[t].pc = "idle",
           task'[t].answer = "error", UNCHANGED flash, Lost' = Lost,
           fpga' \in {fpga, "flash", "blank"}
    PROVE  Designs!Fail(t)
<1>1. Result[t] = "busy" /\ Result' = [Result EXCEPT ![t] = "failed"]
  BY ResultStep DEF Outcome, None
<1>2. Image' = Image
  BY DEF Image
<1>3. Runs' \in {Runs, Image, "blank"}
  BY <1>2 DEF Runs
<1> QED BY <1>1, <1>2, <1>3 DEF Designs!Fail, Designs!Busy, Designs!End, Result, Runs, Lost

LEMMA SeenRequest ==
    ASSUME ~ Overlap, IInv, IInv', NEW t \in Tasks, NEW op \in Ops, Request(t, op)
    PROVE  Designs!Accept(t)
<1>1. /\ \A u \in Tasks : task[u].pc = "idle"
      /\ task'[t].pc # "idle" /\ task'[t].lost = FALSE
      /\ \A u \in Tasks \ {t} : task'[u] = task[u]
      /\ UNCHANGED <<fpga, flash>>
  BY OpsAssumption, TaskFacts DEF Request, At, flashVars, fpgaVars
<1>2. \A u \in Tasks : Result[u] # "busy"
  BY <1>1, TaskFacts DEF Result, Outcome, TaskStates
<1>3. Outcome(task'[t]) = "busy"
  BY <1>1 DEF Outcome
<1>4. Result' = [Result EXCEPT ![t] = "busy"] /\ Lost' = [Lost EXCEPT ![t] = FALSE]
  BY <1>1, <1>3, ResultMoves
<1>5. Image' = Image /\ Runs' = Runs
  BY <1>1 DEF Image, Runs
<1> QED BY <1>2, <1>4, <1>5 DEF Designs!Accept, Designs!Busy, Designs!End, Result, Runs, Lost

LEMMA SeenJtag ==
    ASSUME IInv, IInv', SoloInv, ServesInv, NEW t \in Tasks, Works(t),
           \/ TakeJtag(t) \/ JtagTimeout(t) \/ SramBegin(t) \/ SramBeginFails(t)
           \/ Shift(t) \/ ShiftFails(t) \/ SramEnd(t) \/ SramEndFails(t) \/ Settle(t)
    PROVE  [Designs!Next]_Designs!vars
<1> USE DEF At, Goto, Answer
<1>1. task[t] \in TaskStates /\ task \in [Tasks -> TaskStates]
  BY TaskFacts
<1>2. Lost' = Lost
  <2>1. ~ (Erase(t) \/ Write(t))
    BY DEF TakeJtag, JtagTimeout, SramBegin, SramBeginFails, Shift, ShiftFails, SramEnd,
           SramEndFails, Settle, Erase, Write
  <2> QED BY <2>1, LostKept
<1>3. CASE TakeJtag(t) \/ Shift(t) \/ Settle(t)
  <2>1. UNCHANGED <<fpga, flash>>
    BY <1>3 DEF TakeJtag, Shift, Settle, flashVars, fpgaVars
  <2>2. task'[t].pc \in {"begin", "shift", "end", "reinit", "read"}
    BY <1>1, <1>3 DEF TakeJtag, Shift, Settle, TaskStates
  <2> QED BY <1>2, <2>1, <2>2, Unseen
<1>4. CASE JtagTimeout(t) \/ SramBeginFails(t) \/ ShiftFails(t) \/ SramEndFails(t)
  <2>1. /\ task'[t].pc = "idle" /\ task'[t].answer = "error"
        /\ UNCHANGED flash /\ fpga' \in {fpga, "flash", "blank"}
    BY <1>1, <1>4 DEF JtagTimeout, SramBeginFails, ShiftFails, SramEndFails, flashVars, fpgaVars,
                      TaskStates
  <2> QED BY <1>2, <2>1, SeenToFail DEF Designs!Next
<1>5. CASE SramBegin(t)
  <2>1. task'[t].pc # "idle" /\ fpga' = "blank" /\ UNCHANGED flash
    BY <1>1, <1>5 DEF SramBegin, flashVars
  <2>2. Result[t] = "busy" /\ Result' = Result
    BY <2>1, ResultStep
  <2>3. Image' = Image /\ Runs' = "blank"
    BY <2>1 DEF Image, Runs
  <2>4. Designs!Erase(t)
    BY <1>2, <2>2, <2>3 DEF Designs!Erase, Designs!Busy, Result, Runs, Lost
  <2> QED BY <2>4 DEF Designs!Next
<1>6. CASE SramEnd(t)
  <2>1. /\ task[t].pc = "end" /\ Whole(t)
        /\ fpga = "blank" /\ task[t].op \in {"sram", "update", "id"}
    BY <1>6, TaskFacts, SoloFacts DEF SramEnd, Solo, Streams, Whole, ServesInv, Serves
  <2>2. UNCHANGED flash /\ Image' = Image /\ Runs = "blank"
    BY <1>6, <2>1 DEF SramEnd, flashVars, Image, Runs
  <2>3. CASE task[t].op = "sram"
    <3>1. /\ fpga' \in {"user", "blank"}
          /\ task'[t].pc = "idle" /\ task'[t].answer = "ok" /\ task'[t].op = "sram"
      BY <1>1, <1>6, <2>1, <2>3 DEF SramEnd, Started, TaskStates
    <3>2. /\ Result[t] = "busy" /\ Result' = [Result EXCEPT ![t] = "loaded"]
          /\ Runs' \in {"user", "blank"}
      BY <3>1, ResultStep DEF Outcome, None, Runs
    <3>3. Designs!Load(t)
      BY <1>2, <2>2, <3>2 DEF Designs!Load, Designs!Busy, Designs!End, Result, Runs, Lost
    <3> QED BY <3>3 DEF Designs!Next
  <2>4. CASE task[t].op # "sram"
    <3>1. fpga' \in {"bridge", "blank"} /\ task'[t].pc = "settle"
      BY <1>1, <1>6, <2>1, <2>4 DEF SramEnd, Started, TaskStates
    <3>2. CASE fpga' = "blank"
      BY <1>2, <2>1, <2>2, <3>1, <3>2, Unseen
    <3>3. CASE fpga' = "bridge"
      <4>1. Result[t] = "busy" /\ Result' = Result /\ Runs' = "bridge"
        BY <3>1, <3>3, ResultStep DEF Runs
      <4>2. Designs!Bridge(t)
        BY <1>2, <2>2, <4>1 DEF Designs!Bridge, Designs!Busy, Result, Runs, Lost
      <4> QED BY <4>2 DEF Designs!Next
    <3> QED BY <3>1, <3>2, <3>3
  <2> QED BY <2>3, <2>4
<1> QED BY <1>3, <1>4, <1>5, <1>6

LEMMA SeenReinit ==
    ASSUME IInv, IInv', SoloInv, NEW t \in Tasks, Works(t),
           \/ Reinit(t) \/ ChipReset(t) \/ ChipResetFails(t) \/ Remove(t) \/ Add(t) \/ AddFails(t)
    PROVE  [Designs!Next]_Designs!vars
<1> USE DEF At, Goto
<1>1. /\ task[t] \in TaskStates /\ task \in [Tasks -> TaskStates]
      /\ task[t].pc \in ReinitPcs /\ task[t].back \in {"lock", "read", "reading"}
  BY TaskFacts, SoloFacts
     DEF Reinit, ChipReset, ChipResetFails, Remove, Add, AddFails, ReinitPcs, Solo, Counted, TaskStates
<1>2. UNCHANGED <<fpga, flash>> /\ Lost' = Lost
  <2>1. UNCHANGED <<fpga, flash>>
    BY DEF Reinit, ChipReset, ChipResetFails, Remove, Add, AddFails, flashVars, fpgaVars
  <2>2. ~ (Erase(t) \/ Write(t))
    BY <1>1 DEF Erase, Write, ReinitPcs
  <2> QED BY <2>1, <2>2, LostKept
<1>3. task'[t].pc # "idle" \/ NotReady(t)
  BY <1>1 DEF Reinit, ChipReset, ChipResetFails, Remove, Add, AddFails, TaskStates
<1>4. CASE task'[t].pc # "idle"
  BY <1>2, <1>4, Unseen
<1>5. CASE NotReady(t)
  <2>1. Answer(t, "error")
    BY <1>1, <1>5 DEF NotReady
  <2>2. task'[t].pc = "idle" /\ task'[t].answer = "error"
    BY <1>1, <2>1 DEF Answer, TaskStates
  <2> QED BY <1>2, <2>2, SeenToFail DEF Designs!Next
<1> QED BY <1>3, <1>4, <1>5

LEMMA SeenRecv ==
    ASSUME IInv, IInv', SoloInv, NEW t \in Tasks, Works(t),
           \/ Lock(t) \/ EnsureForErase(t) \/ Recv(t) \/ RecvFails(t)
           \/ EnsureForWrite(t) \/ EnsureForRead(t)
    PROVE  [Designs!Next]_Designs!vars
<1> USE DEF At, Goto
<1>1. task[t] \in TaskStates /\ task \in [Tasks -> TaskStates]
  BY TaskFacts
<1>2. UNCHANGED <<fpga, flash>> /\ Lost' = Lost
  <2>1. UNCHANGED <<fpga, flash>>
    BY DEF Lock, EnsureForErase, Recv, RecvFails, EnsureForWrite, EnsureForRead, EnsureReady,
           flashVars, fpgaVars
  <2>2. ~ (Erase(t) \/ Write(t))
    BY DEF Lock, EnsureForErase, Recv, RecvFails, EnsureForWrite, EnsureForRead, Erase, Write
  <2> QED BY <2>1, <2>2, LostKept
<1>3. task'[t].pc # "idle" \/ (task'[t].pc = "idle" /\ task'[t].answer = "error")
  BY <1>1 DEF Lock, EnsureForErase, Recv, RecvFails, EnsureForWrite, EnsureForRead, EnsureReady,
              TaskStates
<1> QED BY <1>2, <1>3, Unseen, SeenToFail DEF Designs!Next

\* Where the flash is erased or written to, the FPGA runs the bridge.  An erase that is
\* not refused leaves no image; one that is, leaves the image or none.
LEMMA SeenErase ==
    ASSUME IInv, IInv', SoloInv, NEW t \in Tasks, Works(t), Erase(t)
    PROVE  Designs!Wipe(t) \/ Designs!Refuse(t)
<1>1. /\ task[t].pc = "erasing" /\ fpga' = fpga
      /\ task[t] \in TaskStates /\ task \in [Tasks -> TaskStates] /\ flash \in Contents
  BY TaskFacts DEF Erase, At, fpgaVars
<1>2. fpga = "bridge" /\ Runs = "bridge" /\ Runs' = "bridge"
  BY <1>1, SoloFacts DEF Solo, BridgePcs, FlashPcs, Runs
<1>3. PICK effect \in [1..N -> Effects \cup {"none"}] :
        /\ flash' = [i \in 1..N |-> After(effect[i], flash[i], "erased")]
        /\ AfterErase(t, \E i \in 1..N : effect[i] # "done")
  BY Zenon DEF Erase
<1>4. /\ task'[t].pc = "recv"
      /\ task'[t].lost = (task[t].lost \/ \E i \in 1..N : effect[i] # "done")
  BY <1>1, <1>3 DEF AfterErase, TaskStates
<1>5. Result[t] = "busy" /\ Result' = Result /\ Lost' = [Lost EXCEPT ![t] = task'[t].lost]
  BY <1>4, ResultStep
<1>6. CASE \A i \in 1..N : effect[i] = "done"
  <2>1. 1 \in 1..N /\ flash'[1] = "erased"
    BY <1>3, <1>6, NAssumption DEF After
  <2>2. Image' = "damaged"
    BY <2>1, PartImage
  <2>3. task'[t].lost = task[t].lost
    BY <1>1, <1>4, <1>6 DEF TaskStates
  <2>4. Lost' = Lost
    BY <2>3, ResultStep
  <2> QED BY <1>2, <1>5, <2>2, <2>4 DEF Designs!Wipe, Designs!Busy, Result, Runs, Lost
<1>7. CASE ~ \A i \in 1..N : effect[i] = "done"
  <2>1. Lost' = [Lost EXCEPT ![t] = TRUE]
    BY <1>1, <1>4, <1>5, <1>7 DEF TaskStates
  <2>2. Image' \in {Image, "damaged"}
    <3>1. CASE \A i \in 1..N : effect[i] = "none"
      <4>1. flash' = flash
        BY <1>1, <1>3, <3>1 DEF After, Contents
      <4> QED BY <4>1 DEF Image
    <3>2. CASE \E i \in 1..N : effect[i] # "none"
      <4>1. PICK i \in 1..N : effect[i] # "none"
        BY <3>2
      <4>2. effect[i] \in {"done", "part"}
        BY <4>1, EffectsAre
      <4>3. flash'[i] \in {"erased", "mixed"}
        BY <1>3, <4>2 DEF After
      <4> QED BY <4>3, PartImage
    <3> QED BY <3>1, <3>2
  <2> QED BY <1>2, <1>5, <2>1, <2>2 DEF Designs!Refuse, Designs!Busy, Result, Runs, Lost
<1> QED BY <1>6, <1>7

\* A write to an erased chunk may complete an image; one to any other chunk spoils it.
LEMMA SeenWrite ==
    ASSUME IInv, IInv', SoloInv, NEW t \in Tasks, Works(t), Write(t)
    PROVE  Designs!Wipe(t) \/ Designs!Program(t) \/ Designs!Refuse(t)
<1>1. /\ task[t].pc = "writing" /\ task[t] \in TaskStates /\ task \in [Tasks -> TaskStates]
      /\ task[t].n \in 0..N /\ task[t].n < N /\ fpga' = fpga /\ flash \in Contents
  BY TaskFacts DEF Write, At, fpgaVars, Counted, TaskStates
<1>2. fpga = "bridge" /\ Runs = "bridge" /\ Runs' = "bridge"
  BY <1>1, SoloFacts DEF Solo, BridgePcs, FlashPcs, Runs
<1> DEFINE k == task[t].n + 1
<1>3. k \in 1..N
  BY <1>1, NAssumption
<1>4. PICK effect \in Effects :
        /\ flash' = [flash EXCEPT ![k] = After(effect, @, IF @ = "erased" THEN t ELSE "mixed")]
        /\ AfterWrite(t, effect # "done")
  BY DEF Write
<1>5. effect \in {"done", "none", "part"}
  BY EffectsAre
<1>6. /\ task'[t].pc # "idle" /\ task'[t].lost = (task[t].lost \/ effect # "done")
  BY <1>1, <1>4 DEF AfterWrite, TaskStates
<1>7. Result[t] = "busy" /\ Result' = Result /\ Lost' = [Lost EXCEPT ![t] = task'[t].lost]
  BY <1>6, ResultStep
<1>8. flash'[k] = After(effect, flash[k], IF flash[k] = "erased" THEN t ELSE "mixed")
  BY <1>1, <1>3, <1>4 DEF Contents
<1> HIDE DEF k
<1>9. CASE effect = "done"
  <2>1. task'[t].lost = task[t].lost
    BY <1>1, <1>6, <1>9 DEF TaskStates
  <2>2. Lost' = Lost
    BY <2>1, ResultStep
  <2>3. CASE flash[k] = "erased"
    <3>1. Image = "damaged" /\ Image' \in {t, "damaged"}
      BY <1>3, <1>8, <1>9, <2>3, PartImage DEF After
    <3> QED BY <1>2, <1>7, <2>2, <3>1
            DEF Designs!Wipe, Designs!Program, Designs!Busy, Result, Runs, Lost
  <2>4. CASE flash[k] # "erased"
    <3>1. Image' = "damaged"
      BY <1>3, <1>8, <1>9, <2>4, PartImage DEF After
    <3> QED BY <1>2, <1>7, <2>2, <3>1 DEF Designs!Wipe, Designs!Busy, Result, Runs, Lost
  <2> QED BY <2>3, <2>4
<1>10. CASE effect # "done"
  <2>1. Lost' = [Lost EXCEPT ![t] = TRUE]
    BY <1>1, <1>6, <1>7, <1>10 DEF TaskStates
  <2>2. Image' \in {Image, "damaged"}
    <3>1. CASE effect = "none"
      <4>1. flash' = flash
        BY <1>1, <1>4, <3>1 DEF After, Contents
      <4> QED BY <4>1 DEF Image
    <3>2. CASE effect = "part"
      BY <1>3, <1>8, <3>2, PartImage DEF After
    <3> QED BY <1>5, <1>10, <3>1, <3>2
  <2> QED BY <1>2, <1>7, <2>1, <2>2 DEF Designs!Refuse, Designs!Busy, Result, Runs, Lost
<1> QED BY <1>9, <1>10

\* The reset: the answer "ok" is that to an update which the flash holds, or of which it
\* refused a part.
LEMMA SeenReset ==
    ASSUME IInv, IInv', SoloInv, ServesInv, NEW t \in Tasks, Works(t), FpgaReset(t)
    PROVE  Designs!Start(t) \/ Designs!Fail(t)
<1>1. /\ task[t].pc = "reset" /\ task[t] \in TaskStates
      /\ task[t].op = "update" /\ task[t].answer \in {"ok", "error"}
      /\ fpga' = "flash" /\ UNCHANGED flash
      /\ task'[t] = [task[t] EXCEPT !.pc = "idle"]
  BY TaskFacts DEF FpgaReset, At, Goto, flashVars, ServesInv, Serves
<1>2. /\ task'[t].pc = "idle" /\ task'[t].op = "update"
      /\ task'[t].answer = task[t].answer /\ task'[t].lost = task[t].lost
  BY <1>1 DEF TaskStates
<1>3. Lost' = Lost /\ Lost[t] = task[t].lost
  BY <1>2, ResultStep DEF Lost
<1>4. CASE task[t].answer = "error"
  BY <1>1, <1>2, <1>3, <1>4, SeenToFail
<1>5. CASE task[t].answer = "ok"
  <2>1. Image = t \/ Lost[t]
    <3>1. CASE task[t].lost
      BY <1>3, <3>1
    <3>2. CASE ~ task[t].lost
      <4>1. \A i \in 1..N : flash[i] = t
        BY <1>1, <1>5, <3>2, SoloFacts DEF Solo, Reports
      <4>2. flash = [i \in 1..N |-> t]
        BY <4>1, TaskFacts DEF Contents
      <4> QED BY <4>2, WholeImage
    <3> QED BY <3>1, <3>2
  <2>2. Image' = Image /\ Runs' = Image
    BY <1>1 DEF Image, Runs
  <2>3. Result[t] = "busy" /\ Result' = [Result EXCEPT ![t] = "flashed"]
    BY <1>2, <1>5, ResultStep DEF Outcome, None
  <2> QED BY <1>3, <2>1, <2>2, <2>3
          DEF Designs!Start, Designs!Busy, Designs!End, Result, Runs, Lost
<1> QED BY <1>1, <1>4, <1>5

\* An ID is that of the flash behind the bridge.
LEMMA SeenRead ==
    ASSUME IInv, IInv', SoloInv, DeviceInv, ServesInv, NEW t \in Tasks, Works(t), ReadId(t)
    PROVE  Designs!Identify(t) \/ Designs!Fail(t)
<1>1. PICK a \in {"ok", "error"} : (a = "ok" => Reachable \/ ~ handle) /\ Answer(t, a)
  BY Zenon DEF ReadId
<1>2. /\ task[t].pc = "reading" /\ task[t].op \in {"id", "id_current"} /\ task[t] \in TaskStates
      /\ UNCHANGED <<fpga, flash>>
      /\ task'[t] = [task[t] EXCEPT !.pc = "idle", !.answer = a]
  BY <1>1, TaskFacts DEF ReadId, Answer, At, flashVars, fpgaVars, ServesInv, Serves
<1>3. /\ task'[t].pc = "idle" /\ task'[t].op = task[t].op
      /\ task'[t].answer = a /\ task'[t].lost = task[t].lost
  BY <1>2 DEF TaskStates
<1>4. Lost' = Lost
  BY <1>3, ResultStep
<1>5. CASE a = "error"
  BY <1>2, <1>3, <1>4, <1>5, SeenToFail
<1>6. CASE a = "ok"
  <2>1. fpga = "bridge"
    BY <1>1, <1>2, <1>6 DEF DeviceInv, Reachable
  <2>2. Runs = "bridge" /\ Runs' = Runs /\ Image' = Image
    BY <1>2, <2>1 DEF Runs, Image
  <2>3. Result[t] = "busy" /\ Result' = [Result EXCEPT ![t] = "identified"]
    BY <1>2, <1>3, <1>6, ResultStep DEF Outcome, None
  <2> QED BY <1>4, <2>2, <2>3
          DEF Designs!Identify, Designs!Busy, Designs!End, Result, Runs, Lost
<1> QED BY <1>5, <1>6

LEMMA SeenInit == Init => Designs!Init
<1> SUFFICES ASSUME Init PROVE Designs!Init
  OBVIOUS
<1>1. Image = "old" /\ Runs = "old"
  BY WholeImage DEF Init, Runs
<1>2. ASSUME NEW t \in Tasks
      PROVE  task[t].pc = "idle" /\ task[t].answer = None /\ task[t].lost = FALSE
  BY DEF Init, Resting
<1>3. ASSUME NEW t \in Tasks PROVE Outcome(task[t]) = "none"
  BY <1>2 DEF Outcome, None
<1>4. Result = [t \in Tasks |-> "none"] /\ Lost = [t \in Tasks |-> FALSE]
  BY <1>2, <1>3 DEF Result, Lost
<1> QED BY <1>1, <1>4 DEF Designs!Init, Result, Runs, Lost

LEMMA SeenNext ==
    ASSUME ~ Overlap, IInv, IInv', SoloInv, DeviceInv, ServesInv, [Next]_vars
    PROVE  [Designs!Next]_Designs!vars
<1>1. CASE UNCHANGED vars
  BY <1>1 DEF vars, Designs!vars, Image, Outcome
<1>2. ASSUME NEW t \in Tasks, NEW op \in Ops, Request(t, op)
      PROVE  Designs!Next
  BY <1>2, SeenRequest DEF Designs!Next
<1>3. ASSUME NEW t \in Tasks, Works(t)
      PROVE  [Designs!Next]_Designs!vars
  <2>1. CASE Erase(t) \/ Write(t)
    BY <1>3, <2>1, SeenErase, SeenWrite DEF Designs!Next
  <2>2. CASE FpgaReset(t) \/ ReadId(t)
    BY <1>3, <2>2, SeenReset, SeenRead DEF Designs!Next
  <2> QED BY <1>3, <2>1, <2>2, SeenJtag, SeenReinit, SeenRecv, Zenon DEF Works, Proceed, AwaitClient
<1>4. ASSUME NEW t \in Tasks, Aborts(t) PROVE FALSE
  BY <1>4, SoloNoAbort
<1> QED BY <1>1, <1>2, <1>3, <1>4, Zenon DEF Next, Works

\* Where requests do not overlap, both handlers do what FpgaDesigns says, of every step
\* and whatever fails: the flash is touched through the bridge only, what the FPGA has
\* loaded from it stays what it holds, and each answer that reports a success is given
\* when that is done, but for what the flash refused of an update and for a DONE that
\* the FPGA does not show.
THEOREM DesignsAreKept ==
    ASSUME ~ Overlap
    PROVE  Spec => ImplementsFpgaDesigns
<1>1. IInv /\ IInv' /\ AloneInv /\ DeviceInv /\ ServesInv /\ [Next]_vars
        => [Designs!Next]_Designs!vars
  BY SeenNext DEF AloneInv
<1> QED BY <1>1, SeenInit, AloneHolds, DeviceHolds, ServesHolds, IInvHolds, PTL
        DEF Spec, Designs!Spec, ImplementsFpgaDesigns
===============================================================================
