------------------------------ MODULE JtagMutex ------------------------------
(***************************************************************************)
(* loader_jtag_lock, loader_jtag_unlock and loader_jtag_ensure_init of     *)
(* http_server.c: the lock over the JTAG pins.  Its mutex is made by the   *)
(* first request, whichever task that comes from, by a check and a         *)
(* creation that nothing protects; and unlock gives back the mutex that    *)
(* s_jtag_mutex names at that moment.                                      *)
(*                                                                         *)
(* FreeRTOS is external: to give a mutex that is free fails, to give one   *)
(* that another task holds is an assertion, which resets the board.        *)
(***************************************************************************)
CONSTANTS
    Tasks,   \* the transports in use
    Handles  \* the mutexes there is memory for

ASSUME NoneAssumption == "none" \notin Tasks \cup Handles

VARIABLES
    mutex,        \* s_jtag_mutex
    made,         \* the mutexes that were created
    holder,       \* who holds each
    initialized,  \* s_jtag_initialized
    task          \* where each transport is, and the mutex it takes

vars == <<mutex, made, holder, initialized, task>>

None == "none"

IdleTask == [pc |-> "idle", mine |-> None]

TypeOK ==
    /\ mutex \in Handles \cup {None}
    /\ made \in SUBSET Handles
    /\ holder \in [Handles -> Tasks \cup {None}]
    /\ initialized \in BOOLEAN
    /\ task \in [Tasks -> [pc   : {"idle", "check", "create", "fetch", "take",
                                   "init", "pins", "use"},
                           mine : Handles \cup {None}]]

Init ==
    /\ mutex = None
    /\ made = {}
    /\ holder = [h \in Handles |-> None]
    /\ initialized = FALSE
    /\ task = [t \in Tasks |-> IdleTask]

At(t, l)   == task[t].pc = l
Goto(t, l) == task' = [task EXCEPT ![t].pc = l]

Request(t) ==
    /\ At(t, "idle")
    /\ Goto(t, "check")
    /\ UNCHANGED <<mutex, made, holder, initialized>>

\* ensure_jtag_mutex: the check, the creation, and the read it returns.
Check(t) ==
    /\ At(t, "check")
    /\ Goto(t, IF mutex = None THEN "create" ELSE "fetch")
    /\ UNCHANGED <<mutex, made, holder, initialized>>

Create(t) ==
    /\ At(t, "create")
    /\ \E h \in Handles \ made :
         /\ made' = made \cup {h}
         /\ mutex' = h
    /\ Goto(t, "fetch")
    /\ UNCHANGED <<holder, initialized>>

Fetch(t) ==
    /\ At(t, "fetch")
    /\ task' = [task EXCEPT ![t].pc = "take", ![t].mine = mutex]
    /\ UNCHANGED <<mutex, made, holder, initialized>>

\* Slip: take the lock without looking at who has it.
TakeAnyway(t) ==
    /\ At(t, "take")
    /\ holder' = [holder EXCEPT ![task[t].mine] = t]
    /\ Goto(t, "init")
    /\ UNCHANGED <<mutex, made, initialized>>

\* xSemaphoreTake, which fails after 0 or 30 s.
Take(t) ==
    /\ At(t, "take")
    /\ holder[task[t].mine] = None
    /\ holder' = [holder EXCEPT ![task[t].mine] = t]
    /\ Goto(t, "init")
    /\ UNCHANGED <<mutex, made, initialized>>

TakeTimesOut(t) ==
    /\ At(t, "take")
    /\ holder[task[t].mine] # None
    /\ task' = [task EXCEPT ![t] = IdleTask]
    /\ UNCHANGED <<mutex, made, holder, initialized>>

\* loader_jtag_ensure_init; jtag_gowin_init sets up and drives the pins.
CheckInit(t) ==
    /\ At(t, "init")
    /\ Goto(t, IF initialized THEN "use" ELSE "pins")
    /\ UNCHANGED <<mutex, made, holder, initialized>>

InitPins(t) ==
    /\ At(t, "pins")
    /\ initialized' = TRUE
    /\ Goto(t, "use")
    /\ UNCHANGED <<mutex, made, holder>>

\* Slip: return without the unlock.
UnlockForgotten(t) ==
    /\ At(t, "use")
    /\ holder[mutex] \in {t, None}
    /\ task' = [task EXCEPT ![t] = IdleTask]
    /\ UNCHANGED <<mutex, made, holder, initialized>>

\* loader_jtag_unlock: xSemaphoreGive(s_jtag_mutex).
Unlock(t) ==
    /\ At(t, "use")
    /\ holder[mutex] \in {t, None}
    /\ holder' = [holder EXCEPT ![mutex] = None]
    /\ task' = [task EXCEPT ![t] = IdleTask]
    /\ UNCHANGED <<mutex, made, initialized>>

\* FreeRTOS asserts that only the holder gives a mutex: all that is in RAM is lost.
UnlockAborts(t) ==
    /\ At(t, "use")
    /\ holder[mutex] \notin {t, None}
    /\ mutex' = None
    /\ made' = {}
    /\ holder' = [h \in Handles |-> None]
    /\ initialized' = FALSE
    /\ task' = [u \in Tasks |-> IdleTask]

Next == \E t \in Tasks :
    \/ Request(t) \/ Check(t) \/ Create(t) \/ Fetch(t) \/ Take(t) \/ TakeTimesOut(t)
    \/ CheckInit(t) \/ InitPins(t) \/ Unlock(t) \/ UnlockAborts(t)

Spec == Init /\ [][Next]_vars

-----------------------------------------------------------------------------
(* Properties. *)

Using(t) == task[t].pc \in {"init", "pins", "use"}

\* "HTTP and serial can never ... race for the JTAG pins" (serial_flash.c):
\* one transport at a time is past loader_jtag_lock.
MutualExclusion == \A t, u \in Tasks : Using(t) /\ Using(u) => t = u

\* What is true of it: the lock excludes as long as only one mutex was ever
\* made, that is, unless the very first two requests come together.
OneMutexOneUser ==
    (\A g, h \in made : g = h) => MutualExclusion

\* Whatever the first two requests did, the mutex that later requests will
\* take is not left taken by a transport that has gone: JTAG stays usable.
LockNotLost ==
    mutex # None /\ holder[mutex] # None
        => Using(holder[mutex]) /\ task[holder[mutex]].mine = mutex

\* The inductive invariant: who is past the lock holds the mutex it took, ...
HoldsMine == \A t \in Tasks : Using(t) => holder[task[t].mine] = t

\* ... which was made, as was the one that is current.
MadeMine ==
    /\ mutex # None => mutex \in made
    /\ mutex = None => made = {}
    /\ \A t \in Tasks :
         /\ task[t].pc \in {"take", "init", "pins", "use"} => task[t].mine \in made
         /\ task[t].pc \in {"fetch", "take", "init", "pins", "use"} => mutex # None
    /\ \A h \in Handles \ made : holder[h] = None

Inv == TypeOK /\ HoldsMine /\ MadeMine /\ LockNotLost
=============================================================================
