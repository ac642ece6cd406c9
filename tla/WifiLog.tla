------------------------------- MODULE WifiLog -------------------------------
(***************************************************************************)
(* wifi_log.c: log output is queued for a task that broadcasts it over     *)
(* UDP, and is dropped while flash transfers are active.  The transports   *)
(* bracket a transfer with wifi_log_flash_begin and _end; any task may     *)
(* log; s_flash_active is looked at without the lock that guards it.       *)
(*                                                                         *)
(* Abstractions.  The ring buffer holds records, all alike.  The           *)
(* notification of the sender only makes it wake before its 50 ms are      *)
(* over, and is left out.                                                  *)
(***************************************************************************)
EXTENDS Naturals, FiniteSets

CONSTANTS
    Transports,  \* who makes flash transfers
    Loggers,     \* the tasks that print
    Capacity     \* records that fit in the ring buffer

ASSUME TransportsAssumption == IsFiniteSet(Transports)
ASSUME CapacityAssumption   == Capacity \in Nat \ {0}

VARIABLES
    transfers,  \* the transports between flash_begin and flash_end
    count,      \* s_flash_count
    active,     \* s_flash_active
    socket,     \* s_udp_sock is open
    ring,       \* records in s_ringbuf
    logger,     \* where each task is in its call to printf or ESP_LOGx
    sender      \* where udp_sender_task is

flashVars == <<transfers, count, active>>
vars      == <<transfers, count, active, socket, ring, logger, sender>>

TypeOK ==
    /\ transfers \in SUBSET Transports
    /\ count \in Nat
    /\ active \in BOOLEAN
    /\ socket \in BOOLEAN
    /\ ring \in 0..Capacity
    /\ logger \in [Loggers -> {"idle", "write", "queue"}]
    /\ sender \in {"wait", "discard", "receive", "packet"}

\* After wifi_log_early_init.
Init ==
    /\ transfers = {}
    /\ count = 0
    /\ active = FALSE
    /\ socket = FALSE
    /\ ring = 0
    /\ logger = [l \in Loggers |-> "idle"]
    /\ sender = "wait"

-----------------------------------------------------------------------------
\* wifi_log_start, whose socket may fail to open.
Start ==
    /\ ~ socket
    /\ socket' = TRUE
    /\ UNCHANGED <<flashVars, ring, logger, sender>>

FlashBegin(t) ==
    /\ t \notin transfers
    /\ transfers' = transfers \cup {t}
    /\ count' = count + 1
    /\ active' = TRUE
    /\ UNCHANGED <<socket, ring, logger, sender>>

\* Slip: the first transfer to end ends the pause for all.
FlashEndForAll(t) ==
    /\ t \in transfers
    /\ transfers' = transfers \ {t}
    /\ count' = count - 1
    /\ active' = FALSE
    /\ UNCHANGED <<socket, ring, logger, sender>>

FlashEnd(t) ==
    /\ t \in transfers
    /\ transfers' = transfers \ {t}
    /\ count' = count - 1
    /\ active' = (count' > 0)
    /\ UNCHANGED <<socket, ring, logger, sender>>

-----------------------------------------------------------------------------
\* quiet_vprintf (ESP_LOGx), which gives up while a transfer is active, ...
Log(l) ==
    /\ logger[l] = "idle"
    /\ ~ active
    /\ logger' = [logger EXCEPT ![l] = "write"]
    /\ UNCHANGED <<flashVars, socket, ring, sender>>

\* ... and printf, which does not.
Printf(l) ==
    /\ logger[l] = "idle"
    /\ logger' = [logger EXCEPT ![l] = "write"]
    /\ UNCHANGED <<flashVars, socket, ring, sender>>

\* __wrap__write_r: the console first; then the ring buffer, unless ...
WriteConsole(l) ==
    /\ logger[l] = "write"
    /\ logger' = [logger EXCEPT ![l] = IF active THEN "idle" ELSE "queue"]
    /\ UNCHANGED <<flashVars, socket, ring, sender>>

\* Slip: queue without looking for room.
QueueAnyway(l) ==
    /\ logger[l] = "queue"
    /\ ring' = ring + 1
    /\ logger' = [logger EXCEPT ![l] = "idle"]
    /\ UNCHANGED <<flashVars, socket, sender>>

\* What finds no room is dropped.
Queue(l) ==
    /\ logger[l] = "queue"
    /\ ring' = IF ring < Capacity THEN ring + 1 ELSE ring
    /\ logger' = [logger EXCEPT ![l] = "idle"]
    /\ UNCHANGED <<flashVars, socket, sender>>

-----------------------------------------------------------------------------
\* Slip: pause without emptying the buffer.
WakePausing ==
    /\ sender = "wait"
    /\ socket
    /\ ~ active
    /\ sender' = "receive"
    /\ UNCHANGED <<flashVars, socket, ring, logger>>

\* udp_sender_task: one look at s_flash_active decides for all that is queued.
Wake ==
    /\ sender = "wait"
    /\ socket
    /\ sender' = IF active THEN "discard" ELSE "receive"
    /\ UNCHANGED <<flashVars, socket, ring, logger>>

Discard ==
    /\ sender = "discard"
    /\ ring > 0
    /\ ring' = ring - 1
    /\ UNCHANGED <<flashVars, socket, logger, sender>>

Receive ==
    /\ sender = "receive"
    /\ ring > 0
    /\ ring' = ring - 1
    /\ sender' = "packet"
    /\ UNCHANGED <<flashVars, socket, logger>>

SendTo ==
    /\ sender = "packet"
    /\ sender' = "receive"
    /\ UNCHANGED <<flashVars, socket, ring, logger>>

Drained ==
    /\ sender \in {"discard", "receive"}
    /\ ring = 0
    /\ sender' = "wait"
    /\ UNCHANGED <<flashVars, socket, ring, logger>>

Sender == Wake \/ Discard \/ Receive \/ SendTo \/ Drained

Next ==
    \/ Start \/ Sender
    \/ \E t \in Transports : FlashBegin(t) \/ FlashEnd(t)
    \/ \E l \in Loggers : Log(l) \/ Printf(l) \/ WriteConsole(l) \/ Queue(l)

Spec == Init /\ [][Next]_vars

-----------------------------------------------------------------------------
(* Properties. *)

\* "Suppress ... while one or more flash transfers are active" (wifi_log.h):
\* the pause lasts from the first begin to the last end, however the transfers
\* of the two transports overlap; so configASSERT(s_flash_count > 0) holds.
PausedIffTransferring ==
    /\ count = Cardinality(transfers)
    /\ active <=> transfers # {}

Inv == TypeOK /\ PausedIffTransferring
=============================================================================
