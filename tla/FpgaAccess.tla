------------------------------ MODULE FpgaAccess ------------------------------
(***************************************************************************)
(* The FPGA and the SPI flash behind it, as the two transports share them: *)
(* http_server.c (POST /fpga-jtag-sram, POST /fpga-update, GET             *)
(* /fpga-flash-id, GET /fpga-flash-id-current), serial_flash.c             *)
(* (FPGA_FLASH_BEGIN sram|flash), fpga_bootloader.c, spi_flash_bridge.c    *)
(* and the streaming calls of jtag_gowin.c.                                *)
(*                                                                         *)
(* The flash is reached only while the FPGA runs a bridge design, loaded   *)
(* over JTAG.  jtagLock guards JTAG, flashMutex the flash, and nothing     *)
(* guards the FPGA between the two, nor s_ext_flash and its ready flag.    *)
(*                                                                         *)
(* Abstractions.  A design and an image of the flash are N chunks.  A      *)
(* request refused because JTAG is busy changes nothing; one that later    *)
(* finds no memory ends like one whose client fails at once.  The mutexes  *)
(* exist already (see JtagMutex) and the SPI bus has been initialized.     *)
(* task[t].lost and own are history variables: no action reads them.       *)
(***************************************************************************)
EXTENDS Integers

CONSTANTS
    Tasks,     \* the transports in use
    Ops,       \* the requests clients make
    N,         \* chunks in a design or an image
    Attempts,  \* probes in one spi_flash_bridge_reinit: MAX_RETRIES
    Overlap,   \* whether a request may come while another is served
    Aligned,   \* whether the size of an image is a multiple of 4096
    Refusals   \* whether the flash may refuse an erase or a write

ASSUME TasksAssumption    == Tasks \subseteq {"http", "serial"}
ASSUME OpsAssumption      == Ops \subseteq {"sram", "update", "id", "id_current"}
ASSUME NAssumption        == N \in Nat \ {0}
ASSUME AttemptsAssumption == Attempts \in Nat \ {0}
ASSUME OverlapAssumption  == Overlap \in BOOLEAN
ASSUME AlignedAssumption  == Aligned \subseteq BOOLEAN
ASSUME RefusalsAssumption == Refusals \in BOOLEAN

VARIABLES
    jtagLock,    \* who holds the JTAG lock
    flashMutex,  \* who holds s_flash_mutex
    ready,       \* s_ext_flash_ready
    handle,      \* s_ext_flash is a registered device
    stream,      \* the JTAG session: whose it is, and the chunks the FPGA took
    fpga,        \* what the FPGA runs
    flash,       \* the chunks of the SPI flash
    own,         \* whether the flash of the ESP32 itself is what it was
    task         \* where each transport is in its handler

vars == <<jtagLock, flashMutex, ready, handle, stream, fpga, flash, own, task>>

None == "none"

Closed == [owner |-> None, chunks |-> 0]

Streams == [owner : Tasks \cup {None}, chunks : 0..N]

Contents == [1..N -> {"old", "erased", "mixed"} \cup Tasks]

TaskStates ==
    [op     : Ops \cup {None},
     pc     : {"idle", "jtag", "begin", "shift", "end", "settle",
               "reinit", "chip", "remove", "add",
               "lock", "erase", "erasing", "recv", "write", "writing", "reset",
               "read", "reading"},
     n      : 0..N,             \* chunks shifted or written
     tries  : 0..Attempts - 1,  \* probes that failed
     back   : {None, "lock", "erasing", "writing", "read", "reading"},
     answer : {None, "ok", "error"},
     lost   : BOOLEAN]          \* an erase or a write was not done, or not in full

Resting == [op |-> None, pc |-> "idle", n |-> 0, tries |-> 0, back |-> None,
            answer |-> None, lost |-> FALSE]

TypeOK ==
    /\ jtagLock   \in Tasks \cup {None}
    /\ flashMutex \in Tasks \cup {None}
    /\ ready      \in BOOLEAN
    /\ handle     \in BOOLEAN
    /\ stream     \in Streams
    /\ fpga       \in {"blank", "flash", "bridge", "user"}
    /\ flash      \in Contents
    /\ own        \in {"kept", "changed"}
    /\ task       \in [Tasks -> TaskStates]

Init ==
    /\ jtagLock = None
    /\ flashMutex = None
    /\ ready = FALSE
    /\ handle = TRUE
    /\ stream = Closed
    /\ fpga = "flash"
    /\ flash = [i \in 1..N |-> "old"]
    /\ own = "kept"
    /\ task = [t \in Tasks |-> Resting]

-----------------------------------------------------------------------------
At(t, l)   == task[t].pc = l
Goto(t, l) == task' = [task EXCEPT ![t].pc = l]

\* The handler answers and awaits the next request.
Answer(t, a) == task' = [task EXCEPT ![t].pc = "idle", ![t].answer = a]

chips     == <<flash, own>>
flashVars == <<flashMutex, ready, handle, chips>>
fpgaVars  == <<stream, fpga>>

\* A request arrives.  /fpga-flash-id-current goes straight to the flash.
Request(t, op) ==
    /\ At(t, "idle")
    /\ ~ Overlap => \A u \in Tasks : At(u, "idle")
    /\ op \in {"id", "id_current"} => t = "http"
    /\ op = "sram" => jtagLock = None
    /\ task' = [task EXCEPT ![t] =
                  [op |-> op, n |-> 0, tries |-> 0, answer |-> None, lost |-> FALSE,
                   pc   |-> CASE op = "sram"            -> "begin"
                              [] op \in {"update", "id"} -> "jtag"
                              [] op = "id_current"      -> "reinit",
                   back |-> IF op = "id_current" THEN "read" ELSE None]]
    /\ jtagLock' = IF op = "sram" THEN t ELSE jtagLock
    /\ UNCHANGED <<flashVars, fpgaVars>>

\* Slip: start without the lock.
TakeJtagAnyway(t) ==
    /\ At(t, "jtag")
    /\ jtagLock' = t
    /\ Goto(t, "begin")
    /\ UNCHANGED <<flashVars, fpgaVars>>

\* fpga_bootloader_load_to_sram waits at most 30 s for the JTAG lock.
TakeJtag(t) ==
    /\ At(t, "jtag")
    /\ jtagLock = None
    /\ jtagLock' = t
    /\ Goto(t, "begin")
    /\ UNCHANGED <<flashVars, fpgaVars>>

JtagTimeout(t) ==
    /\ At(t, "jtag")
    /\ jtagLock # None
    /\ Answer(t, "error")
    /\ UNCHANGED <<jtagLock, flashVars, fpgaVars>>

\* loader_jtag_program_sram_begin_with_retry: RECONFIG_N, then a JTAG session
\* that erases the FPGA; or three failed attempts at that, the last of which
\* may have erased it.
SramBegin(t) ==
    /\ At(t, "begin")
    /\ fpga' = "blank"
    /\ stream' = [owner |-> t, chunks |-> 0]
    /\ Goto(t, "shift")
    /\ UNCHANGED <<jtagLock, flashVars>>

SramBeginFails(t) ==
    /\ At(t, "begin")
    /\ fpga' \in {"flash", "blank"}
    /\ stream' = Closed
    /\ jtagLock' = None
    /\ Answer(t, "error")
    /\ UNCHANGED flashVars

\* Slip: the last chunk is left out.
ShiftButLast(t) ==
    /\ At(t, "shift")
    /\ stream' = IF stream.owner = t THEN [stream EXCEPT !.chunks = @ + 1] ELSE stream
    /\ task' = [task EXCEPT ![t].n = @ + 1,
                            ![t].pc = IF task[t].n + 2 >= N THEN "end" ELSE "shift"]
    /\ UNCHANGED <<jtagLock, flashVars, fpga>>

\* The next chunk, from the client or from the embedded bridge design, is
\* shifted out.  An FPGA reconfigured meanwhile does not take it.
Shift(t) ==
    /\ At(t, "shift")
    /\ stream' = IF stream.owner = t THEN [stream EXCEPT !.chunks = @ + 1] ELSE stream
    /\ task' = [task EXCEPT ![t].n = @ + 1,
                            ![t].pc = IF task[t].n + 1 = N THEN "end" ELSE "shift"]
    /\ UNCHANGED <<jtagLock, flashVars, fpga>>

\* The client fails or stalls.  Only the serial handler ends the session.
ShiftFails(t) ==
    /\ At(t, "shift")
    /\ task[t].op = "sram"
    /\ stream' = IF t = "serial" THEN Closed ELSE stream
    /\ jtagLock' = None
    /\ Answer(t, "error")
    /\ UNCHANGED <<flashVars, fpga>>

Whole(t) == stream = [owner |-> t, chunks |-> N]

\* A design that has arrived whole starts, or the FPGA does not show DONE.
Started(t) == IF task[t].op = "sram" THEN "user" ELSE "bridge"

\* Slip: a path that keeps the JTAG lock.
SramEndKeepingLock(t) ==
    /\ At(t, "end")
    /\ fpga' \in IF Whole(t) THEN {fpga, Started(t)} ELSE {fpga}
    /\ stream' = Closed
    /\ IF task[t].op = "sram" THEN Answer(t, "ok") ELSE Goto(t, "settle")
    /\ UNCHANGED <<jtagLock, flashVars>>

\* jtag_gowin_program_sram_end.  Without DONE it only warns...
SramEnd(t) ==
    /\ At(t, "end")
    /\ fpga' \in IF Whole(t) THEN {fpga, Started(t)} ELSE {fpga}
    /\ stream' = Closed
    /\ jtagLock' = None
    /\ IF task[t].op = "sram" THEN Answer(t, "ok") ELSE Goto(t, "settle")
    /\ UNCHANGED flashVars

\* ... and on a CRC error it fails.
SramEndFails(t) ==
    /\ At(t, "end")
    /\ stream' = Closed
    /\ jtagLock' = None
    /\ Answer(t, "error")
    /\ UNCHANGED <<flashVars, fpga>>

\* 1.5 s later: probe the flash, or read its ID.
Settle(t) ==
    /\ At(t, "settle")
    /\ task' = IF task[t].op = "update"
               THEN [task EXCEPT ![t].pc = "reinit", ![t].back = "lock"]
               ELSE [task EXCEPT ![t].pc = "read"]
    /\ UNCHANGED <<jtagLock, flashVars, fpgaVars>>

-----------------------------------------------------------------------------
(* spi_flash_bridge_reinit, called for task[t].back. *)

Reinit(t) ==
    /\ At(t, "reinit")
    /\ ready' = FALSE
    /\ task' = [task EXCEPT ![t].pc = "chip", ![t].tries = 0]
    /\ UNCHANGED <<jtagLock, flashMutex, handle, chips, fpgaVars>>

\* reset_external_flash takes the mutex, and gives it back.
ChipReset(t) ==
    /\ At(t, "chip")
    /\ flashMutex = None
    /\ Goto(t, "remove")
    /\ UNCHANGED <<jtagLock, flashVars, fpgaVars>>

Remove(t) ==
    /\ At(t, "remove")
    /\ handle' = FALSE
    /\ Goto(t, "add")
    /\ UNCHANGED <<jtagLock, flashMutex, ready, chips, fpgaVars>>

\* The device is registered again, and the flash answers the probe.
Add(t) ==
    /\ At(t, "add")
    /\ fpga = "bridge"
    /\ handle' = TRUE
    /\ ready' = TRUE
    /\ Goto(t, task[t].back)
    /\ UNCHANGED <<jtagLock, flashMutex, chips, fpgaVars>>

\* After an erase or a write, of which lost says whether it fell short: the
\* handler does not know.
AfterErase(t, lost) ==
    /\ task' = [task EXCEPT ![t].pc = "recv", ![t].n = 0, ![t].lost = @ \/ lost]
    /\ UNCHANGED flashMutex

AfterWrite(t, lost) ==
    IF task[t].n + 1 = N
    THEN /\ flashMutex' = None
         /\ task' = [task EXCEPT ![t].pc = "reset", ![t].n = N, ![t].answer = "ok",
                                 ![t].lost = @ \/ lost]
    ELSE /\ UNCHANGED flashMutex
         /\ task' = [task EXCEPT ![t].pc = "recv", ![t].n = @ + 1, ![t].lost = @ \/ lost]

\* What a handler does when the flash is not ready: before the update it gives
\* up, in the middle of it the erase or the write is just left out.
NotReady(t) ==
    CASE task[t].back \in {"lock", "read", "reading"} -> Answer(t, "error") /\ UNCHANGED flashMutex
      [] task[t].back = "erasing" -> AfterErase(t, TRUE)
      [] task[t].back = "writing" -> AfterWrite(t, TRUE)

\* The commands to the flash cannot be sent.
ChipResetFails(t) ==
    /\ At(t, "chip")
    /\ flashMutex = None
    /\ NotReady(t)
    /\ UNCHANGED <<jtagLock, ready, handle, chips, fpgaVars>>

\* Slips: one probe too many; probes without end; success after the last one.
AddFailsOnceMore(t) ==
    /\ At(t, "add")
    /\ handle' = TRUE
    /\ IF task[t].tries < Attempts
       THEN /\ task' = [task EXCEPT ![t].pc = "remove", ![t].tries = @ + 1]
            /\ UNCHANGED flashMutex
       ELSE NotReady(t)
    /\ UNCHANGED <<jtagLock, ready, chips, fpgaVars>>

AddFailsForEver(t) ==
    /\ At(t, "add")
    /\ handle' = TRUE
    /\ Goto(t, "remove")
    /\ UNCHANGED <<jtagLock, flashMutex, ready, chips, fpgaVars>>

AddFailsReady(t) ==
    /\ At(t, "add")
    /\ handle' \in BOOLEAN
    /\ IF task[t].tries + 1 < Attempts
       THEN task' = [task EXCEPT ![t].pc = "remove", ![t].tries = @ + 1] /\ UNCHANGED ready
       ELSE Goto(t, task[t].back) /\ ready' = TRUE
    /\ UNCHANGED <<jtagLock, flashMutex, chips, fpgaVars>>

\* No device, or no answer: another probe, or the end of the reinit.
AddFails(t) ==
    /\ At(t, "add")
    /\ handle' \in BOOLEAN
    /\ IF task[t].tries + 1 < Attempts
       THEN /\ task' = [task EXCEPT ![t].pc = "remove", ![t].tries = @ + 1]
            /\ UNCHANGED flashMutex
       ELSE NotReady(t)
    /\ UNCHANGED <<jtagLock, ready, chips, fpgaVars>>

\* ensure_flash_ready, before the step named next.
EnsureReady(t, next) ==
    /\ task' = IF ready THEN [task EXCEPT ![t].pc = next]
               ELSE [task EXCEPT ![t].pc = "reinit", ![t].back = next]
    /\ UNCHANGED <<jtagLock, flashVars, fpgaVars>>

-----------------------------------------------------------------------------
(* The update of the flash, and the reading of its ID. *)

\* Slip: go on without the mutex.
LockWithoutWaiting(t) ==
    /\ At(t, "lock")
    /\ flashMutex' = t
    /\ Goto(t, "erase")
    /\ UNCHANGED <<jtagLock, ready, handle, chips, fpgaVars>>

Lock(t) ==
    /\ At(t, "lock")
    /\ flashMutex = None
    /\ flashMutex' = t
    /\ Goto(t, "erase")
    /\ UNCHANGED <<jtagLock, ready, handle, chips, fpgaVars>>

EnsureForErase(t) == At(t, "erase") /\ EnsureReady(t, "erasing")

Reachable == handle /\ fpga = "bridge"

\* What an erase or a write does to a chunk: nothing without device or bridge,
\* and where the flash refuses, nothing, or some of it.
Effects == CASE ~ Reachable           -> {"none"}
             [] Reachable /\ Refusals -> {"done", "none", "part"}
             [] OTHER                 -> {"done"}

After(effect, chunk, new) == CASE effect = "done" -> new
                               [] effect = "none" -> chunk
                               [] effect = "part" -> "mixed"

\* Where s_ext_flash is NULL, esp_flash takes the flash of the ESP32 itself.
OwnFlash == own' \in IF handle THEN {own} ELSE {own, "changed"}

\* Slip: leave the last chunk out.
EraseButLast(t) ==
    /\ At(t, "erasing")
    /\ flash' = [i \in 1..N |-> IF i < N /\ Reachable THEN "erased" ELSE flash[i]]
    /\ OwnFlash
    /\ AfterErase(t, ~ Reachable)
    /\ UNCHANGED <<jtagLock, ready, handle, fpgaVars>>

\* spi_flash_bridge_erase_region, of 2 MB or of the size of the image (serial),
\* which may end inside a sector: the last of its pieces is then refused.
Erase(t) ==
    /\ At(t, "erasing")
    /\ \E whole \in Aligned : \E effect \in [1..N -> Effects \cup {"none"}] :
         /\ \A i \in 1..N :
              effect[i] \in IF i = N /\ t = "serial" /\ ~ whole THEN {"none"} ELSE Effects
         /\ flash' = [i \in 1..N |-> After(effect[i], flash[i], "erased")]
         /\ AfterErase(t, \E i \in 1..N : effect[i] # "done")
    /\ OwnFlash
    /\ UNCHANGED <<jtagLock, ready, handle, fpgaVars>>

Recv(t) ==
    /\ At(t, "recv")
    /\ Goto(t, "write")
    /\ UNCHANGED <<jtagLock, flashVars, fpgaVars>>

\* Slip: the abort of the serial handler, in both.
RecvFailsInPlace(t) ==
    /\ At(t, "recv")
    /\ flashMutex' = None
    /\ task' = [task EXCEPT ![t].answer = "error", ![t].pc = "idle"]
    /\ UNCHANGED <<jtagLock, ready, handle, chips, fpgaVars>>

\* The client fails or stalls.  Only the HTTP handler resets the FPGA.
RecvFails(t) ==
    /\ At(t, "recv")
    /\ flashMutex' = None
    /\ task' = [task EXCEPT ![t].answer = "error",
                            ![t].pc = IF t = "http" THEN "reset" ELSE "idle"]
    /\ UNCHANGED <<jtagLock, ready, handle, chips, fpgaVars>>

EnsureForWrite(t) == At(t, "write") /\ EnsureReady(t, "writing")

\* Writing NOR flash that is not erased yields neither content.
Write(t) ==
    /\ At(t, "writing")
    /\ \E effect \in Effects :
         /\ flash' = [flash EXCEPT ![task[t].n + 1] =
                        After(effect, @, IF @ = "erased" THEN t ELSE "mixed")]
         /\ AfterWrite(t, effect # "done")
    /\ OwnFlash
    /\ UNCHANGED <<jtagLock, ready, handle, fpgaVars>>

\* Its own boot loader and partition table, which begin where an image does, the
\* ESP32 does not let itself write: it aborts and starts again, the FPGA does not.
Aborts(t) ==
    /\ task[t].pc \in {"erasing", "writing"}
    /\ ~ handle
    /\ task' = [u \in Tasks |-> Resting]
    /\ jtagLock' = None
    /\ flashMutex' = None
    /\ ready' = FALSE
    /\ handle' = TRUE
    /\ stream' = Closed
    /\ OwnFlash
    /\ UNCHANGED <<flash, fpga>>

\* Slip: the FPGA is left as it is.
AnswerWithoutReset(t) ==
    /\ At(t, "reset")
    /\ Goto(t, "idle")
    /\ UNCHANGED <<jtagLock, flashVars, fpgaVars>>

\* spi_flash_bridge_fpga_reset.  No lock is taken for RECONFIG_N, at which the
\* FPGA drops what it runs, with any JTAG session, and loads itself from the
\* flash.
FpgaReset(t) ==
    /\ At(t, "reset")
    /\ fpga' = "flash"
    /\ stream' = Closed
    /\ Goto(t, "idle")
    /\ UNCHANGED <<jtagLock, flashVars>>

EnsureForRead(t) == At(t, "read") /\ EnsureReady(t, "reading")

\* Without a device it is the flash of the ESP32 that tells its ID.
ReadId(t) ==
    /\ At(t, "reading")
    /\ \E a \in {"ok", "error"} :
         /\ a = "ok" => Reachable \/ ~ handle
         /\ Answer(t, a)
    /\ UNCHANGED <<jtagLock, flashVars, fpgaVars>>

-----------------------------------------------------------------------------
\* Waits for the client, which it may end.
AwaitClient(t) == Recv(t) \/ RecvFails(t)

\* Everything a handler does by itself, the shifting of the bridge included.
Proceed(t) ==
    \/ TakeJtag(t) \/ JtagTimeout(t) \/ SramBegin(t) \/ SramBeginFails(t)
    \/ SramEnd(t) \/ SramEndFails(t) \/ Settle(t)
    \/ Reinit(t) \/ ChipReset(t) \/ ChipResetFails(t) \/ Remove(t) \/ Add(t) \/ AddFails(t)
    \/ Lock(t) \/ EnsureForErase(t) \/ Erase(t) \/ EnsureForWrite(t) \/ Write(t)
    \/ FpgaReset(t) \/ EnsureForRead(t) \/ ReadId(t)

Next == \E t \in Tasks :
    \/ \E op \in Ops : Request(t, op)
    \/ Shift(t) \/ ShiftFails(t) \/ AwaitClient(t) \/ Proceed(t) \/ Aborts(t)

Spec == Init /\ [][Next]_vars

\* Tasks that need not wait run.  The wait for a chunk ends in both handlers of
\* the flash (30 s; three timeouts in a row) and in the serial handler of SRAM,
\* but in handle_fpga_jtag_sram a timeout repeats it: there Shift is only fair
\* while the bridge, which is in memory, is shifted.
Fairness == \A t \in Tasks :
    /\ WF_vars(Proceed(t))
    /\ WF_vars(AwaitClient(t))
    /\ WF_vars((task[t].op # "sram" \/ t = "serial") /\ (Shift(t) \/ ShiftFails(t)))

FairSpec == Spec /\ Fairness

-----------------------------------------------------------------------------
(* Properties. *)

\* "so both transports erase/write the exact same address range"
\* (http_server.c); FPGA_FLASH_OK, or the success of /fpga-update: when a handler is about to say
\* that it wrote the flash, every chunk of the flash is the one it was sent.
SuccessMeansWritten ==
    \A t \in Tasks : At(t, "reset") /\ task[t].answer = "ok" => \A i \in 1..N : flash[i] = t

\* The errors of single erases and writes are all that may be missing from such a
\* success: if none was refused or left out, the whole image is there when its
\* last chunk is written, however requests overlap and sizes end.
WrittenUnlessLost ==
    [][\A t \in Tasks :
          ~ At(t, "reset") /\ task'[t].pc = "reset" /\ task'[t].answer = "ok" /\ ~ task'[t].lost
          => \A i \in 1..N : flash'[i] = t]_vars

\* An update is of the flash behind the FPGA: where requests do not overlap, no
\* erase or write is made without a device, so none goes to the ESP32's own flash.
OwnFlashKept == own = "kept"

\* "That temporary SRAM contents are irrelevant once done" (http_server.c, of
\* the bridge): once the transfer of an HTTP update has begun, the FPGA does not
\* stay on the bridge, however the transfer ends.
BridgeIsTemporary == \A t \in Tasks \cap {"http"} : At(t, "recv") ~> fpga # "bridge"

\* "Gives up ... rather than hanging forever with flash/JTAG state half-open"
\* (serial_flash.c): every serial request comes to an answer.
SerialEnds == \A t \in Tasks \cap {"serial"} : task[t].pc # "idle" ~> task[t].pc = "idle"

\* The two locks are never held together, so no order of them can deadlock.
HoldsOneLock == \A t \in Tasks : ~ (jtagLock = t /\ flashMutex = t)

\* "Exclusive access to the flash bus for the duration of an erase/write
\* sequence" (spi_flash_bridge.h): from lock to unlock, only the holder's own
\* steps change the flash.
FlashExclusive ==
    [][\A t \in Tasks : flashMutex = t /\ flash' # flash => task'[t] # task[t]]_vars

\* "HTTP and serial can never ... race for the JTAG pins" (serial_flash.c): a
\* session is only fed by the handler that opened it.
NoForeignStream ==
    \A t \in Tasks : task[t].pc \in {"shift", "end"} => stream.owner \in {t, None}

\* "SRAM ... OK" and the success of /fpga-jtag-sram promise less than that the
\* design runs, since DONE may be missing.  Where requests do not overlap, they
\* promise that an erased FPGA took every chunk in one session, and that if it
\* runs anything, it is that design.
SramSuccessIsWhole ==
    [][\A t \in Tasks : At(t, "end") /\ task'[t].answer = "ok" /\ task'[t].pc = "idle"
          => Whole(t) /\ fpga = "blank" /\ fpga' \in {"user", "blank"}]_vars

-----------------------------------------------------------------------------
(* The abstract view. *)

Image == IF \E o \in Tasks \cup {"old"} : flash = [i \in 1..N |-> o] THEN flash[1] ELSE "damaged"

Outcome(r) ==
    IF r.pc # "idle" THEN "busy"
    ELSE CASE r.answer = None    -> "none"
           [] r.answer = "error" -> "failed"
           [] r.answer = "ok"    -> CASE r.op = "sram"   -> "loaded"
                                      [] r.op = "update" -> "flashed"
                                      [] OTHER           -> "identified"

\* What both transports promise where requests do not overlap, in full and of
\* every step: see FpgaDesigns.  The FPGA that has loaded itself from the flash
\* is taken to run what the flash holds: nothing writes to the flash then.
Designs == INSTANCE FpgaDesigns WITH
    Clients <- Tasks,
    Shipped <- "old",
    Damaged <- "damaged",
    refused <- [t \in Tasks |-> task[t].lost],
    image   <- Image,
    runs    <- IF fpga = "flash" THEN Image ELSE fpga,
    result  <- [t \in Tasks |-> Outcome(task[t])]

ImplementsFpgaDesigns == Designs!Spec

===============================================================================
