------------------------------ MODULE AppUpdate ------------------------------
(***************************************************************************)
(* Updating and resuming the user application: POST /update and POST       *)
(* /resume of http_server.c, APP_FLASH_BEGIN and RESUME_APP of             *)
(* serial_flash.c, and the life of the board around them, over resets and  *)
(* losses of power.                                                        *)
(*                                                                         *)
(* The loader runs from the factory partition.  A transport (the httpd     *)
(* task, the serial console task) picks the slot to write, writes the      *)
(* image chunk by chunk, has ESP-IDF verify it, selects it in otadata,     *)
(* remembers it as last_slot in nvs_loader, and restarts one second later. *)
(* No lock is held over any of that: Tasks says which transports are used. *)
(*                                                                         *)
(* Abstractions.  An image is N chunks that carry its name.  Choosing the  *)
(* slot reads otadata and NVS in one step.  A failure of esp_ota_begin or  *)
(* malloc changes nothing and is a stuttering step.  MaxSeq bounds the     *)
(* sequence numbers of otadata, 32 bits wide: only two transports that     *)
(* spoil each other's images make them grow.                               *)
(***************************************************************************)
EXTENDS OtaData

CONSTANTS
    Tasks,      \* the transports in use
    Images,     \* what clients send
    Magic,      \* the images whose first byte is 0xE9
    Bootable,   \* the images that pass esp_image_verify
    Healthy,    \* the applications that confirm themselves after a start
    N,          \* chunks in an image
    Faults,     \* what may go wrong: see PowerLoss, SaveLast and InitNvs
    MaxSeq,     \* the highest sequence number selected
    Migrated    \* the board came with an application and no last_slot

ASSUME TasksAssumption    == Tasks \subseteq {"http", "serial"}
ASSUME ImagesAssumption   == /\ Healthy \subseteq Bootable
                             /\ Bootable \subseteq Magic
                             /\ Magic \subseteq Images
                             /\ {"blank", "none"} \cap Images = {}
ASSUME NAssumption        == N \in Nat \ {0}
ASSUME MaxSeqAssumption   == MaxSeq \in Nat
ASSUME FaultsAssumption   == Faults \subseteq {"power", "commit_loss", "nvs", "no_page"}
ASSUME MigratedAssumption == Migrated \in BOOLEAN

VARIABLES
    slot,       \* flash: the chunks of each application slot
    otadata,    \* flash: the otadata partition
    lastSlot,   \* flash: last_slot in nvs_loader
    running,    \* RAM: the partition the board runs from
    task,       \* RAM: where each transport is in its handler
    lastRun     \* history: the slot of the last application that ran

vars == <<slot, otadata, lastSlot, running, task, lastRun>>

Blank == "blank"
None  == "none"

IdleTask == [pc |-> "idle", target |-> None, image |-> Blank, written |-> 0]

\* pc is the next step of the handler: await a request, receive a chunk,
\* esp_ota_end, esp_ota_set_boot_partition, loader_save_last_slot, esp_restart.
TaskStates ==
    [pc      : {"idle", "recv", "end", "setboot", "save", "restart"},
     target  : Slots \cup {None},
     image   : Images \cup {Blank},
     written : 0..N]

TypeOK ==
    /\ slot      \in [Slots -> [1..N -> Images \cup {Blank}]]
    /\ otadata   \in OtaDatas
    /\ lastSlot  \in Slots \cup {None}
    /\ running   \in Slots \cup {Factory}
    /\ task      \in [Tasks -> TaskStates]
    /\ lastRun   \in Slots \cup {None}

-----------------------------------------------------------------------------
(* State functions. *)

Filled(c) == [i \in 1..N |-> c]

\* What esp_image_verify checks of a slot.
Complete(s) == \E img \in Bootable : slot[s] = Filled(img)

\* The application a slot holds, when it is complete.
AppIn(s) == slot[s][1]

InLoader == running = Factory
Idle     == \A t \in Tasks : task[t].pc = "idle"
At(t, label) == InLoader /\ task[t].pc = label

\* Slips: forget the memory in NVS; write the slot that is in use.
TargetWithoutMemory ==
    IF BootPartition(otadata) \in Slots THEN Other(BootPartition(otadata)) ELSE "ota_0"
TargetInUse ==
    CASE BootPartition(otadata) \in Slots                  -> BootPartition(otadata)
      [] BootPartition(otadata) = Factory /\ lastSlot # None -> lastSlot
      [] BootPartition(otadata) = Factory /\ lastSlot = None -> "ota_0"

\* loader_get_target_update_partition.
Target ==
    CASE BootPartition(otadata) \in Slots                  -> Other(BootPartition(otadata))
      [] BootPartition(otadata) = Factory /\ lastSlot # None -> Other(lastSlot)
      [] BootPartition(otadata) = Factory /\ lastSlot = None -> "ota_0"

\* loader_get_resume_partition.
ResumeSlot == Other(Target)

\* The partition the boot loader starts: the selected slot, else the slots
\* below it, else the factory partition.
BootChoice(od) ==
    LET s == BootPartition(od)
    IN  CASE s \in Slots /\ Complete(s) -> s
          [] s = "ota_1" /\ ~ Complete("ota_1") /\ Complete("ota_0") -> "ota_0"
          [] OTHER -> Factory

\* What wifi_init_start does first, in the loader: nvs_loader is erased when it
\* has no free page left, and last_slot with it.
InitNvs ==
    \/ UNCHANGED lastSlot
    \/ /\ "no_page" \in Faults
       /\ running' = Factory
       /\ lastSlot' = None

\* A reset of the board that finds od in otadata.
Reset(od) ==
    /\ otadata' = AtReset(od)
    /\ running' = BootChoice(otadata)'
    /\ lastRun' = IF running' \in Slots THEN running' ELSE lastRun
    /\ task' = [t \in Tasks |-> IdleTask]
    /\ InitNvs

Init ==
    /\ lastSlot = None
    /\ task = [t \in Tasks |-> IdleTask]
    /\ \/ /\ ~ Migrated
          /\ slot = [s \in Slots |-> Filled(Blank)]
          /\ otadata = AllErased
          /\ running = Factory
          /\ lastRun = None
       \/ /\ Migrated
          /\ \E img \in Healthy :
               slot = [s \in Slots |-> Filled(IF s = "ota_0" THEN img ELSE Blank)]
          /\ otadata = [AllErased EXCEPT ![0] = [seq |-> 1, state |-> "undefined"]]
          /\ running = "ota_0"
          /\ lastRun = "ota_0"

-----------------------------------------------------------------------------
(* A transport's handler. *)

Stop(t) == task' = [task EXCEPT ![t] = IdleTask]

\* Slip: select the slot before it is written.
BeginUpdateSelecting(t) ==
    /\ At(t, "idle")
    /\ \E img \in Images :
         task' = [task EXCEPT ![t] = [pc |-> "recv", target |-> Target,
                                      image |-> img, written |-> 0]]
    /\ otadata' = SelectSlot(otadata, Target)
    /\ UNCHANGED <<slot, lastSlot, running, lastRun>>

\* POST /update or APP_FLASH_BEGIN, as far as esp_ota_begin.
BeginUpdate(t) ==
    /\ At(t, "idle")
    /\ \E img \in Images :
         task' = [task EXCEPT ![t] = [pc |-> "recv", target |-> Target,
                                      image |-> img, written |-> 0]]
    /\ UNCHANGED <<slot, otadata, lastSlot, running, lastRun>>

\* The transport gives up: the receive fails (HTTP), 30 s pass without a byte
\* (serial).  esp_ota_abort leaves in the slot what was written to it.
AbortRecv(t) ==
    /\ At(t, "recv")
    /\ Stop(t)
    /\ UNCHANGED <<slot, otadata, lastSlot, running, lastRun>>

\* The first byte of the first chunk is not 0xE9.
RejectMagic(t) ==
    /\ At(t, "recv")
    /\ task[t].written = 0
    /\ task[t].image \notin Magic
    /\ Stop(t)
    /\ UNCHANGED <<slot, otadata, lastSlot, running, lastRun>>

CanWrite(t) ==
    /\ At(t, "recv")
    /\ task[t].written = 0 => task[t].image \in Magic

\* The flash sectors of the next chunk of t's slot end up holding c.
PutChunk(t, c) ==
    slot' = [slot EXCEPT ![task[t].target][task[t].written + 1] = c]

\* Slip: go on for one chunk more than the image has.
ReceiveOneMore(t) ==
    /\ CanWrite(t)
    /\ PutChunk(t, task[t].image)
    /\ task' = [task EXCEPT ![t].written = @ + 1,
                            ![t].pc = IF task[t].written + 1 > N THEN "end" ELSE "recv"]
    /\ UNCHANGED <<otadata, lastSlot, running, lastRun>>

\* A chunk arrives and esp_ota_write erases and writes its sectors.
Receive(t) ==
    /\ CanWrite(t)
    /\ PutChunk(t, task[t].image)
    /\ task' = [task EXCEPT ![t].written = @ + 1,
                            ![t].pc = IF task[t].written + 1 = N THEN "end" ELSE "recv"]
    /\ UNCHANGED <<otadata, lastSlot, running, lastRun>>

\* esp_ota_write fails after the erase.
WriteFails(t) ==
    /\ CanWrite(t)
    /\ PutChunk(t, Blank)
    /\ Stop(t)
    /\ UNCHANGED <<otadata, lastSlot, running, lastRun>>

\* esp_ota_end verifies the image in the slot.
EndUpdate(t) ==
    /\ At(t, "end")
    /\ Complete(task[t].target)
    /\ task' = [task EXCEPT ![t].pc = "setboot"]
    /\ UNCHANGED <<slot, otadata, lastSlot, running, lastRun>>

EndFails(t) ==
    /\ At(t, "end")
    /\ Stop(t)
    /\ UNCHANGED <<slot, otadata, lastSlot, running, lastRun>>

\* POST /resume or RESUME_APP, as far as the check of the magic byte.
Resume(t) ==
    /\ At(t, "idle")
    /\ AppIn(ResumeSlot) \in Magic
    /\ task' = [task EXCEPT ![t].pc = "setboot", ![t].target = ResumeSlot]
    /\ UNCHANGED <<slot, otadata, lastSlot, running, lastRun>>

\* esp_ota_set_boot_partition verifies the image again, then writes otadata.
SetBoot(t) ==
    /\ At(t, "setboot")
    /\ Complete(task[t].target)
    /\ NextSeq(otadata, task[t].target) <= MaxSeq
    /\ otadata' = SelectSlot(otadata, task[t].target)
    /\ task' = [task EXCEPT ![t].pc = "save"]
    /\ UNCHANGED <<slot, lastSlot, running, lastRun>>

SetBootFails(t) ==
    /\ At(t, "setboot")
    /\ Stop(t)
    /\ UNCHANGED <<slot, otadata, lastSlot, running, lastRun>>

\* Slip: remember the slot an update would take next.
SaveNext(t) ==
    /\ At(t, "save")
    /\ lastSlot' = Target
    /\ task' = [task EXCEPT ![t].pc = "restart"]
    /\ UNCHANGED <<slot, otadata, running, lastRun>>

\* loader_save_last_slot.  The handler does not learn that it failed.
SaveLast(t) ==
    /\ At(t, "save")
    /\ \/ lastSlot' = task[t].target
       \/ "nvs" \in Faults /\ UNCHANGED lastSlot
    /\ task' = [task EXCEPT ![t].pc = "restart"]
    /\ UNCHANGED <<slot, otadata, running, lastRun>>

\* The answer is sent; a second later, esp_restart.
Restart(t) ==
    /\ At(t, "restart")
    /\ UNCHANGED slot
    /\ Reset(otadata)

-----------------------------------------------------------------------------
(* The rest of the board. *)

\* Power is lost and comes back: at any moment, in the middle of the write of
\* a chunk, or of otadata.  "commit_loss" lets it happen between the write of
\* otadata and that of last_slot.
PowerLoss ==
    /\ "power" \in Faults
    /\ (\E t \in Tasks : At(t, "save")) => "commit_loss" \in Faults
    /\ \/ UNCHANGED slot /\ Reset(otadata)
       \/ \E t \in Tasks : CanWrite(t) /\ PutChunk(t, Blank) /\ Reset(otadata)
       \/ /\ \E t \in Tasks : At(t, "setboot") /\ Complete(task[t].target)
          /\ UNCHANGED slot
          /\ Reset(TornSelect(otadata))

\* The application calls esp_ota_mark_app_valid_cancel_rollback.
AppConfirm ==
    /\ running \in Slots
    /\ AppIn(running) \in Healthy
    /\ otadata' = MarkValid(otadata)
    /\ UNCHANGED <<slot, lastSlot, running, task, lastRun>>

\* An application that never confirms itself ends in a reset.
AppCrash ==
    /\ running \in Slots
    /\ AppIn(running) \notin Healthy
    /\ UNCHANGED slot
    /\ Reset(otadata)

\* Tier-1 recovery: the application selects the factory partition, for which
\* esp_ota_set_boot_partition erases otadata, and restarts.
Tier1 ==
    /\ running \in Slots
    /\ AppIn(running) \in Healthy
    /\ UNCHANGED slot
    /\ Reset(AllErased)

\* The steps a transport takes by itself, once it has begun.
Proceed(t) == EndUpdate(t) \/ EndFails(t) \/ SetBoot(t) \/ SetBootFails(t)
                \/ SaveLast(t) \/ Restart(t)
Write(t)   == Receive(t) \/ WriteFails(t)

Step(t) == BeginUpdate(t) \/ AbortRecv(t) \/ RejectMagic(t) \/ Write(t)
             \/ Resume(t) \/ Proceed(t)

Next == \/ \E t \in Tasks : Step(t)
        \/ PowerLoss \/ AppConfirm \/ AppCrash \/ Tier1

\* Slip: a serial read that waits for ever, as httpd_req_recv's caller does.
FairnessWithoutStall ==
    /\ \A t \in Tasks : WF_vars(Proceed(t))
    /\ WF_vars(AppCrash)

\* A task of the loader that need not wait runs.  On the serial line the wait
\* for a chunk ends too: read_raw_bytes gives up after 30 s.  In handle_update
\* it does not, a timeout of httpd_req_recv repeats it.
Fairness ==
    /\ \A t \in Tasks : WF_vars(Proceed(t))
    /\ \A t \in Tasks \cap {"serial"} :
         WF_vars(Write(t) \/ RejectMagic(t) \/ AbortRecv(t))
    /\ WF_vars(AppCrash)

Spec     == Init /\ [][Next]_vars
FairSpec == Spec /\ Fairness

-----------------------------------------------------------------------------
(* Properties. *)

\* "Applications are written to the inactive OTA slot and selected only after
\* the image has been validated" (docs/OTA_REFERENCE.md): whatever moment the
\* power goes, a slot that otadata selects holds a complete image.
SelectedIsComplete ==
    BootPartition(otadata) \in Slots => Complete(BootPartition(otadata))

\* The same promise in full, and of every step: see AppStore.
Store == INSTANCE AppStore WITH
    Places   <- Slots,
    Home     <- Factory,
    Apps     <- Bootable,
    Empty    <- None,
    content  <- [s \in Slots |-> IF Complete(s) THEN AppIn(s) ELSE None],
    selected <- BootPartition(otadata)

ImplementsAppStore == Store!Spec

\* The slot nvs_loader remembers stays complete, across resets, recoveries and
\* updates that fail half way: while the user only ever sends updates there is
\* always an application left to resume.
RememberedIsComplete == lastSlot # None => Complete(lastSlot)

\* "the resume slot is the other one (whichever was actually last booted /
\* flashed)" (http_server.c): back in the loader, what /resume offers is the
\* application that ran last, and so what /update overwrites is the other one.
ResumeIsLastRun == InLoader /\ Idle /\ lastRun # None => ResumeSlot = lastRun

\* An application that never confirms itself does not keep the board: the boot
\* loader comes back to the loader, or to an application that does.
CrashingAppYields ==
    (running \in Slots /\ AppIn(running) \notin Healthy)
        ~> (InLoader \/ AppIn(running) \in Healthy)

\* Every serial update ends, in a restart or with an error, whatever the host
\* stops sending and whatever the other transport does meanwhile.
SerialUpdateEnds ==
    \A t \in Tasks \cap {"serial"} : task[t].pc # "idle" ~> task[t].pc = "idle"

-----------------------------------------------------------------------------
(* The inductive invariant of a board with one transport.                  *)

SingleTransport == \A t, u \in Tasks : t = u

\* A selection exists in the loader only in the second before the restart.
SelectionLeads ==
    InLoader /\ HasSelection(otadata)
        => \E t \in Tasks : task[t].pc \in {"save", "restart"}

\* Records that count name one slot.
RecordsAgree ==
    \A i \in 0..1 : ValidRecord(otadata[i]) =>
        SlotOf(otadata[i].seq) = BootPartition(otadata)

\* What a handler knows of its target.
TaskInv(t) ==
    /\ task[t].pc # "idle" => InLoader /\ task[t].target \in Slots
    /\ task[t].pc = "recv" => task[t].written < N
    /\ task[t].pc \in {"recv", "end"} /\ lastSlot # None
         => task[t].target = Other(lastSlot)
    /\ task[t].pc \in {"save", "restart"} => task[t].target = BootPartition(otadata)

\* Handlers write only where nothing selected or remembered lives.
Inv ==
    /\ SelectionLeads
    /\ RecordsAgree
    /\ SelectedIsComplete
    /\ RememberedIsComplete
    /\ ~ InLoader => running = BootPartition(otadata)
    /\ \A t \in Tasks : TaskInv(t)

\* With a last_slot that is never lost: it is the slot of the last run, but
\* while a handler that has selected another slot has still to save it.
LastInv ==
    /\ ~ InLoader => lastRun = running /\ lastSlot = running
    /\ InLoader /\ ~ HasSelection(otadata) => lastSlot = lastRun
    /\ \A t \in Tasks : task[t].pc = "restart" => lastSlot = BootPartition(otadata)
    /\ InLoader => \A i \in 0..1 :
                     ValidRecord(otadata[i]) => otadata[i].state # "pending"

=============================================================================
