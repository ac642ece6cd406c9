# A model of the Papilio ESP Bootloader

The Papilio ESP Bootloader is firmware that stays in the `factory` partition of
an ESP32-S3 board. It writes a user application into one of two slots
(`ota_0`, `ota_1`), boots it, gets control back after a recovery, and programs
the FPGA next to the ESP32, either its SRAM over JTAG or, through a bridge
design loaded that way, the SPI flash behind it. Requests come over HTTP
(port 3232) and over the USB serial line, each served by a task of its own.

The TLA+ here models what the firmware's tasks do to the state they share and
to the state that outlives a reset. TLC checks small instances, TLAPS proves
the main results for every value of the constants.

    tlc -config AppUpdate_one.cfg MCAppUpdate.tla     (and so on: see "Runs")
    tlapm AppUpdateProofs.tla                         (and so on: see "Proofs")

## 1. Inventory

| Component | Source (under `src/main`) | State | Operations |
|---|---|---|---|
| Application update and resume | `http_server.c` 185-427, `serial_flash.c` 294-371, 425-494 | the two slots, `otadata`, `last_slot` in `nvs_loader`; per task, the slot it writes | `POST /update`, `POST /resume`, `APP_FLASH_BEGIN`, `RESUME_APP` |
| otadata and the second-stage boot loader | ESP-IDF (external) | two records, each a sequence number and a state | select, read the selection, mark valid; roll back at reset |
| JTAG lock | `http_server.c` 116-146 | `s_jtag_mutex`, `s_jtag_initialized` | lock, unlock, initialize the pins |
| FPGA over JTAG | `http_server.c` 107-169, 429-521, `serial_flash.c` 141-212, `fpga_bootloader.c`, streaming calls of `jtag_gowin.c` | the JTAG session, what the FPGA runs | `POST /fpga-jtag-sram`, `FPGA_FLASH_BEGIN sram`, load of the bridge |
| SPI flash behind the FPGA | `spi_flash_bridge.c`, `http_server.c` 540-710, `serial_flash.c` 227-286 | `s_flash_mutex`, `s_ext_flash`, `s_ext_flash_ready`, the flash | `POST /fpga-update`, `FPGA_FLASH_BEGIN flash`, `GET /fpga-flash-id`, `GET /fpga-flash-id-current` |
| UDP log | `wifi_log.c` | count of transfers, pause flag, ring buffer, socket | `wifi_log_flash_begin/end`, the two hooks, the sender task |
| JTAG TAP driver | `jtag_gowin.c` | TAP state (in the FPGA), `g_streaming_dr` | IR and DR scans, polls, register reads; begin, write and end of a session |
| Serial line | `serial_flash.c` 50-133, 377-538 | stdio's buffer, `s_prefix_buf`, the driver's ring buffer, line endings | read a line, switch to raw bytes and back, answer |
| WiFi station | `wifi_init.c` | retry count, status, address, event group | connect, retry, give up, report |
| Start-up | `main.c` | what has been created and started | the calls of `app_main` |
| Status LED, bridge design, `/`, `/status`, `/update-target` | `loader_led.c`, `bootloader_data.h`, `http_server.c` | none shared | read-only answers, data |

**Interaction.** The serial task calls into `http_server.c` for the target slot,
`last_slot` and the JTAG lock. Both transports call `fpga_bootloader.c`, which
takes the JTAG lock, then `spi_flash_bridge.c`, which has a mutex of its own;
both bracket transfers with the pause of the log. `app_main` creates what they
use and starts them; the event loop of WiFi runs beside it from its first call
on. Everything an application leaves behind reaches the loader through `otadata`, which the boot loader also
rewrites at reset.

**What is hard.** Two tasks interleave at every step. Power can go between, and
in the middle of, writes to flash. `otadata` and `last_slot` are separate
commits, the recovery that leads into the loader erases one of them, and a full
NVS partition the other. One lock is given back before the next is taken.
Clients stall. Errors of some calls are dropped. The state of the TAP outlives a
session, and a restart of the ESP32, and nothing reads it back. One serial line
carries commands and payload, through four buffers. WiFi events are dispatched
late.

**What makes each component correct.** Updates: nothing incomplete is ever
selected, the last working application is not overwritten, the resume slot is
the slot of the last run. FPGA: reported success means what it says, up
to the errors the code drops, locks exclude and come back, the bridge does not
stay. JTAG lock: one user. TAP: the FPGA takes the
bits that are sent and the driver reads the flags the FPGA has, whatever went
before. Serial line: payload and commands are not mixed up for long, and nobody
waits for ever. Log: paused exactly during transfers, never stuck. Station: the
status comes to agree with the connection, and no retry is lost. Start-up:
requests find what they need.

## 2. Modules

| Module | What it is |
|---|---|
| `OtaData` | operators on the two records of otadata, external but for `Other` |
| `AppUpdate` | both transports' update and resume, resets, power, the application |
| `AppStore` | what the loader promises of applications, without otadata, chunks or tasks |
| `MCAppUpdate` | values of AppUpdate's constants for TLC |
| `FpgaAccess` | both transports' use of JTAG, FPGA and SPI flash |
| `FpgaDesigns` | what the loader promises of the FPGA and its flash, without locks, sessions or chunks |
| `JtagMutex` | the JTAG lock, made on first use |
| `JtagTap` | the clocks of a JTAG session, and the TAP that gets them |
| `SerialLine` | the USB console between lines and raw payload, and a host |
| `WifiLog` | the UDP log and its pause |
| `WifiStation` | the WiFi station and its event handler |
| `Main` | `app_main`, over `WifiLog` and `WifiStation` |
| `AppUpdateProofs`, `AppStoreProofs`, `FpgaAccessProofs`, `JtagMutexProofs`, `JtagTapProofs`, `SerialLineProofs`, `WifiLogProofs`, `MainProofs` | theorems and proofs |

Definitions introduced by a comment `Slip:` are not the code. Each is a plausible
mistake in the definition that follows it, kept to show that a property notices.

### AppUpdate

A handler is a program counter over the calls between which another task or a
loss of power can come: `idle`, `recv`, `end` (`esp_ota_end`), `setboot`
(`esp_ota_set_boot_partition`), `save` (`loader_save_last_slot`), `restart`.
`Target` and `ResumeSlot` are `loader_get_target_update_partition` and
`loader_get_resume_partition`. `BeginUpdate` fixes the target for the whole
handler, as the code does. `PowerLoss` may blank the chunk being written or
the otadata record being rewritten. `Reset` is what the boot loader does:
give up records still `pending`, make a `new` one `pending`, start the selected
slot if its image verifies, else a lower slot, else the loader. `AppConfirm`,
`AppCrash` and `Tier1` are the application's part; Tier 1 selects `factory`,
for which ESP-IDF erases otadata. `InitNvs` is the first thing `wifi_init_start`
does: a partition `nvs_loader` without a free page is erased, and `last_slot` with
it. `lastRun` is a history variable that no action reads.

### FpgaAccess

The program counter separates every step between which the other transport can
change `s_jtag_mutex`, `s_flash_mutex`, `s_ext_flash`, its ready flag or the
FPGA. `spi_flash_bridge_reinit` is six actions (`Reinit` to `AddFails`) and is
entered from an update, from a read of the ID, and from inside an erase or a
write whose `ensure_flash_ready` finds the flag cleared; `back` is where it
returns. `stream` is the JTAG session as the FPGA sees it: an FPGA that is reset
no longer takes the chunks that a handler goes on shifting. Two differences
between the transports are kept: only HTTP erases the whole 2 MB, and only HTTP
resets the FPGA when a transfer fails.

What can fail, does. With `Refusals`, any chunk of an erase, and any write, may be
done, left out, or done in part (`Effects`), without the handler's knowledge, since
`spi_flash_bridge_erase_region` and `spi_flash_bridge_write` drop the results
(:243, :252); `Aligned` says whether the last piece of a serial erase is a whole
sector, which esp_flash refuses otherwise. A design that was shifted in whole may
not show DONE, at which `jtag_gowin_program_sram_end` only warns (`SramEnd`), or have
a CRC error (`SramEndFails`). A probe may leave no device behind (`handle`). A call of
esp_flash with a NULL chip means the flash of the ESP32 itself, so that erases and
writes then go there (`OwnFlash`), or, since an image begins where its boot loader
does, end in an abort (`Aborts`): which of the two is a setting of ESP-IDF, and both are
in the model. `own` says whether that flash has changed; it and `task[t].lost`,
whether an erase or a write of the current request fell short, are history
variables.

`FpgaDesigns` is what a client may rely on that waits for its answers. The flash
is wiped and takes an image only while the FPGA runs the bridge, for the request
being served; `loaded`, `identified` and `flashed` are reported when that has been
done; and the FPGA runs an image only by loading itself from the flash. What the
code does not promise, it does not either: `Load` need not make the design run, and
`Refuse` is a call the flash refused unnoticed, after which (`refused`) `flashed` says
nothing of the image. The
refinement mapping (`Designs`) takes the flash for the image of whoever wrote
every chunk of it, and for damaged otherwise, and an FPGA that has loaded itself
for one that runs what the flash holds *now*: that this stays so, because nothing
writes to the flash without loading the bridge first, is part of the claim.
`SramSuccessIsWhole` adds to `Load` what it takes of the JTAG session.

### JtagMutex

The read, the creation and the second read of `s_jtag_mutex` are separate actions,
and an unlock gives back the mutex the variable names *then*. FreeRTOS asserts
when a task gives a mutex that another holds: `UnlockAborts`, a reset.

### JtagTap

`Edge` is one rising edge of TCK at a TAP of IEEE 1149.1 with the configuration
logic of the FPGA behind it (`Clock` is one at any FPGA, one that no longer listens
included), as the comments of `jtag_gowin.c` describe that:
when commands take effect, that entering the configuration mode takes idle clocks
and is cancelled by a read of the status, that bits are taken in Shift-DR only.
Everything above it (`IrScan`, `SendCommand`, `ReadReg32`, ...) clocks what the
function of that name clocks, and an action is what lies between two calls or
two readings. `chip` outlives sessions, `RECONFIG_N` and restarts of the ESP32;
an FPGA whose design has taken over the JTAG pins does not respond at all.
A session ends (`Finish`), fails to begin (`Retry`), or is given up: `Abandon`
ends a serial one through `jtag_gowin_program_sram_end`, but an HTTP one not at
all. `Intrude` is `spi_flash_bridge_fpga_reset`, which takes no lock.

### SerialLine

Items, not bytes, move from `wire` to `file` (stdio's buffer), `prefix`
(`s_prefix_buf`) or `ring` (the driver). `Drain` and `Install` are `io_begin`, in
which stdio may still fetch; `ReadRaw` is `read_raw_bytes` with its three sources.
A transfer may fail wherever it can (`Fail`); the rest of its payload is then read
as lines. `dirty` says that the line being read holds something else already. The
host follows `serial_flash.h` and gives up a command that is never answered.

### WifiLog, WifiStation and Main

`WifiLog` has the checks of the pause flag in both hooks, and in the sender,
separate from what follows them; critical sections are single actions.
`WifiStation` has one action per assignment of `wifi_event_handler` that another
task can see the result of, with the driver and DHCP posting events that wait in
a queue. `s_ip_addr` is not volatile, so the two stores of the status are made in
either order (`handler.todo`). `Connect` may be refused, which the code does not
notice; `refused`, a history variable, says that the last one was. `Main` conjoins a step of `app_main` with the steps of either, so that
the log starts when `app_main` starts it, and transfers begin only when their
server has been started.

## 3. Runs

| Run | Instance | Shows |
|---|---|---|
| `app_one` | one transport, N = 3, power | `/resume` offers the last run application (`ResumeIsLastRun`), by the invariant `LastInv` |
| `app_faults` | one transport, N = 3, migrated board, all faults, the erase of NVS too | `SelectedIsComplete`, `RememberedIsComplete`, the refinement of `AppStore` |
| `app_two` | both transports, N = 2, fair | `CrashingAppYields`, `SerialUpdateEnds` |
| `fpga_alone` | both transports, one request at a time, N = 2, refusals, fair | what SRAM success means (`SramSuccessIsWhole`), the ESP32's own flash is left alone (`OwnFlashKept`), an HTTP transfer leaves the bridge, serial requests end, the refinement of `FpgaDesigns` |
| `fpga_two` | both transports at once, N = 2, refusals | what the two locks guarantee, and what flash success means (`WrittenUnlessLost`) |
| `jtag_lock` | both transports, 2 mutexes | one mutex, one user; the lock is not lost |
| `tap` | 2 bytes, 2 attempts, a reset by others at any time, fair | bits and flags are the right ones after any history; sessions end |
| `serial` | 4 commands of 4 items, buffers of 2, fair | a transfer gets its own payload; one lost command at most; nobody waits for ever |
| `log` | 1 logger, 2 records, 2 addresses, 1 retry, fair | start-up, pause, backlog, status of the station |
| `app_race` | both transports | **violated**: two updates write one slot, and an incomplete slot is selected |
| `fpga_tail` | serial, image not a whole number of sectors | **violated**: success over a tail that was not erased |
| `fpga_hang` | both transports, fair | **violated**: a handler waits for a mutex it holds |

**Bounds.** `N` chunks: 2 or 3 give a first, a last and (with 3) a middle chunk,
which is all the code tells apart. `MaxSeq = 3` lets otadata select a slot,
select the other and come back; a single transport never gets
further (SelectionLeads: the loader holds no selection before an update), so the
bound only limits `app_two` and `app_race`. `Attempts` (5 in the code) is 2 so
that there is a first and a last probe, and 1 where only the exhaustion matters.
Images: one that confirms itself, one that crashes, one that fails verification,
one without the magic byte; `app_two` leaves the last two out, which only
shorten an update. `Overlap = FALSE` restricts `FpgaAccess` to a client that
waits for an answer before it uses the other transport. `Refusals` is TRUE but in
`fpga_tail`, whose fault is to be that of the tail alone. `JtagTap`: two bytes are
a first and a last one, and the first bit, which is lost, differs from
the others; two attempts are a first and a last; 6 idle clocks are one and 50 or
more are two, since the logic only tells "enough" from "not enough". `SerialLine`:
four items of payload fill a buffer of two twice, and one of them is a line
feed, two are carriage returns, so that what is left over splits into lines that
end and one that does not; four commands are enough for one that is aborted, one
that is lost, and one after it. `Main`: a ring buffer of two records is empty,
half full and full; one retry is a first and a last; two addresses are a lease and
a renewal; `EventRoom = 2` lets one event overtake the state that another told
of. `CHECK_DEADLOCK FALSE` is in `fpga_two` and `fpga_hang` because the code really
can stop there, and in `serial` because the host runs out of commands.

**Fairness.** Weak fairness of what a task does by itself: FreeRTOS runs every
ready task, and no handler holds a core without yielding. Waiting for a client is
fair only where the code bounds the wait: `read_raw_bytes` (30 s) and the three
timeouts of `handle_fpga_update`. `handle_update` and `handle_fpga_jtag_sram`
repeat a timed-out receive without limit, so nothing is assumed of them, and
the liveness properties speak of the serial line, or of what runs by itself. An
application that does not confirm itself ends in a reset (`AppCrash`): it is what
"crashes" means here. In `JtagTap` calls run, and the two polls are bounded by
the clock, so that a poll cannot go on without its timeout. In `SerialLine` the
console task and the driver's interrupt run, the host reads answers and gives up
a command that gets none, but need not send; no failure is assumed to come. In
`Main` tasks run, the sender wakes every 50 ms, and an attempt to connect ends,
either way; connections need not last, and clients and log output need not come.

## 4. Proofs

All theorems are checked by TLAPS from the named assumptions on the constants
alone; the extra hypotheses are in the statements.

* `AppUpdateProofs`
  * `TypeCorrect`: `Spec => []TypeOK`.
  * `InvAlways`, `SelectionIsSafe`, `MemoryIsSafe`: with one transport
    (`SingleTransport`), the inductive invariant `Inv`, `SelectedIsComplete` and
    `RememberedIsComplete`, under all faults.
  * `LastSlotFollows`, `ResumeIsRight`: with one transport, a fresh board, and
    neither failures of NVS nor losses of power between the two commits
    (`MemoryKept`), `LastInv` and `ResumeIsLastRun`.
* `AppStoreProofs`: `Refinement`, with one transport, `Spec` implements `AppStore`.
* `FpgaAccessProofs`: `TypeCorrect`, `OneLockAtATime`, `SessionsAreOwn`,
  `FlashIsExclusive` and `UpdateIsWritten` (`WrittenUnlessLost`), for any transports,
  requests, `N` and `Attempts`, whether requests overlap or not, and with or without
  refusals; where requests do not overlap, `SramIsLoaded` (`SramSuccessIsWhole`),
  `OwnFlashIsKept`, and `DesignsAreKept`: `Spec` implements `FpgaDesigns`.
* `JtagMutexProofs`: `InvAlways`, `LockExcludes`, `LockStaysUsable`.
* `JtagTapProofs`: `TypeCorrect`, `StreamIsIntact`, `StreamingMeansShifting`,
  `EndIsReset` and the action property `ReadingsTrue`, for any number of bytes and
  of attempts, any callers, and with or without resets by others.
* `SerialLineProofs`: `TypeCorrect`, `TransfersAreOwn`, `LineRecovers`, for any payload,
  sizes of buffers and number of commands.
* `WifiLogProofs`: `PauseIsNested`, for any finite set of transports.
* `MainProofs`: `LogIsKept` (the start and the station leave the log what it is:
  `MainSpec` implements `WifiLog`'s `Spec`), and with it `PauseInLoader`;
  `MainTypeCorrect`, `Prepared`, `StatusAgreesAtRest`, `RetriesContinue`.

**The argument for updates.** That what is selected is complete is not inductive:
a handler in `recv` writes its slot, and why that is not the selected slot must
be known. `Inv` says why. In the loader, a selection exists only between
`setboot` and the restart (`SelectionLeads`), because the loader is entered by an
erase of otadata, or with records that are given up. Hence while a handler
receives nothing is selected, and its target was chosen from `last_slot`: it is
the other slot (`TaskInv`), so what is remembered is not touched either.
`RecordsAgree` is needed where a selection is spoiled by a reset in the
middle of a write: the record that then counts must name the same slot.
`LastInv` adds that `last_slot` is the slot of the last run in every state in
which nothing is selected. With two transports `TaskInv` fails, and with
it everything else: `app_race`.

**The refinement of `AppStore`** maps a slot to its application when it is complete and to
`Empty` otherwise, and `selected` to `BootPartition`. Chunks of a slot that is
not selected are an `Overwrite`, `SetBoot` is a `Select`, and everything that
goes through a reset is a `Restart`; all else stutters.

**The JTAG lock.** `HoldsMine` (whoever is past the lock holds the mutex it took)
and `MadeMine` (which was made) give exclusion as long as one mutex was made.
`LockNotLost` is inductive with them.

**FPGA and flash.** `IInv` says that the program counter tells which lock a task
holds (`LockInv`): the JTAG lock from `begin` to `end`, the mutex of the flash from
`erase` to the last `write`, and inside a reinit what `back` says. From that no task
holds both, and, since every step but the holder's leaves the flash alone, the
flash is exclusive. `Session` adds that a stream belongs to the holder of the JTAG
lock while that shifts. `Counted` is needed for the types: how far a handler is in
its image or its attempts.
`WrittenInv` says chunk by chunk what the flash holds behind a task that has
lost nothing: its own image as far as it has come, and erased flash beyond. This needs
no more than the exclusion, so it holds however requests overlap: a probe in the
middle, a bridge that is gone or a piece that is refused all set `lost`, and
without `lost` in `WrittenUnlessLost` the claim is false.
Where requests do not overlap, `SoloInv` adds what a handler has reached that nobody
disturbs: the bridge runs and the flash is ready from `lock` to the last `write`, so
the probes inside an erase or a write, whose failure would leave that step out, are
never made. `DeviceInv` then follows: whoever uses the device finds the flash ready,
and a flash that is ready has a device.
The refinement of `FpgaDesigns` uses all three, and `ServesInv`: from where a handler is
follows which request it serves, so that the answer that it gives is the success
the abstract specification speaks of, and what it shifts goes to an erased FPGA.
`ResultStep` says that a step changes the outcome of its own request only, `Unseen`
that a step which leaves FPGA and flash alone, without an answer, stutters;
an erase, and every write but the last, is a `Wipe`, the last write a `Program`, and
either is a `Refuse` if it was refused.

**The TAP.** The clocks of a call are recursive functions, and the library's induction
theorems cannot be instantiated. `JtagTapProofs` gets induction from a least element
(`WFMin`) of the *set* of the numbers at which a claim fails: `SetInduction`, and from
it `UpTo` and `Iterates`, which say that the recursive definitions of the model have
the values they describe. On these rest, in order: what one edge does to a chip
(`EdgeType`; `Sane`, what every chip can be in); that ten ones reach Test-Logic-Reset
from wherever the TAP is (`GotoResetIs`); what a scan, a command and a register read do
(`IrScanIs`, `SendCommandIs`, `ReadBitsIs`: 31 samples are the bits of the register,
the last one is that of a line pulled up); and that the eight clocks of a byte
extend what the FPGA took by that byte (`WriteIs`). `IInv` then has four parts beyond
the types. `Sane` is all that is assumed of an FPGA another handler has disturbed.
`FlagInv`: `g_streaming_dr` is only set where a stream may be open, and after
`jtag_gowin_init`, so that the one opening that moves the TAP finds no stream. `PlaceInv`
says how far a session that was not disturbed has brought the FPGA, place
by place. The fourth is the two invariants `StreamingIsShifting` and `EndLeavesReset`
themselves. A first version without `ready` in `FlagInv` was not inductive.

**The serial line.** That a transfer gets its own payload follows from where items can
be. A command that has not been read is the last thing that was sent (`CommandInv`), so
when the device reads it, nothing is left over, and all that comes next is its
payload. `BufferInv` orders the buffers: what was received comes before the prefix,
that before the driver's ring buffer, and that before what is on its way; what is
stranded in stdio's buffer is not read once the driver is there. `Spaced` turns the
order into the payload itself: places that rise from 1 to `Size` in `Size` steps skip
none. A lost command, too, is the last thing that was sent, so that the line is clean
after it (`LostInv`).

**Start-up and station.** `Prepared` needs that a server is started only once
`boot` is past `spi_flash_bridge_init`, and that a transfer has a server. For
`StatusAgreesAtRest`, `AddressInv` says that flag and address agree but for what the
handler has still to store. `RetriesContinue` rests on this: a station that is `idle`
has not been started, or has in `events`, or in the handler, what will make it connect,
or has set `WIFI_FAIL_BIT`, or was refused.

**Only model-checked:** liveness (`CrashingAppYields`, `SerialUpdateEnds`,
`SerialEnds`, `BridgeIsTemporary`, `SessionsEnd`, `LinesAgain`, `HostNotStuck`,
`BacklogLeaves`, `SerialServed`, `UpIsReported`, `LossIsReported`), since fairness and
ENABLED are out of TLAPS's reach. Every invariant and every action property of a run is
a theorem, as are both refinements.

## 5. Where code and documents part

Shown by runs: `app_race`, `fpga_tail`, `fpga_hang`. The models show more, if their
constants are changed or a formula is added; no run is kept for these.

* `spi_flash_bridge_fpga_reset` takes no JTAG lock and wipes the design another
  request is shifting in, whose load still reports success, since
  `jtag_gowin_program_sram_end` only warns when DONE is not set. `SramSuccessIsWhole`
  fails in `FpgaAccess` with `Overlap = TRUE`; serial_flash.c:7 says the transports
  can never "race for the JTAG pins".
* Nor does success mean, without any overlap, that the design runs: it says the same
  of a whole design at which DONE stays unset.
* The errors of single erases and writes are dropped (spi_flash_bridge.c:243, :252), so
  an update is reported as successful over a flash that refused some or all of
  it: `SuccessMeansWritten` fails in `FpgaAccess` with `Refusals = TRUE`, for aligned
  images and without overlap. `WrittenUnlessLost` is what remains of it.
* Where requests overlap, a probe that could not register its device leaves
  s_ext_flash NULL under an update that goes on. esp_flash takes that for the flash
  of the ESP32, at the addresses meant for the other one. ESP-IDF normally aborts there,
  since address 0 is its boot loader's; if it is configured not to, `own` changes:
  `OwnFlashKept` fails in `FpgaAccess` with `Overlap = TRUE`.
* An HTTP update whose probe fails (http_server.c:575) returns without
  `spi_flash_bridge_fpga_reset` and leaves the FPGA on the bridge:
  `BridgeIsTemporary` speaks of the transfer, which begins later.
* `sdkconfig.defaults:18` expects a crashing application to "auto-revert otadata to
  the previous ota_0/ota_1 slot". Every update starts after a Tier-1 erase of
  otadata, so no record of the previous slot is left: the loader starts.
* A resumed application is on probation again: if power is lost before it has
  confirmed itself in that run, it is given up like a new one.
* `ResumeIsLastRun` fails with two transports (otadata and `last_slot` written in
  opposite orders), with `"nvs"` or `"commit_loss"` in `Faults` (the loss of
  `last_slot` is not noticed), and with `Migrated = TRUE` (a board with an application but no
  `last_slot` is taken for a fresh one, http_server.c:239).
* `nvs_loader` is erased without a word when it is full (wifi_init.c:105), and
  the next update then goes to `ota_0`, whatever ran last.
* Two updates to crashing applications overwrite the last one that confirmed
  itself, since `last_slot` is saved before the new application has.
* The very first two requests can each make a JTAG mutex and both enter:
  `MutualExclusion` by itself is not an invariant of `JtagMutex`.
* The holder of the flash mutex can lose the bridge, or the device handle, under
  it: neither is covered by that mutex.
* A serial update of the flash that stalls leaves the FPGA on the bridge.
* `udp_sender_task` looks at the pause once per backlog and forwards into a
  transfer that begins meanwhile.
* jtag_gowin.c:596 says "XFER_DONE is mandatory" after a bitstream; the code never
  sends it there, and counts on the commands inside the bitstream (:610).
* The first bit of a bitstream is clocked in Capture-DR (jtag_gowin.c:535) and does
  not reach the FPGA, which is harmless while bitstreams start with filler.
* wifi_init.c:150 says HTTP is unreachable "until it does" connect. After five
  retries in a row nothing calls `esp_wifi_connect` again.
* The results of `esp_wifi_connect` (wifi_init.c:46, :53) are ignored. If the driver
  refuses, no event comes and no bit is set: the station stays idle for good, without
  having given up. `NoRetryLost` and `LossIsReported` except that state (`refused`).
* An address that is dispatched after the station gave up, or was refused, sets
  `s_connected`, and nothing clears it again: the exceptions of `LossIsReported`.
* The alive loop of `app_main` (main.c:56-60) reads the address, then the flag. If the
  handler stores them in between, that one line of the log says "connected" with 0.0.0.0,
  or "disconnected" with an address; no order of two reads, or of two stores, could
  prevent it. wifi_init.h says of either value what only `StatusAgrees`, between two
  events, makes true of both. The loop is not in the model.
* A stored SSID is used with the compiled-in password if no password is stored, and
  the reverse (`load_credentials`; not in the model).
* `wifi_log_start` is called after the wait of 15 s, connected or not; what the
  sender then forwards before there is a connection is lost.
* A host that sends payload right after READY has part of it fetched by stdio. What
  exceeds the 64 bytes of `s_prefix_buf` stays in stdio's buffer behind the driver
  and is read as a line after the transfer, which itself then stalls.
* `spi_flash_bridge_fpga_reset` makes `LED_CLEAR_N` an input, so its second call
  drives nothing (not in the model).

## 6. Not modelled

The HTTP server library, lwIP, esp_flash and the WiFi driver are external. Sizes
of images against sizes of partitions, failures to allocate before anything has
changed, logging text and CORS headers change no state a property reads. The
failure of `spi_flash_bridge_init` at start, after which no update of the flash
works, is left out, as is an `nvs_loader` that cannot be initialized at all. A client
design that is incomplete, or not for this FPGA, is one at which DONE stays unset. Which
credentials the station uses decides only whether an attempt to connect
succeeds, which is left open. `/`, `/status`, `/update-target` only read, and the
status LED is an output nobody reads. `bootloader_data.h` is data.
`jtag_gowin_program_sram`, `jtag_gowin_verify`, `jtag_dr_scan` and
`spi_flash_bridge_read` are never called.

## 7. What is left

The plan of the development is carried out: `OtaData`, `AppUpdate` and `AppStore`,
`FpgaAccess` and `FpgaDesigns`, `JtagMutex`, `WifiLog`, `WifiStation`, `Main`,
`SerialLine` and `JtagTap`, with the proofs of section 4. Worth adding:

1. What the two transports may rely on where their requests do overlap: an abstract
   specification of that, weaker than `FpgaDesigns`.
2. `JtagTap`'s sessions as the `SramBegin`, `Shift` and `SramEnd` of `FpgaAccess`.
