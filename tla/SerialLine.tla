------------------------------ MODULE SerialLine ------------------------------
(***************************************************************************)
(* The USB console as serial_flash.c uses it: command lines read through   *)
(* stdio, a raw payload read through a driver that is installed for it,    *)
(* and lines again; one host that follows the protocol of serial_flash.h.  *)
(*                                                                         *)
(* Bytes pass through four places: what the host has sent and the device   *)
(* has not fetched (wire), stdio's own buffer (file), what is taken out of *)
(* that one before the driver comes (prefix: s_prefix_buf), and the        *)
(* driver's ring buffer (ring).                                            *)
(*                                                                         *)
(* Abstractions.  A command line is one item, a payload is Size of them,   *)
(* and no part of a payload spells a command.  What a transfer does with   *)
(* the payload, and why it fails, is left open (see FpgaAccess, AppUpdate).*)
(* USB loses nothing: a full buffer makes the host wait.  After            *)
(* APP_FLASH_OK the board restarts, which leads back to the initial state. *)
(***************************************************************************)
EXTENDS Naturals, Sequences

CONSTANTS
    Size,      \* items in a payload
    Newlines,  \* the items of a payload that hold a line feed
    Returns,   \* the items of a payload that hold a carriage return
    Room,      \* items that fit in s_prefix_buf
    Burst,     \* items stdio fetches at once, at most
    Commands   \* bound: commands the host sends

ASSUME SizeAssumption     == Size \in Nat \ {0}
ASSUME ItemsAssumption    == Newlines \subseteq 1..Size /\ Returns \subseteq 1..Size
ASSUME RoomAssumption     == Room \in Nat \ {0} /\ Burst \in Nat \ {0}
ASSUME CommandsAssumption == Commands \in Nat

VARIABLES
    host,    \* where the host is in the protocol
    wire,    \* items on their way
    replies, \* answers on their way back
    file, prefix, ring,
    driver,  \* s_driver_installed
    mode,    \* the line endings stdio converts: "CR" turns a return into a line feed
    dirty,   \* the line being read already holds something else than a command
    device,  \* where serial_console_task is
    got,     \* what the transfer received
    lost     \* commands in a row that got no answer

vars == <<host, wire, replies, file, prefix, ring, driver, mode, dirty, device, got, lost>>

\* An item: of which command, its place in the payload, and whether conversion
\* changed it.  Place 0 is the command line itself.
Items == [command : 1..Commands, place : 0..Size, changed : BOOLEAN]

Item(c, p) == [command |-> c, place |-> p, changed |-> FALSE]

Payload(c) == [p \in 1..Size |-> Item(c, p)]

TypeOK ==
    /\ host \in [pc : {"idle", "asked", "sending", "sent"}, command : 0..Commands, next : 1..Size]
    /\ \A items \in {wire, file, prefix, ring, got} : items \in Seq(Items)
    /\ Len(prefix) <= Room /\ Len(file) <= Burst /\ Len(got) <= Size
    /\ replies \in Seq({"ready", "ok", "error"})
    /\ driver \in BOOLEAN /\ dirty \in BOOLEAN
    /\ mode \in {"CR", "LF"}
    /\ device \in [pc : {"line", "ready", "begin", "drain", "start", "recv", "end"},
                   command : 0..Commands, ok : BOOLEAN]
    /\ lost \in 0..Commands

Init ==
    /\ host = [pc |-> "idle", command |-> 0, next |-> 1]
    /\ wire = <<>> /\ file = <<>> /\ prefix = <<>> /\ ring = <<>> /\ got = <<>>
    /\ replies = <<>>
    /\ driver = FALSE /\ dirty = FALSE
    /\ mode = "CR"
    /\ device = [pc |-> "line", command |-> 0, ok |-> FALSE]
    /\ lost = 0

hostVars   == <<host, wire, replies>>
bufferVars == <<file, prefix, ring>>
modeVars   == <<driver, mode>>

-----------------------------------------------------------------------------
(* The host. *)

HostCommand ==
    /\ host.pc = "idle"
    /\ host.command < Commands
    /\ host' = [host EXCEPT !.pc = "asked", !.command = @ + 1]
    /\ wire' = Append(wire, Item(host.command + 1, 0))
    /\ UNCHANGED <<replies, bufferVars, modeVars, dirty, device, got, lost>>

HostSend ==
    /\ host.pc = "sending"
    /\ wire' = Append(wire, Item(host.command, host.next))
    /\ host' = IF host.next = Size THEN [host EXCEPT !.pc = "sent"]
               ELSE [host EXCEPT !.next = @ + 1]
    /\ UNCHANGED <<replies, bufferVars, modeVars, dirty, device, got, lost>>

\* READY starts the payload; the other answers end the request.
HostRead ==
    /\ replies # <<>>
    /\ host' = IF Head(replies) = "ready" THEN [host EXCEPT !.pc = "sending", !.next = 1]
               ELSE [host EXCEPT !.pc = "idle"]
    /\ replies' = Tail(replies)
    /\ UNCHANGED <<wire, bufferVars, modeVars, dirty, device, got, lost>>

\* No answer comes to a command: the host gives it up after a while.
HostGivesUp ==
    /\ host.pc = "asked"
    /\ device.pc = "line" /\ wire = <<>> /\ file = <<>> /\ replies = <<>>
    /\ host' = [host EXCEPT !.pc = "idle"]
    /\ UNCHANGED <<wire, replies, bufferVars, modeVars, dirty, device, got, lost>>

-----------------------------------------------------------------------------
(* serial_console_task. *)

At(l) == device.pc = l

Goto(l) == device' = [device EXCEPT !.pc = l]

\* stdio fetches what has arrived, and converts it.
Converted(item) == IF mode = "CR" /\ item.place \in Returns THEN [item EXCEPT !.changed = TRUE] ELSE item

Fetch ==
    /\ file = <<>>
    /\ \E n \in 1..Len(wire) :
         /\ n <= Burst
         /\ file' = [i \in 1..n |-> Converted(wire[i])]
         /\ wire' = SubSeq(wire, n + 1, Len(wire))
    /\ UNCHANGED <<host, replies, prefix, ring, modeVars, dirty, device, got, lost>>

FetchForLine == At("line") /\ Fetch

\* Slip: only a line that began as a command ends.
ReadLineKeepingRest ==
    /\ At("line")
    /\ file # <<>>
    /\ file' = Tail(file)
    /\ LET item == Head(file) IN
       IF item.place = 0
       THEN /\ UNCHANGED dirty
            /\ lost' = IF dirty THEN lost + 1 ELSE 0
            /\ device' = IF dirty THEN device
                         ELSE [device EXCEPT !.pc = "ready", !.command = item.command]
       ELSE /\ dirty' = (item.place \notin Newlines)
            /\ UNCHANGED <<device, lost>>
    /\ UNCHANGED <<hostVars, prefix, ring, modeVars, got>>

\* read_line and the dispatch.  A command is only one if its line holds nothing
\* else; any other line is passed over.
ReadLine ==
    /\ At("line")
    /\ file # <<>>
    /\ file' = Tail(file)
    /\ LET item == Head(file) IN
       IF item.place = 0
       THEN /\ dirty' = FALSE
            /\ lost' = IF dirty THEN lost + 1 ELSE 0
            /\ device' = IF dirty THEN device
                         ELSE [device EXCEPT !.pc = "ready", !.command = item.command]
       ELSE /\ dirty' = (item.place \notin Newlines \cup {p \in Returns : item.changed})
            /\ UNCHANGED <<device, lost>>
    /\ UNCHANGED <<hostVars, prefix, ring, modeVars, got>>

\* A bad target or size is answered at once; RESUME_APP that fails, too.
Refuse ==
    /\ At("ready")
    /\ replies' = Append(replies, "error")
    /\ Goto("line")
    /\ UNCHANGED <<host, wire, bufferVars, modeVars, dirty, got, lost>>

Ready ==
    /\ At("ready")
    /\ replies' = Append(replies, "ready")
    /\ Goto("begin")
    /\ UNCHANGED <<host, wire, bufferVars, modeVars, dirty, got, lost>>

\* Slip: change the line endings after the drain.
BeginConverting ==
    /\ At("begin")
    /\ prefix' = <<>>
    /\ got' = <<>>
    /\ Goto("drain")
    /\ UNCHANGED <<hostVars, file, ring, modeVars, dirty, lost>>

\* The line endings, and io_begin up to its loop.
Begin ==
    /\ At("begin")
    /\ mode' = "LF"
    /\ prefix' = <<>>
    /\ got' = <<>>
    /\ Goto("drain")
    /\ UNCHANGED <<hostVars, file, ring, driver, dirty, lost>>

FetchForDrain == At("drain") /\ Len(prefix) < Room /\ Fetch

\* Slip: one item too many for s_prefix_buf.
DrainOneMore ==
    /\ At("drain")
    /\ Len(prefix) <= Room
    /\ file # <<>>
    /\ prefix' = Append(prefix, Head(file))
    /\ file' = Tail(file)
    /\ UNCHANGED <<hostVars, ring, modeVars, dirty, device, got, lost>>

Drain ==
    /\ At("drain")
    /\ Len(prefix) < Room
    /\ file # <<>>
    /\ prefix' = Append(prefix, Head(file))
    /\ file' = Tail(file)
    /\ UNCHANGED <<hostVars, ring, modeVars, dirty, device, got, lost>>

\* Nothing more has come, or s_prefix_buf is full: the driver is installed, or not.
Install ==
    /\ At("drain")
    /\ Len(prefix) = Room \/ file = <<>>
    /\ driver' \in BOOLEAN
    /\ Goto("start")
    /\ UNCHANGED <<hostVars, bufferVars, mode, dirty, got, lost>>

\* The driver's interrupt handler.
Interrupt ==
    /\ driver
    /\ wire # <<>>
    /\ ring' = Append(ring, Head(wire))
    /\ wire' = Tail(wire)
    /\ UNCHANGED <<host, replies, file, prefix, modeVars, dirty, device, got, lost>>

\* The transfer gets under way.
Start ==
    /\ At("start")
    /\ Goto("recv")
    /\ UNCHANGED <<hostVars, bufferVars, modeVars, dirty, got, lost>>

\* JTAG is busy, a write fails, an image is not one, ...: the rest of the payload
\* is not read.
Fail ==
    /\ device.pc \in {"start", "recv"}
    /\ device' = [device EXCEPT !.pc = "end", !.ok = FALSE]
    /\ UNCHANGED <<hostVars, bufferVars, modeVars, dirty, got, lost>>

Receive(item) ==
    /\ got' = Append(got, item)
    /\ device' = IF Len(got) + 1 = Size THEN [device EXCEPT !.pc = "end", !.ok = TRUE] ELSE device
    /\ UNCHANGED <<hostVars, modeVars, dirty, lost>>

\* read_raw_bytes: the prefix, then the driver, or stdio without it.
ReadRaw ==
    /\ At("recv")
    /\ \/ /\ prefix # <<>>
          /\ Receive(Head(prefix))
          /\ prefix' = Tail(prefix)
          /\ UNCHANGED <<file, ring>>
       \/ /\ prefix = <<>> /\ driver /\ ring # <<>>
          /\ Receive(Head(ring))
          /\ ring' = Tail(ring)
          /\ UNCHANGED <<file, prefix>>
       \/ /\ prefix = <<>> /\ ~ driver /\ file # <<>>
          /\ Receive(Head(file))
          /\ file' = Tail(file)
          /\ UNCHANGED <<prefix, ring>>

FetchForRaw == At("recv") /\ prefix = <<>> /\ ~ driver /\ Fetch

Source == IF driver THEN ring ELSE file

\* Slip: wait for ever.
StallNever == FALSE /\ UNCHANGED vars

\* 30 s without data.
Stall ==
    /\ At("recv")
    /\ prefix = <<>> /\ Source = <<>> /\ wire = <<>>
    /\ device' = [device EXCEPT !.pc = "end", !.ok = FALSE]
    /\ UNCHANGED <<hostVars, bufferVars, modeVars, dirty, got, lost>>

\* Slip: answer only what went well.
EndSilently ==
    /\ At("end")
    /\ driver' = FALSE
    /\ ring' = IF driver THEN <<>> ELSE ring
    /\ mode' = "CR"
    /\ replies' = IF device.ok THEN Append(replies, "ok") ELSE replies
    /\ Goto("line")
    /\ UNCHANGED <<host, wire, file, prefix, dirty, got, lost>>

\* io_end drops what the driver still has; then the line endings, and the answer.
End ==
    /\ At("end")
    /\ driver' = FALSE
    /\ ring' = IF driver THEN <<>> ELSE ring
    /\ mode' = "CR"
    /\ replies' = Append(replies, IF device.ok THEN "ok" ELSE "error")
    /\ Goto("line")
    /\ UNCHANGED <<host, wire, file, prefix, dirty, got, lost>>

-----------------------------------------------------------------------------
Device ==
    \/ FetchForLine \/ ReadLine
    \/ Ready \/ Begin
    \/ FetchForDrain \/ Drain \/ Install
    \/ Start \/ ReadRaw \/ FetchForRaw \/ Stall
    \/ End

Host == HostCommand \/ HostSend \/ HostRead \/ HostGivesUp

Next == Device \/ Refuse \/ Fail \/ Interrupt \/ Host

Spec == Init /\ [][Next]_vars

\* The console task and the interrupt run; nothing has to fail.  The host reads
\* what it is sent, and gives a command up; it need not send anything.
FairSpec ==
    /\ Spec
    /\ WF_vars(Device) /\ WF_vars(Interrupt)
    /\ WF_vars(HostRead) /\ WF_vars(HostGivesUp)

-----------------------------------------------------------------------------
(* Properties. *)

\* "exactly <size> of them" (serial_flash.h): whatever was left over from earlier
\* transfers, and however early the host starts, a transfer receives its own
\* payload in order, unconverted, with nothing twice and nothing foreign; and one
\* that ends well received all of it.
PayloadIsOwn ==
    device.pc \in {"recv", "end"} =>
        /\ \A i \in 1..Len(got) : got[i].command = device.command /\ ~ got[i].changed
        /\ \A i, j \in 1..Len(got) : i < j => got[i].place < got[j].place
        /\ At("end") /\ device.ok => got = Payload(device.command)

\* "must be restored ... or the next line-based command stops parsing correctly":
\* what an aborted transfer leaves behind costs the host one command at most.
OneCommandLost == lost <= 1

\* "Gives up after SERIAL_FLASH_STALL_MS of no data rather than hanging forever":
\* whatever the host does, the console comes back to reading lines, ...
LinesAgain == device.pc # "line" ~> device.pc = "line"

\* ... and the host is not left waiting in its protocol once it has sent all.
HostNotStuck == host.pc \in {"asked", "sent"} ~> host.pc \notin {"asked", "sent"}

================================================================================
