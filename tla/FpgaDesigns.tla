----------------------------- MODULE FpgaDesigns -----------------------------
(***************************************************************************)
(* What the loader promises of the FPGA and of the design in its flash,    *)
(* when requests come one at a time, without locks, sessions, chunks or    *)
(* probes: the flash changes only while the FPGA runs the bridge and by    *)
(* the request that is being served, the FPGA never runs a design from     *)
(* flash other than the one there, and a success says what has been done,  *)
(* but for what the flash refused.                                         *)
(***************************************************************************)
CONSTANTS
    Clients,  \* who makes requests
    Shipped,  \* the image the flash came with
    Damaged   \* what the flash holds when it is no whole image

VARIABLES
    image,   \* what the flash holds: whose image
    runs,    \* what the FPGA runs: an image, or what was loaded into it
    result,  \* the last request of each client
    refused  \* whether the flash refused a call of that request, unnoticed

vars == <<image, runs, result, refused>>

Init ==
    /\ image = Shipped
    /\ runs = Shipped
    /\ result = [c \in Clients |-> "none"]
    /\ refused = [c \in Clients |-> FALSE]

Busy(c)      == result[c] = "busy"
End(c, what) == result' = [result EXCEPT ![c] = what]

Accept(c) ==
    /\ \A d \in Clients : ~ Busy(d)
    /\ End(c, "busy")
    /\ refused' = [refused EXCEPT ![c] = FALSE]
    /\ UNCHANGED <<image, runs>>

\* The FPGA is erased, and takes a design into its SRAM.
Erase(c) ==
    /\ Busy(c)
    /\ runs' = "blank"
    /\ UNCHANGED <<image, result, refused>>

Bridge(c) ==
    /\ Busy(c)
    /\ runs = "blank"
    /\ runs' = "bridge"
    /\ UNCHANGED <<image, result, refused>>

\* The design has been taken whole, which need not make it run.
Load(c) ==
    /\ Busy(c)
    /\ runs = "blank"
    /\ runs' \in {"user", "blank"}
    /\ End(c, "loaded")
    /\ UNCHANGED <<image, refused>>

\* The flash is erased, and takes an image.
Wipe(c) ==
    /\ Busy(c)
    /\ runs = "bridge"
    /\ image' = Damaged
    /\ UNCHANGED <<runs, result, refused>>

Program(c) ==
    /\ Busy(c)
    /\ runs = "bridge"
    /\ image = Damaged
    /\ image' = c
    /\ UNCHANGED <<runs, result, refused>>

\* The flash refuses some or all of an erase or a write, and nobody is told.
Refuse(c) ==
    /\ Busy(c)
    /\ runs = "bridge"
    /\ refused' = [refused EXCEPT ![c] = TRUE]
    /\ image' \in {image, Damaged}
    /\ UNCHANGED <<runs, result>>

Identify(c) ==
    /\ Busy(c)
    /\ runs = "bridge"
    /\ End(c, "identified")
    /\ UNCHANGED <<image, runs, refused>>

\* The FPGA loads itself from the flash: an update has succeeded.
Start(c) ==
    /\ Busy(c)
    /\ image = c \/ refused[c]
    /\ runs' = image
    /\ End(c, "flashed")
    /\ UNCHANGED <<image, refused>>

\* A request fails; RECONFIG_N may have made the FPGA load itself, or an erase
\* may have been the last that was done to it.
Fail(c) ==
    /\ Busy(c)
    /\ runs' \in {runs, image, "blank"}
    /\ End(c, "failed")
    /\ UNCHANGED <<image, refused>>

Next == \E c \in Clients :
    \/ Accept(c) \/ Erase(c) \/ Bridge(c) \/ Load(c) \/ Wipe(c)
    \/ Program(c) \/ Refuse(c) \/ Identify(c) \/ Start(c) \/ Fail(c)

Spec == Init /\ [][Next]_vars
===============================================================================
