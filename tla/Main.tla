--------------------------------- MODULE Main ---------------------------------
(***************************************************************************)
(* app_main: the start of the loader, on top of the station and the log.   *)
(* The main task starts one after the other; wifi_event_handler, the tasks *)
(* that log and, from their start on, the two servers run beside it.       *)
(*                                                                         *)
(* Abstractions.  Of the servers, only the pause of the log around their   *)
(* transfers is here (see FpgaAccess and AppUpdate).                       *)
(***************************************************************************)
EXTENDS WifiLog, WifiStation

VARIABLES
    boot,     \* the call app_main makes next
    bridge,   \* s_flash_mutex exists
    servers   \* the transports that take requests

bootVars == <<boot, bridge, servers>>
mainVars == <<vars, stationVars, bootVars>>

BootTypeOK ==
    /\ boot \in {"wifi_init_start", "wait", "wifi_log_start", "spi_flash_bridge_init",
                 "loader_http_server_start", "serial_flash_start", "alive"}
    /\ bridge \in BOOLEAN
    /\ servers \in SUBSET Transports

MainInit ==
    /\ Init
    /\ StationInit
    /\ boot = "wifi_init_start"
    /\ bridge = FALSE
    /\ servers = {}

-----------------------------------------------------------------------------
(* app_main. *)

WifiInitStart ==
    /\ boot = "wifi_init_start"
    /\ StationStart
    /\ boot' = "wait"
    /\ UNCHANGED <<vars, bridge, servers>>

\* Slip: wait without limit.
WaitForBits ==
    /\ boot = "wait"
    /\ bits # {}
    /\ boot' = "wifi_log_start"
    /\ UNCHANGED <<vars, stationVars, bridge, servers>>

\* xEventGroupWaitBits returns with a bit set, or after 15 s: in either case at
\* any moment, as far as the others can tell.
Wait ==
    /\ boot = "wait"
    /\ boot' = "wifi_log_start"
    /\ UNCHANGED <<vars, stationVars, bridge, servers>>

\* wifi_log_start, connected or not; without a socket there is no log.
WifiLogStart ==
    /\ boot = "wifi_log_start"
    /\ \/ Start
       \/ UNCHANGED vars
    /\ boot' = "spi_flash_bridge_init"
    /\ UNCHANGED <<stationVars, bridge, servers>>

BridgeInit ==
    /\ boot = "spi_flash_bridge_init"
    /\ bridge' = TRUE
    /\ boot' = "loader_http_server_start"
    /\ UNCHANGED <<vars, stationVars, servers>>

\* Slip: the server first.
HttpStartEarly ==
    /\ \/ boot = "loader_http_server_start" /\ boot' = "serial_flash_start"
       \/ boot = "spi_flash_bridge_init" /\ UNCHANGED boot
    /\ servers' \in {servers, servers \cup ({"http"} \cap Transports)}
    /\ UNCHANGED <<vars, stationVars, bridge>>

\* The server may fail to start, and the loader goes on without it.
HttpStart ==
    /\ boot = "loader_http_server_start"
    /\ servers' \in {servers, servers \cup ({"http"} \cap Transports)}
    /\ boot' = "serial_flash_start"
    /\ UNCHANGED <<vars, stationVars, bridge>>

\* The loop that follows only reads the status and logs it (see WifiLog).
SerialStart ==
    /\ boot = "serial_flash_start"
    /\ servers' = servers \cup ({"serial"} \cap Transports)
    /\ boot' = "alive"
    /\ UNCHANGED <<vars, stationVars, bridge>>

AppMain ==
    \/ WifiInitStart \/ Wait \/ WifiLogStart \/ BridgeInit \/ HttpStart \/ SerialStart

-----------------------------------------------------------------------------
\* A server that runs brackets its transfers.
Transfer(t) ==
    /\ t \in servers
    /\ FlashBegin(t) \/ FlashEnd(t)
    /\ UNCHANGED <<stationVars, bootVars>>

Station ==
    /\ StationStep
    /\ UNCHANGED <<vars, bootVars>>

SenderTask ==
    /\ Sender
    /\ UNCHANGED <<stationVars, bootVars>>

Logger(l) ==
    /\ Log(l) \/ Printf(l) \/ WriteConsole(l) \/ Queue(l)
    /\ UNCHANGED <<stationVars, bootVars>>

MainNext ==
    \/ AppMain \/ Station \/ SenderTask
    \/ \E t \in Transports : Transfer(t)
    \/ \E l \in Loggers : Logger(l)

MainSpec == MainInit /\ [][MainNext]_mainVars

\* The tasks run: the sender wakes every 50 ms.  An attempt to connect ends, one
\* way or the other; a connection need not, clients need not come, and nobody
\* needs to log.
MainFairSpec ==
    /\ MainSpec
    /\ WF_mainVars(AppMain)
    /\ WF_mainVars(SenderTask)
    /\ WF_mainVars(Station /\ EventLoop)
    /\ WF_mainVars(Station /\ link = "connecting" /\ (Associate \/ Disconnect))

-----------------------------------------------------------------------------
(* Properties. *)

MainTypeOK == TypeOK /\ StationTypeOK /\ BootTypeOK

\* "Safe to call once at boot" and in this order only: a transfer can begin no
\* earlier than the mutex of the flash exists and the log can be paused for it, so
\* whatever a first request does finds what app_main has to prepare.
TransfersFindAll ==
    transfers # {} =>
        /\ bridge
        /\ boot \in {"loader_http_server_start", "serial_flash_start", "alive"}

\* "HTTP endpoint unreachable until it does" (wifi_init.c), but the serial line is
\* served whatever WiFi does.
SerialServed == <>[]("serial" \in servers)

\* The backlog of the start leaves the ring buffer in the end, if there is a socket
\* to send it to: no log from before the connection keeps later log out.
BacklogLeaves ==
    ring = Capacity ~>
        \/ ring < Capacity
        \/ boot \notin {"wifi_init_start", "wait", "wifi_log_start"} /\ ~ socket

================================================================================
