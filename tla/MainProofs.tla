------------------------------- MODULE MainProofs -------------------------------
(***************************************************************************)
(* Proofs about Main: that the log keeps its promise in the whole, that    *)
(* app_main's order is right, and what wifi_event_handler promises, for    *)
(* any transports, addresses and number of retries.                        *)
(***************************************************************************)
EXTENDS Main, WifiLogProofs

LEMMA StepOfLog == [MainNext]_mainVars => [Next]_vars
<1> SUFFICES ASSUME [MainNext]_mainVars PROVE [Next]_vars
  OBVIOUS
<1>1. CASE AppMain
  BY <1>1, Zenon DEF AppMain, WifiInitStart, Wait, WifiLogStart, BridgeInit, HttpStart, SerialStart, Next
<1>2. CASE Station
  BY <1>2, Zenon DEF Station
<1>3. CASE SenderTask
  BY <1>3, Zenon DEF SenderTask, Next
<1>4. ASSUME NEW t \in Transports, Transfer(t) PROVE Next
  BY <1>4, Zenon DEF Transfer, Next
<1>5. ASSUME NEW l \in Loggers, Logger(l) PROVE Next
  BY <1>5, Zenon DEF Logger, Next
<1>6. CASE UNCHANGED mainVars
  BY <1>6 DEF mainVars
<1> QED BY <1>1, <1>2, <1>3, <1>4, <1>5, <1>6, Zenon DEF MainNext

\* In the whole loader the log does only what it does alone.
THEOREM LogIsKept == MainSpec => Spec
<1>1. MainInit => Init
  BY DEF MainInit
<1> QED BY <1>1, StepOfLog, PTL DEF MainSpec, Spec

\* So the pause of the log is exact there too, with the servers started when
\* app_main starts them.
THEOREM PauseInLoader == MainSpec => []PausedIffTransferring
BY LogIsKept, PauseIsNested, PTL

-----------------------------------------------------------------------------
(* The order of app_main. *)

Late == {"loader_http_server_start", "serial_flash_start", "alive"}

\* Transfers need a server, and a server is started last.
BootInv ==
    /\ boot \in Late => bridge
    /\ servers # {} => boot \in Late
    /\ transfers # {} => servers # {}

LEMMA BootInvHolds == MainSpec => []BootInv
<1>1. MainInit => BootInv
  BY DEF MainInit, Init, BootInv, Late
<1>2. BootInv /\ [MainNext]_mainVars => BootInv'
  <2> SUFFICES ASSUME BootInv, [MainNext]_mainVars PROVE BootInv'
    OBVIOUS
  <2> USE DEF BootInv, Late, bootVars, vars, flashVars
  <2>1. CASE AppMain
    <3>1. UNCHANGED transfers
      BY <2>1 DEF AppMain, WifiInitStart, Wait, WifiLogStart, Start, BridgeInit, HttpStart, SerialStart
    <3>2. CASE WifiInitStart \/ Wait \/ WifiLogStart
      BY <3>1, <3>2 DEF WifiInitStart, Wait, WifiLogStart
    <3>3. CASE BridgeInit \/ HttpStart \/ SerialStart
      BY <3>1, <3>3 DEF BridgeInit, HttpStart, SerialStart
    <3> QED BY <2>1, <3>2, <3>3, Zenon DEF AppMain
  <2>2. CASE Station
    BY <2>2 DEF Station
  <2>3. CASE SenderTask
    BY <2>3 DEF SenderTask, Sender, Wake, Discard, Receive, SendTo, Drained
  <2>4. ASSUME NEW t \in Transports, Transfer(t) PROVE BootInv'
    BY <2>4 DEF Transfer, FlashBegin, FlashEnd
  <2>5. ASSUME NEW l \in Loggers, Logger(l) PROVE BootInv'
    BY <2>5 DEF Logger, Log, Printf, WriteConsole, Queue
  <2>6. CASE UNCHANGED mainVars
    BY <2>6 DEF mainVars
  <2> QED BY <2>1, <2>2, <2>3, <2>4, <2>5, <2>6, Zenon DEF MainNext
<1> QED BY <1>1, <1>2, PTL DEF MainSpec

\* No transfer begins before app_main has prepared what it needs.
THEOREM Prepared == MainSpec => []TransfersFindAll
<1>1. BootInv => TransfersFindAll
  BY DEF BootInv, Late, TransfersFindAll
<1> QED BY <1>1, BootInvHolds, PTL

-----------------------------------------------------------------------------
(* The station.  Every step of Main is one of the station's, or leaves it. *)

StationNext == StationStart \/ StationStep

LEMMA StepOfStation == [MainNext]_mainVars => [StationNext]_stationVars
<1> SUFFICES ASSUME [MainNext]_mainVars PROVE [StationNext]_stationVars
  OBVIOUS
<1> USE DEF StationNext
<1>1. CASE AppMain
  BY <1>1, Zenon DEF AppMain, WifiInitStart, Wait, WifiLogStart, BridgeInit, HttpStart, SerialStart
<1>2. CASE Station
  BY <1>2, Zenon DEF Station
<1>3. CASE SenderTask
  BY <1>3, Zenon DEF SenderTask
<1>4. ASSUME NEW t \in Transports, Transfer(t) PROVE UNCHANGED stationVars
  BY <1>4, Zenon DEF Transfer
<1>5. ASSUME NEW l \in Loggers, Logger(l) PROVE UNCHANGED stationVars
  BY <1>5, Zenon DEF Logger
<1>6. CASE UNCHANGED mainVars
  BY <1>6 DEF mainVars
<1> QED BY <1>1, <1>2, <1>3, <1>4, <1>5, <1>6, Zenon DEF MainNext

Agree == connected <=> ip # NoAddress

\* Flag and address agree but for what the handler has still to store.
AddressInv ==
    /\ handler \in [pc   : {"idle", "start", "down", "address"},
                    ip   : Addresses \cup {NoAddress},
                    todo : SUBSET {"connected", "ip"}]
    /\ events \in Seq({"start", "disconnected"} \cup Addresses)
    /\ At("idle") \/ At("start") => Agree
    /\ At("down") => /\ "connected" \notin handler.todo => ~ connected
                     /\ "ip" \notin handler.todo => ip = NoAddress
    /\ At("address") => /\ handler.ip \in Addresses
                        /\ "connected" \notin handler.todo => connected
                        /\ "ip" \notin handler.todo => ip # NoAddress

LEMMA AddressStep == AddressInv /\ [StationNext]_stationVars => AddressInv'
<1> SUFFICES ASSUME AddressInv, [StationNext]_stationVars PROVE AddressInv'
  OBVIOUS
<1> USE AddressesAssumption
    DEF AddressInv, Agree, At, AtRest, NoAddress, statusVars, driverVars
<1>1. CASE StationStart \/ Disconnect \/ \E a \in Addresses : Lease(a)
  BY <1>1 DEF StationStart, Disconnect, Lease, Post
<1>2. CASE Associate
  BY <1>2 DEF Associate
<1>3. CASE Dispatch
  <2> DEFINE event == Head(events)
  <2>1. /\ event \in {"start", "disconnected"} \cup Addresses
        /\ Tail(events) \in Seq({"start", "disconnected"} \cup Addresses)
    BY <1>3 DEF Dispatch
  <2>2. UNCHANGED <<connected, ip>> /\ events' = Tail(events) /\ Agree
    BY <1>3 DEF Dispatch
  <2>3. \/ handler' = [pc |-> "start", ip |-> "0.0.0.0", todo |-> {}]
        \/ handler' = [pc |-> "down", ip |-> "0.0.0.0", todo |-> {"connected", "ip"}]
        \/ event \in Addresses /\ handler' = [pc |-> "address", ip |-> event, todo |-> {"connected", "ip"}]
    BY <1>3, <2>1 DEF Dispatch
  <2> QED BY <2>1, <2>2, <2>3
<1>4. CASE StaStart
  BY <1>4 DEF StaStart
<1>5. CASE Down \/ Forget
  BY <1>5 DEF Down, Forget, Store
<1>6. CASE RetryConnect \/ GiveUp
  BY <1>6 DEF RetryConnect, GiveUp, Stored
<1>7. CASE GotIp \/ Up
  BY <1>7 DEF GotIp, Up, Store
<1>8. CASE SetConnectedBit
  BY <1>8 DEF SetConnectedBit, Stored
<1>9. CASE UNCHANGED stationVars
  BY <1>9 DEF stationVars
<1> QED BY <1>1, <1>2, <1>3, <1>4, <1>5, <1>6, <1>7, <1>8, <1>9, Zenon
        DEF StationNext, StationStep, EventLoop

LEMMA AddressInvHolds == MainSpec => []AddressInv
<1>1. MainInit => AddressInv
  BY DEF MainInit, StationInit, AddressInv, Agree, At, AtRest
<1> QED BY <1>1, AddressStep, StepOfStation, PTL DEF MainSpec

\* Between two events the station is connected if and only if it has an address, in
\* whatever order the handler stores the two.
THEOREM StatusAgreesAtRest == MainSpec => []StatusAgrees
<1>1. AddressInv => StatusAgrees
  BY DEF AddressInv, Agree, StatusAgrees
<1> QED BY <1>1, AddressInvHolds, PTL

-----------------------------------------------------------------------------
Wakes == {"start", "disconnected"}

\* Without a connection, something is under way that makes the station try again,
\* or it has given up, or the driver has refused to try.
RetryInv ==
    link = "idle" =>
        \/ \E i \in DOMAIN events : events[i] \in Wakes
        \/ handler.pc \in {"start", "down"}
        \/ "WIFI_FAIL_BIT" \in bits
        \/ refused

LEMMA PostKeeps ==
    ASSUME NEW S, NEW s \in Seq(S), NEW e \in S
    PROVE  /\ \A i \in DOMAIN s : i \in DOMAIN Append(s, e) /\ Append(s, e)[i] = s[i]
           /\ Len(s) + 1 \in DOMAIN Append(s, e) /\ Append(s, e)[Len(s) + 1] = e
OBVIOUS

LEMMA TailKeeps ==
    ASSUME NEW S, NEW s \in Seq(S), s # <<>>, NEW i \in DOMAIN s, s[i] # Head(s)
    PROVE  \E j \in DOMAIN Tail(s) : Tail(s)[j] = s[i]
<1>1. i # 1 /\ i \in 1..Len(s)
  OBVIOUS
<1>2. i - 1 \in DOMAIN Tail(s) /\ Tail(s)[i - 1] = s[i]
  BY <1>1
<1> QED BY <1>2

LEMMA RetryStep == AddressInv /\ RetryInv /\ [StationNext]_stationVars => RetryInv'
<1> SUFFICES ASSUME AddressInv, RetryInv, [StationNext]_stationVars PROVE RetryInv'
  OBVIOUS
<1> USE DEF RetryInv, Wakes, At, AtRest, statusVars, driverVars, Connect
<1>1. events \in Seq({"start", "disconnected"} \cup Addresses)
  BY DEF AddressInv
<1>2. CASE StationStart \/ Disconnect
  BY <1>1, <1>2, PostKeeps DEF StationStart, Disconnect, Post
<1>3. ASSUME NEW a \in Addresses, Lease(a) PROVE RetryInv'
  BY <1>1, <1>3, PostKeeps DEF Lease, Post
<1>4. CASE Associate
  BY <1>4 DEF Associate
<1>5. CASE Dispatch
  <2>1. UNCHANGED <<link, bits, refused>> /\ events' = Tail(events) /\ events # <<>> /\ handler.pc = "idle"
    BY <1>5 DEF Dispatch
  <2>2. CASE Head(events) \in Wakes
    <3>1. handler'.pc \in {"start", "down"}
      BY <1>5, <2>2, AddressesAssumption DEF Dispatch
    <3> QED BY <3>1
  <2>3. CASE Head(events) \notin Wakes
    <3>1. SUFFICES ASSUME link = "idle", NEW i \in DOMAIN events, events[i] \in Wakes PROVE RetryInv'
      BY <2>1
    <3>2. PICK j \in DOMAIN Tail(events) : Tail(events)[j] = events[i]
      BY <1>1, <2>1, <2>3, <3>1, TailKeeps
    <3> QED BY <2>1, <3>1, <3>2
  <2> QED BY <2>2, <2>3
<1>6. CASE StaStart \/ RetryConnect
  BY <1>6 DEF StaStart, RetryConnect
<1>7. CASE Down \/ Forget \/ GiveUp
  <2>1. UNCHANGED <<link, events, refused>>
    BY <1>7 DEF Down, Forget, GiveUp, Store
  <2>2. handler'.pc = "down" \/ "WIFI_FAIL_BIT" \in bits'
    BY <1>7 DEF Down, Forget, GiveUp, Store, AddressInv
  <2> QED BY <2>1, <2>2
<1>8. CASE GotIp \/ Up \/ SetConnectedBit
  <2>1. UNCHANGED <<link, events, refused>> /\ bits \subseteq bits'
    BY <1>8 DEF GotIp, Up, SetConnectedBit, Store
  <2>2. handler.pc \notin {"start", "down"}
    BY <1>8 DEF GotIp, Up, SetConnectedBit, Store, Stored
  <2> QED BY <2>1, <2>2
<1>9. CASE UNCHANGED stationVars
  BY <1>9 DEF stationVars
<1> QED BY <1>2, <1>3, <1>4, <1>5, <1>6, <1>7, <1>8, <1>9, Zenon DEF StationNext, StationStep, EventLoop

\* The station tries again after every loss, until it has given up or the driver
\* refuses: no interleaving of its events and its handler loses a retry.
THEOREM RetriesContinue == MainSpec => []NoRetryLost
<1>1. MainInit => RetryInv
  BY DEF MainInit, StationInit, RetryInv
<1>2. RetryInv => NoRetryLost
  BY DEF RetryInv, NoRetryLost, At
<1>3. AddressInv /\ RetryInv /\ [MainNext]_mainVars => RetryInv'
  BY RetryStep, StepOfStation
<1> QED BY <1>1, <1>2, <1>3, AddressInvHolds, PTL DEF MainSpec

-----------------------------------------------------------------------------
LEMMA BitsStep ==
    ASSUME bits \in SUBSET {"WIFI_CONNECTED_BIT", "WIFI_FAIL_BIT"}, [StationNext]_stationVars
    PROVE  bits' \in SUBSET {"WIFI_CONNECTED_BIT", "WIFI_FAIL_BIT"}
<1>1. CASE GiveUp \/ SetConnectedBit
  BY <1>1 DEF GiveUp, SetConnectedBit
<1>2. CASE StationStart \/ Disconnect \/ Associate \/ \E a \in Addresses : Lease(a)
  BY <1>2 DEF StationStart, Disconnect, Associate, Lease, statusVars
<1>3. CASE Dispatch \/ StaStart \/ Down \/ Forget \/ RetryConnect \/ GotIp \/ Up
  BY <1>3 DEF Dispatch, StaStart, Down, Forget, RetryConnect, GotIp, Up, Store, statusVars
<1>4. CASE UNCHANGED stationVars
  BY <1>4 DEF stationVars
<1> QED BY <1>1, <1>2, <1>3, <1>4, Zenon DEF StationNext, StationStep, EventLoop

\* What StationTypeOK says beyond AddressInv, but for the bits.
Ranges ==
    /\ link \in {"off", "idle", "connecting", "up"}
    /\ dhcp \in BOOLEAN
    /\ lease \in Addresses \cup {NoAddress}
    /\ ip \in Addresses \cup {NoAddress}
    /\ Len(events) <= EventRoom
    /\ refused \in BOOLEAN
    /\ retry \in 0..MaxRetries
    /\ connected \in BOOLEAN

LEMMA RangesStep == AddressInv /\ Ranges /\ [StationNext]_stationVars => Ranges'
<1> SUFFICES ASSUME AddressInv, Ranges, [StationNext]_stationVars PROVE Ranges'
  OBVIOUS
<1> USE AddressesAssumption, MaxRetriesAssumption, EventRoomAssumption
    DEF AddressInv, Ranges, At, AtRest, NoAddress, statusVars, driverVars, Connect, Store, Stored
<1>1. CASE StationStart \/ Disconnect
  BY <1>1 DEF StationStart, Disconnect, Post
<1>2. ASSUME NEW a \in Addresses, Lease(a) PROVE Ranges'
  BY <1>2 DEF Lease, Post
<1>3. CASE Associate
  BY <1>3 DEF Associate
<1>4. CASE Dispatch
  <2>1. Len(Tail(events)) <= EventRoom
    BY <1>4 DEF Dispatch
  <2>2. dhcp' \in BOOLEAN /\ lease' \in Addresses \cup {"0.0.0.0"}
    BY <1>4 DEF Dispatch
  <2>3. events' = Tail(events) /\ UNCHANGED <<link, refused, retry, connected, ip, bits>>
    BY <1>4 DEF Dispatch
  <2> QED BY <2>1, <2>2, <2>3
<1>5. CASE StaStart \/ RetryConnect
  BY <1>5 DEF StaStart, RetryConnect
<1>6. CASE Down \/ Forget \/ GiveUp
  BY <1>6 DEF Down, Forget, GiveUp
<1>7. CASE GotIp
  <2>1. ip' \in Addresses /\ retry' \in 0..MaxRetries
    BY <1>7 DEF GotIp
  <2> QED BY <1>7, <2>1 DEF GotIp
<1>8. CASE Up \/ SetConnectedBit
  BY <1>8 DEF Up, SetConnectedBit
<1>9. CASE UNCHANGED stationVars
  BY <1>9 DEF stationVars
<1> QED BY <1>1, <1>2, <1>3, <1>4, <1>5, <1>6, <1>7, <1>8, <1>9, Zenon DEF StationNext, StationStep, EventLoop

LEMMA StationTypeCorrect == MainSpec => []StationTypeOK
<1> DEFINE BitsOK == bits \in SUBSET {"WIFI_CONNECTED_BIT", "WIFI_FAIL_BIT"}
<1>1. MainInit => Ranges
  <2>1. Len(<<>>) <= EventRoom /\ 0 \in 0..MaxRetries
    BY MaxRetriesAssumption, EventRoomAssumption
  <2> QED BY <2>1, Zenon DEF MainInit, StationInit, Ranges
<1>2. MainInit => BitsOK
  BY DEF MainInit, StationInit
<1>3. AddressInv /\ Ranges /\ [MainNext]_mainVars => Ranges'
  BY RangesStep, StepOfStation
<1>4. BitsOK /\ [MainNext]_mainVars => BitsOK'
  BY BitsStep, StepOfStation
<1>5. AddressInv /\ Ranges /\ BitsOK => StationTypeOK
  BY Zenon DEF AddressInv, Ranges, StationTypeOK
<1> QED BY <1>1, <1>2, <1>3, <1>4, <1>5, AddressInvHolds, PTL DEF MainSpec

LEMMA BootTypeStep == BootTypeOK /\ [MainNext]_mainVars => BootTypeOK'
<1> SUFFICES ASSUME BootTypeOK, [MainNext]_mainVars PROVE BootTypeOK'
  OBVIOUS
<1> USE DEF BootTypeOK, bootVars
<1>1. CASE AppMain
  BY <1>1 DEF AppMain, WifiInitStart, Wait, WifiLogStart, BridgeInit, HttpStart, SerialStart
<1>2. CASE Station \/ SenderTask
  BY <1>2 DEF Station, SenderTask
<1>3. ASSUME NEW t \in Transports, Transfer(t) PROVE BootTypeOK'
  BY <1>3 DEF Transfer
<1>4. ASSUME NEW l \in Loggers, Logger(l) PROVE BootTypeOK'
  BY <1>4 DEF Logger
<1>5. CASE UNCHANGED mainVars
  BY <1>5 DEF mainVars
<1> QED BY <1>1, <1>2, <1>3, <1>4, <1>5, Zenon DEF MainNext

\* The type invariant of the whole.
THEOREM MainTypeCorrect == MainSpec => []MainTypeOK
<1>1. MainInit => BootTypeOK
  BY DEF MainInit, BootTypeOK
<1>2. TypeOK /\ StationTypeOK /\ BootTypeOK => MainTypeOK
  BY DEF MainTypeOK
<1> QED BY <1>1, <1>2, BootTypeStep, StationTypeCorrect, LogIsKept, LogTypeCorrect, PTL DEF MainSpec

================================================================================
