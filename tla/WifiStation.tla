------------------------------ MODULE WifiStation ------------------------------
(***************************************************************************)
(* wifi_init.c: the WiFi station.  The driver, the access point and the    *)
(* DHCP client post events, from tasks of their own; one task dispatches   *)
(* them to wifi_event_handler; other tasks read s_connected, s_ip_addr and *)
(* the bits of the event group while it runs.                              *)
(*                                                                         *)
(* Abstractions.  s_retry_num is the handler's own, so its changes join    *)
(* the step next to them.  s_ip_addr is not volatile, so the compiler may  *)
(* store it before or after s_connected, whatever the code says first.     *)
(* Credentials only decide whether an attempt to connect can succeed,      *)
(* which is left open.                                                     *)
(***************************************************************************)
EXTENDS Naturals, Sequences

CONSTANTS
    Addresses,   \* what the DHCP server hands out
    MaxRetries,  \* WIFI_MAX_RETRIES
    EventRoom    \* bound: events posted and not dispatched

ASSUME AddressesAssumption  == {"start", "disconnected", "0.0.0.0"} \cap Addresses = {}
ASSUME MaxRetriesAssumption == MaxRetries \in Nat
ASSUME EventRoomAssumption  == EventRoom \in Nat \ {0}

VARIABLES
    link,       \* the driver: off, idle, connecting, or up
    dhcp,       \* the DHCP client runs
    lease,      \* the address it has got
    events,     \* posted and not dispatched; an address stands for IP_EVENT_STA_GOT_IP
    handler,    \* where wifi_event_handler is, its address, and what it has to store
    refused,    \* the driver refused the last esp_wifi_connect: no action reads it
    retry,      \* s_retry_num
    connected,  \* s_connected
    ip,         \* s_ip_addr
    bits        \* s_wifi_event_group

driverVars  == <<link, dhcp, lease>>
statusVars  == <<retry, connected, ip, bits>>
stationVars == <<link, dhcp, lease, events, handler, refused, retry, connected, ip, bits>>

NoAddress == "0.0.0.0"

StationTypeOK ==
    /\ link \in {"off", "idle", "connecting", "up"}
    /\ dhcp \in BOOLEAN
    /\ lease \in Addresses \cup {NoAddress}
    /\ ip \in Addresses \cup {NoAddress}
    /\ events \in Seq({"start", "disconnected"} \cup Addresses)
    /\ Len(events) <= EventRoom
    /\ handler \in [pc   : {"idle", "start", "down", "address"},
                    ip   : Addresses \cup {NoAddress},
                    todo : SUBSET {"connected", "ip"}]
    /\ refused \in BOOLEAN
    /\ retry \in 0..MaxRetries
    /\ connected \in BOOLEAN
    /\ bits \in SUBSET {"WIFI_CONNECTED_BIT", "WIFI_FAIL_BIT"}

AtRest == [pc |-> "idle", ip |-> NoAddress, todo |-> {}]

StationInit ==
    /\ link = "off"
    /\ dhcp = FALSE
    /\ lease = NoAddress
    /\ events = <<>>
    /\ handler = AtRest
    /\ refused = FALSE
    /\ retry = 0
    /\ connected = FALSE
    /\ ip = NoAddress
    /\ bits = {}

-----------------------------------------------------------------------------
(* The driver and the DHCP client. *)

Post(event) ==
    /\ Len(events) < EventRoom
    /\ events' = Append(events, event)

\* wifi_init_start, up to esp_wifi_start.
StationStart ==
    /\ link = "off"
    /\ link' = "idle"
    /\ Post("start")
    /\ UNCHANGED <<dhcp, lease, handler, refused, statusVars>>

Associate ==
    /\ link = "connecting"
    /\ link' = "up"
    /\ dhcp' = TRUE
    /\ UNCHANGED <<lease, events, handler, refused, statusVars>>

\* An attempt fails, or the connection is lost.
Disconnect ==
    /\ link \in {"connecting", "up"}
    /\ link' = "idle"
    /\ Post("disconnected")
    /\ UNCHANGED <<dhcp, lease, handler, refused, statusVars>>

\* A first address, or another one on renewal.  The DHCP client learns that the
\* connection is lost when that event is dispatched, and may be late until then.
Lease(a) ==
    /\ dhcp
    /\ lease # a
    /\ lease' = a
    /\ Post(a)
    /\ UNCHANGED <<link, dhcp, handler, refused, statusVars>>

-----------------------------------------------------------------------------
(* The event loop and wifi_event_handler. *)

At(l) == handler.pc = l

\* The next event goes to ESP-IDF's own handler first, which stops the DHCP client
\* when the connection is lost.
Dispatch ==
    /\ At("idle")
    /\ events # <<>>
    /\ events' = Tail(events)
    /\ LET event == Head(events) IN
       /\ handler' =
            CASE event = "start"        -> [AtRest EXCEPT !.pc = "start"]
              [] event = "disconnected" -> [AtRest EXCEPT !.pc = "down", !.todo = {"connected", "ip"}]
              [] event \in Addresses    -> [pc |-> "address", ip |-> event, todo |-> {"connected", "ip"}]
       /\ dhcp'  = (dhcp /\ event # "disconnected")
       /\ lease' = IF event = "disconnected" THEN NoAddress ELSE lease
    /\ UNCHANGED <<link, refused, statusVars>>

\* esp_wifi_connect, whose result is ignored: the driver may refuse to try, and
\* then no event follows.
Connect ==
    \/ /\ link = "idle"
       /\ refused' \in BOOLEAN
       /\ link' = IF refused' THEN link ELSE "connecting"
    \/ /\ link # "idle"
       /\ UNCHANGED <<link, refused>>

StaStart ==
    /\ At("start")
    /\ Connect
    /\ handler' = AtRest
    /\ UNCHANGED <<dhcp, lease, events, statusVars>>

\* At l, a store that is still to be made.
Store(l, what) ==
    /\ At(l)
    /\ what \in handler.todo
    /\ handler' = [handler EXCEPT !.todo = @ \ {what}]
    /\ UNCHANGED <<driverVars, events, refused, bits>>

\* Both stores are made before the handler's next call.
Stored(l) == At(l) /\ handler.todo = {}

\* Slip: leave the flag to the next connection.
DownKeepingFlag ==
    /\ Store("down", "connected")
    /\ UNCHANGED <<retry, connected, ip>>

Down ==
    /\ Store("down", "connected")
    /\ connected' = FALSE
    /\ UNCHANGED <<retry, ip>>

\* Slip: leave the address to the next connection.
ForgetNothing ==
    /\ Store("down", "ip")
    /\ UNCHANGED <<retry, connected, ip>>

Forget ==
    /\ Store("down", "ip")
    /\ ip' = NoAddress
    /\ UNCHANGED <<retry, connected>>

\* Slip: count the retry, but connect only while the start waits.
RetryAtStart ==
    /\ Stored("down")
    /\ retry < MaxRetries
    /\ IF bits = {} THEN Connect ELSE UNCHANGED <<link, refused>>
    /\ retry' = retry + 1
    /\ handler' = AtRest
    /\ UNCHANGED <<dhcp, lease, events, connected, ip, bits>>

RetryConnect ==
    /\ Stored("down")
    /\ retry < MaxRetries
    /\ Connect
    /\ retry' = retry + 1
    /\ handler' = AtRest
    /\ UNCHANGED <<dhcp, lease, events, connected, ip, bits>>

GiveUp ==
    /\ Stored("down")
    /\ retry = MaxRetries
    /\ bits' = bits \cup {"WIFI_FAIL_BIT"}
    /\ handler' = AtRest
    /\ UNCHANGED <<driverVars, events, refused, retry, connected, ip>>

GotIp ==
    /\ Store("address", "ip")
    /\ ip' = handler.ip
    /\ retry' = 0
    /\ UNCHANGED connected

\* Slip: an event of the past need not be told again.
UpOnlyOnce ==
    /\ Store("address", "connected")
    /\ connected' = (connected \/ "WIFI_CONNECTED_BIT" \notin bits)
    /\ UNCHANGED <<retry, ip>>

Up ==
    /\ Store("address", "connected")
    /\ connected' = TRUE
    /\ UNCHANGED <<retry, ip>>

SetConnectedBit ==
    /\ Stored("address")
    /\ bits' = bits \cup {"WIFI_CONNECTED_BIT"}
    /\ handler' = AtRest
    /\ UNCHANGED <<driverVars, events, refused, retry, connected, ip>>

EventLoop ==
    \/ Dispatch \/ StaStart
    \/ Down \/ Forget \/ RetryConnect \/ GiveUp
    \/ GotIp \/ Up \/ SetConnectedBit

\* What the station does once it is started.
StationStep == EventLoop \/ Associate \/ Disconnect \/ \E a \in Addresses : Lease(a)

-----------------------------------------------------------------------------
(* Properties. *)

\* "True once WiFi STA has an IP address", and "0.0.0.0 when disconnected"
\* (wifi_init.h): between two events the two agree, in whatever order they were
\* stored.  They need not while the handler runs, nor to a task that reads one
\* after the other, as the alive loop of main.c does.
StatusAgrees == At("idle") => (connected <=> ip # NoAddress)

\* Whatever the events and their order, the station without a connection has an
\* event to come that makes it try again, has given up, or has been refused by
\* the driver: no retry is lost in the handler.
NoRetryLost ==
    link = "idle" /\ At("idle") /\ events = <<>> => "WIFI_FAIL_BIT" \in bits \/ refused

\* What the status says comes true, or is put right: a connection with an address
\* is reported, with that address, as long as it lasts, ...
UpIsReported ==
    \A a \in Addresses :
        (link = "up" /\ lease = a) ~> \/ link # "up" \/ lease # a
                                      \/ connected /\ ip = a

\* ... and a lost one is not reported for ever.  The two exceptions, which the code
\* has: a late address dispatched after the station gave up, known by the retries
\* it set to 0, or after the driver refused the retry.
LossIsReported ==
    (connected /\ link # "up") ~>
        \/ ~ connected \/ link = "up"
        \/ "WIFI_FAIL_BIT" \in bits /\ retry = 0
        \/ refused

===============================================================================
