----------------------------- MODULE WifiStation -----------------------------
(***************************************************************************)
(* The Wi-Fi station: the network module of modnetwork.c, called by the    *)
(* MicroPython task, the event handlers that the system-event task runs,   *)
(* and the Wi-Fi driver, seen from its calls and its events.  The event    *)
(* task has the higher priority, so that a handler is one step and may     *)
(* come between any two steps of the MicroPython task.                     *)
(*                                                                         *)
(* main.c starts Wi-Fi itself (mb_initialise_wifi), and the event loop     *)
(* takes one handler: the first.                                           *)
(***************************************************************************)
EXTENDS Naturals, Sequences

CONSTANTS
    Builds,     \* whether mp_task calls mb_initialise_wifi: TRUE in main.c
    MaxEvents   \* bound: events in the queue of the event task

ASSUME WifiAssumption == Builds \subseteq BOOLEAN /\ MaxEvents \in Nat \ {0}

VARIABLES
    mbWifi,             \* the build: mp_task starts Wi-Fi
    handler,            \* s_event_handler_cb of the event loop
    sta,                \* the mode has WIFI_MODE_STA
    wifi_sta_connected, \* the flag that event_handler looks at
    link,               \* the driver: "idle", "trying" or "connected"
    events,             \* the queue of the event task
    pc,                 \* the MicroPython task inside a call
    wanted              \* history: what the user last asked for, and what ended it

user == <<mbWifi, pc, wanted>>
wifiVars == <<handler, sta, wifi_sta_connected, link, events, user>>

WifiInit ==
    /\ mbWifi \in Builds
    /\ handler = "none"
    /\ sta = FALSE
    /\ wifi_sta_connected = FALSE
    /\ link = "idle"
    /\ events = <<>>
    /\ pc = "idle"
    /\ wanted = "never"

-----------------------------------------------------------------------------
(* The driver: external, from how it is called and what the handlers treat. *)

Room == Len(events) < MaxEvents

esp_wifi_connect == IF sta THEN link' = "trying" ELSE UNCHANGED link

\* Leaving the network reports a disconnection.
Leave(es) == IF link = "idle" THEN es ELSE Append(es, "disconnected")

Connected ==
    /\ link = "trying"
    /\ link' = "connected"
    /\ UNCHANGED <<handler, sta, wifi_sta_connected, events, user>>

\* No access point, a refused password, or a lost connection.
Drop(reason) ==
    /\ link = "trying" \/ (link = "connected" /\ reason = "disconnected")
    /\ Room
    /\ link' = "idle"
    /\ events' = Append(events, reason)
    /\ UNCHANGED <<handler, sta, wifi_sta_connected, user>>

-----------------------------------------------------------------------------
(* The event task. *)

\* event_handler of modnetwork.c
event_handler(e) ==
    LET flag == wifi_sta_connected /\ e # "auth_fail"
    IN  /\ wifi_sta_connected' = IF e = "sta_start" THEN wifi_sta_connected ELSE flag
        /\ IF e # "sta_start" /\ flag /\ sta THEN esp_wifi_connect ELSE UNCHANGED link

\* Mutant: a station that is told to stay away is not tried again.
mb_test_event_handler_auth(e) ==
    /\ IF e = "auth_fail" THEN UNCHANGED link ELSE esp_wifi_connect
    /\ UNCHANGED wifi_sta_connected

\* mb_test_event_handler of mb_wifi_test.c: connects on every such event.
mb_test_event_handler(e) == esp_wifi_connect /\ UNCHANGED wifi_sta_connected

\* What ends the user's request: a refusal, also a late one of an earlier attempt, and
\* a loss that comes between esp_connect's request and its flag.
EndsRequest(e) ==
    \/ e = "auth_fail"
    \/ e = "disconnected" /\ pc = "connect" /\ ~wifi_sta_connected /\ link = "idle"

HandleEvent ==
    /\ events # <<>>
    /\ events' = Tail(events)
    /\ \/ handler = "event_handler" /\ event_handler(Head(events))
       \/ handler = "mb_test_event_handler" /\ mb_test_event_handler(Head(events))
    /\ wanted' = IF wanted = "yes" /\ EndsRequest(Head(events)) THEN "ended" ELSE wanted
    /\ UNCHANGED <<mbWifi, handler, sta, pc>>

-----------------------------------------------------------------------------
(* The MicroPython task. *)

\* mp_task starts Wi-Fi as station and access point before it runs any program.
mb_initialise_wifi ==
    /\ mbWifi /\ handler = "none"
    /\ handler' = "mb_test_event_handler"
    /\ sta' = TRUE
    /\ events' = <<"sta_start">>
    /\ UNCHANGED <<wifi_sta_connected, link, user>>

\* import network calls esp_initialize, which starts Wi-Fi with no interface.  After
\* mb_initialise_wifi it raises instead: esp_event_loop_init refuses a second handler.
esp_initialize ==
    /\ ~mbWifi /\ handler = "none"
    /\ handler' = "event_handler"
    /\ UNCHANGED <<sta, wifi_sta_connected, link, events, user>>

Usable == handler = "event_handler" /\ pc = "idle"

\* Deactivation stops the station: the driver leaves and reports it.
esp_active(on) ==
    /\ Usable /\ Room /\ sta # on
    /\ sta' = on
    /\ link' = "idle"
    /\ events' = IF on THEN Append(events, "sta_start") ELSE Leave(events)
    /\ wanted' = "never"
    /\ UNCHANGED <<mbWifi, handler, wifi_sta_connected, pc>>

\* esp_wifi_connect raises without a station; else the flag is set afterwards.
esp_connect ==
    /\ Usable /\ sta
    /\ esp_wifi_connect
    /\ wanted' = "yes"
    /\ pc' = "connect"
    /\ UNCHANGED <<mbWifi, handler, sta, wifi_sta_connected, events>>

esp_connect_flag ==
    /\ pc = "connect"
    /\ wifi_sta_connected' = TRUE
    /\ pc' = "idle"
    /\ UNCHANGED <<mbWifi, handler, sta, link, events, wanted>>

\* Mutant: the flag is left as it is.
esp_disconnect_kept ==
    /\ Usable /\ Room
    /\ wanted' = "no"
    /\ pc' = "disconnect"
    /\ UNCHANGED <<mbWifi, handler, sta, wifi_sta_connected, link, events>>

\* The flag is cleared, then the driver is told.
esp_disconnect ==
    /\ Usable /\ Room
    /\ wifi_sta_connected' = FALSE
    /\ wanted' = "no"
    /\ pc' = "disconnect"
    /\ UNCHANGED <<mbWifi, handler, sta, link, events>>

esp_disconnect_driver ==
    /\ pc = "disconnect" /\ Room
    /\ link' = "idle" /\ events' = Leave(events)
    /\ pc' = "idle"
    /\ UNCHANGED <<mbWifi, handler, sta, wifi_sta_connected, wanted>>

MpTask ==
    \/ mb_initialise_wifi \/ esp_initialize
    \/ \E on \in BOOLEAN : esp_active(on)
    \/ esp_connect \/ esp_connect_flag
    \/ esp_disconnect \/ esp_disconnect_driver

WifiNext ==
    \/ Connected
    \/ \E reason \in {"disconnected", "auth_fail"} : Drop(reason)
    \/ HandleEvent
    \/ MpTask

\* The event task has the highest of the priorities involved; mp_task starts Wi-Fi.
WifiSpec ==
    /\ WifiInit /\ [][WifiNext]_wifiVars
    /\ WF_wifiVars(HandleEvent) /\ WF_wifiVars(mb_initialise_wifi)

-----------------------------------------------------------------------------
\* The values of the variables; the driver is only busy for an active station.
WifiTypeOK ==
    /\ mbWifi \in Builds
    /\ handler \in {"none", "event_handler", "mb_test_event_handler"}
    /\ sta \in BOOLEAN
    /\ wifi_sta_connected \in BOOLEAN
    /\ link \in IF sta THEN {"idle", "trying", "connected"} ELSE {"idle"}
    /\ events \in Seq({"sta_start", "disconnected", "auth_fail"}) /\ Len(events) <= MaxEvents
    /\ pc \in {"idle", "connect", "disconnect"}
    /\ wanted \in {"never", "yes", "no", "ended"}

\* Once esp_disconnect has returned, event_handler does not bring the station
\* back, whatever disconnections were reported before, during and after the call.
StaysDisconnected == wanted = "no" /\ pc = "idle" => link = "idle"

\* A station that the user asked to be connected, and that was neither refused, told
\* to stop nor lost before esp_connect had set its flag, is connected, trying, or about
\* to be told of its loss, after which event_handler reconnects; with the handler that
\* main.c installs every station is, whatever its access point answers.
Reassociation ==
    (wanted = "yes" /\ pc = "idle") \/ handler = "mb_test_event_handler" =>
        link # "idle" \/ events # <<>>
=============================================================================
