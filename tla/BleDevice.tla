----------------------------- MODULE BleDevice -----------------------------
(***************************************************************************)
(* The BLE serial device of mb_ble_device.c: start-up in app_main, and the *)
(* two callbacks in which the Bluetooth task hands over events one by one. *)
(* Every request to the stack is answered by an event; answers to          *)
(* different requests come in any order, and clients connect whenever the  *)
(* device advertises.                                                      *)
(***************************************************************************)
EXTENDS Naturals, Sequences

CONSTANTS
    Clients,    \* the peers; a link is named by its client
    NoClient,
    MaxQueue    \* bound: events not yet handed over

ASSUME BleAssumption == NoClient \notin Clients /\ MaxQueue \in Nat

VARIABLES
    stage,          \* mb_ble_device_init: calls made, "failed", "registered"
    requests,       \* requests the stack has not answered
    queue,          \* events of the Bluetooth task, oldest first
    gatts_if,       \* the profile's interface is stored
    conn_id,        \* the profile's conn_id
    advertising, links, \* the controller
    services,           \* the stack: the services started
    refused             \* history: requests the stack has answered with a failure

profile == <<gatts_if, conn_id>>
controller == <<advertising, links, services, refused>>
bleVars == <<stage, requests, queue, profile, controller>>

Services == {"MK_IDX_SVC", "MK_IDX_CTRL_SVC"}

\* What is asked of the stack; a service's name stands for the request to start it.
Requests == {"app", "adv_data", "attr_tab", "adv_start"} \cup Services
Statuses == {"ok", "failed"}

BleInit ==
    /\ stage = "controller_init" /\ requests = {} /\ queue = <<>>
    /\ gatts_if = FALSE /\ conn_id = NoClient /\ services = {}
    /\ advertising = FALSE /\ links = {} /\ refused = {}

\* Controller and Bluedroid, initialised and enabled: an error ends it.
NextStage ==
    [controller_init |-> "controller_enable", controller_enable |-> "bluedroid_init",
     bluedroid_init |-> "bluedroid_enable", bluedroid_enable |-> "register"]

mb_ble_device_init ==
    /\ stage \in DOMAIN NextStage
    /\ \E s \in Statuses : stage' = IF s = "ok" THEN NextStage[stage] ELSE "failed"
    /\ UNCHANGED <<requests, queue, profile, controller>>

\* The callbacks are registered and esp_ble_gatts_app_register is called.
Register ==
    /\ stage = "register" /\ stage' = "registered"
    /\ requests' = {"app"}
    /\ UNCHANGED <<queue, profile, controller>>

\* The stack (external): a request is carried out and its event queued.
Answer(r, s) ==
    /\ r \in requests /\ Len(queue) < MaxQueue
    /\ requests' = requests \ {r}
    /\ queue' = Append(queue, [evt |-> r, status |-> s, client |-> NoClient])
    /\ advertising' = (advertising \/ (r = "adv_start" /\ s = "ok"))
    /\ services' = services \cup (IF s = "ok" THEN {r} \cap Services ELSE {})
    /\ refused' = IF s = "ok" THEN refused ELSE refused \cup {r}
    /\ UNCHANGED <<stage, profile, links>>

\* The controller (external): a connection ends advertising; links break.
Connect(c) ==
    /\ advertising /\ c \notin links /\ Len(queue) < MaxQueue
    /\ advertising' = FALSE /\ links' = links \cup {c}
    /\ queue' = Append(queue, [evt |-> "CONNECT", status |-> "ok", client |-> c])
    /\ UNCHANGED <<stage, requests, profile, services, refused>>

Disconnect(c) ==
    /\ c \in links /\ Len(queue) < MaxQueue
    /\ links' = links \ {c}
    /\ queue' = Append(queue, [evt |-> "DISCONNECT", status |-> "ok", client |-> c])
    /\ UNCHANGED <<stage, requests, profile, advertising, services, refused>>

Event(e) == queue # <<>> /\ Head(queue).evt = e /\ queue' = Tail(queue)
Handled == UNCHANGED <<stage, controller>>

\* gatts_event_handler and the profile's handler for ESP_GATTS_REG_EVT: name and
\* advertising data are set and the attribute table is created.
OnRegister ==
    /\ Event("app")
    /\ IF Head(queue).status = "ok"
       THEN gatts_if' = TRUE /\ requests' = requests \cup {"adv_data", "attr_tab"}
       ELSE UNCHANGED <<gatts_if, requests>>
    /\ UNCHANGED conn_id /\ Handled

\* gap_event_handler: ADV_DATA_SET_COMPLETE; ADV_START_COMPLETE is only logged.
OnAdvData ==
    /\ Event("adv_data")
    /\ requests' = requests \cup {"adv_start"}
    /\ UNCHANGED profile /\ Handled

OnAdvStart == Event("adv_start") /\ UNCHANGED <<requests, profile>> /\ Handled

\* CREAT_ATTR_TAB: of a table with all its handles both services are to be started.
OnAttrTab ==
    /\ Event("attr_tab")
    /\ requests' = requests \cup IF Head(queue).status = "ok" THEN Services ELSE {}
    /\ UNCHANGED profile /\ Handled

\* ESP_GATTS_START_EVT is ignored, whatever its status.
OnStart ==
    /\ \E r \in Services : Event(r)
    /\ UNCHANGED <<requests, profile>> /\ Handled

\* Mutant: advertising goes on while a client is connected.
OnConnect_advertise ==
    /\ Event("CONNECT")
    /\ conn_id' = Head(queue).client
    /\ requests' = requests \cup {"adv_start"}
    /\ UNCHANGED gatts_if /\ Handled

OnConnect ==
    /\ Event("CONNECT")
    /\ conn_id' = Head(queue).client
    /\ UNCHANGED <<requests, gatts_if>> /\ Handled

\* Mutant: the event is ignored.
OnDisconnect_ignored == Event("DISCONNECT") /\ UNCHANGED <<requests, profile>> /\ Handled

OnDisconnect ==
    /\ Event("DISCONNECT")
    /\ requests' = requests \cup {"adv_start"}
    /\ UNCHANGED profile /\ Handled

Handler ==
    OnRegister \/ OnAdvData \/ OnAdvStart \/ OnAttrTab \/ OnStart \/ OnConnect \/ OnDisconnect

Stack == \E r \in Requests, s \in Statuses : Answer(r, s)

BleNext ==
    \/ mb_ble_device_init \/ Register \/ Handler \/ Stack
    \/ \E c \in Clients : Connect(c) \/ Disconnect(c)

\* The Bluetooth task runs and the stack answers; nothing makes a client come or go.
BleSpec ==
    /\ BleInit /\ [][BleNext]_bleVars
    /\ WF_bleVars(mb_ble_device_init) /\ WF_bleVars(Register) /\ WF_bleVars(Handler)
    /\ \A r \in Requests : WF_bleVars(\E s \in Statuses : Answer(r, s))

-----------------------------------------------------------------------------
BleTypeOK ==
    /\ stage \in DOMAIN NextStage \cup {"register", "registered", "failed"}
    /\ requests \subseteq Requests
    /\ Len(queue) <= MaxQueue
    /\ gatts_if \in BOOLEAN /\ conn_id \in Clients \cup {NoClient}
    /\ services \in SUBSET Services
    /\ advertising \in BOOLEAN /\ links \subseteq Clients

\* There is one conn_id, so there must be one link: the device never advertises, nor
\* is about to, while a client is connected, and with no event outstanding conn_id is
\* the connected client.
OneLink ==
    /\ links # {} => ~advertising /\ "adv_start" \notin requests
    /\ queue = <<>> => links \subseteq {conn_id}

\* A registered device without a client can be found and used: it advertises again
\* after every client, unless the stack refused the registration or a start of
\* advertising, which nothing repeats; and its services are started in the end, also
\* when a client connected before there were any, unless the stack refused the
\* registration, the table or the start of one of them, which nothing looks at.
Serves ==
    /\ (stage = "registered" /\ links = {}) ~>
           (advertising \/ links # {} \/ refused \cap {"app", "adv_start"} # {})
    /\ (stage = "registered") ~>
           (services = Services \/ refused \cap ({"app", "attr_tab"} \cup Services) # {})
=============================================================================
