----------------------------- MODULE MCNetwork -----------------------------
(***************************************************************************)
(* The networking components and the reply queue for TLC.  They share no   *)
(* variable and no call, so that their interleavings would add states and  *)
(* no behaviour: a behaviour picks one component, which runs as its own    *)
(* module says while the others stay as they begin.                        *)
(***************************************************************************)
EXTENDS WifiStation, SocketRetry, BleDevice, FtpPath, SocketFifo

CONSTANT Components     \* those that are run

VARIABLE component      \* the one that runs

\* The FTP parameters: names of one and two characters, a trailing slash, two names
\* at once, absolute paths and no parameter at all.
MCParams ==
    {<<>>, <<"a">>, <<"a", "/">>, <<"a", "b">>, <<"a", "/", "b">>, <<"/">>, <<"/", "b", "a">>}

Init ==
    /\ component \in Components
    /\ WifiInit /\ SocketInit /\ BleInit /\ PathInit /\ QueueInit
    /\ component # "wifi" => mbWifi   \* one build is enough for the others

Next ==
    /\ \/ /\ component = "wifi" /\ WifiNext
          /\ UNCHANGED <<socketVars, bleVars, pathVars, queueVars>>
       \/ /\ component = "socket" /\ SocketNext
          /\ UNCHANGED <<wifiVars, bleVars, pathVars, queueVars>>
       \/ /\ component = "ble" /\ BleNext
          /\ UNCHANGED <<wifiVars, socketVars, pathVars, queueVars>>
       \/ /\ component = "path" /\ PathNext
          /\ UNCHANGED <<wifiVars, socketVars, bleVars, queueVars>>
       \/ /\ component = "queue" /\ QueueNext
          /\ UNCHANGED <<wifiVars, socketVars, bleVars, pathVars>>
    /\ UNCHANGED component

\* The fairness of each component's own specification.
Fairness ==
    /\ WF_wifiVars(component = "wifi" /\ HandleEvent)
    /\ WF_wifiVars(component = "wifi" /\ mb_initialise_wifi)
    /\ WF_socketVars(component = "socket" /\ Step)
    /\ WF_bleVars(component = "ble" /\ mb_ble_device_init)
    /\ WF_bleVars(component = "ble" /\ Register)
    /\ WF_bleVars(component = "ble" /\ Handler)
    /\ \A r \in Requests :
           WF_bleVars(component = "ble" /\ \E s \in Statuses : Answer(r, s))

Spec ==
    /\ Init
    /\ [][Next]_<<component, wifiVars, socketVars, bleVars, pathVars, queueVars>>
    /\ Fairness

-----------------------------------------------------------------------------
\* The type invariants of the components, which say where each one's counters, queues
\* and strings have to stay.
NetworkTypeOK ==
    WifiTypeOK /\ SocketTypeOK /\ BleTypeOK /\ PathTypeOK /\ SocketFifoTypeOK
=============================================================================
