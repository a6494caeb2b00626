------------------------------- MODULE Arduino -------------------------------
(***************************************************************************)
(* The ESP32 Arduino firmware (arduino.ino): three tasks over one set of   *)
(* globals, without a lock.                                                *)
(*                                                                         *)
(*   loopTask   setup() and loop(): Wi-Fi watchdog, HTTP and serial        *)
(*              commands, the typing queue, advertising, restart;          *)
(*   mqtt task  mqtt_task_func, which also executes the commands that      *)
(*              come in over MQTT;                                         *)
(*   NimBLE     the host task, which calls onConnect and onDisconnect.     *)
(*                                                                         *)
(* A task is interleaved with the others where it blocks (the delay of a   *)
(* tap, a connect) and wherever it reads a flag that another task writes   *)
(* before it acts on it: the typing queue and the restart of advertising   *)
(* go store by store.  ble_adv_poll and the callbacks are one step each.   *)
(* The parts of loop() may come in any order: each works on state of its   *)
(* own.  A deadline is a flag; once set it may be over.  g_type_next is    *)
(* compared without regard to the wrap of millis(), so that it is "far"    *)
(* away once the clock has wrapped, until the clock has caught up.         *)
(***************************************************************************)
EXTENDS Naturals, FiniteSets

CONSTANTS
  Hosts, None,  \* BLE hosts
  TextMax,      \* bound: characters of a text
  MaxCmds       \* bound: commands and clock wraps

ASSUME BoundsAssumption == None \notin Hosts /\ TextMax \in Nat /\ MaxCmds \in Nat

VARIABLES
  lpc, mpc,                                   \* where the loop and the MQTT task are
  g_type_len, g_type_idx, g_type_busy,        \* the typing queue: length of g_type_text
  g_type_next,                                \* 0, a time, or a time before the clock's wrap
  conn, secured, bonds, adv,                  \* NimBLE: links, those isBonded(), bonds, advertising
  g_ble_enabled, g_pairing_mode, g_pair_timeout_at,
  g_adv_restart_at, g_directed_adv_pending, g_directed_adv_addr,
  wifi, g_wifi_ready,                         \* WL_CONNECTED, services up
  g_mqtt_enabled, g_mqtt_auto, g_mqtt_broker, g_mqtt_connect_pending, g_mqtt_connected,
  session,                                    \* the broker has a session of this node
  nvs,                                        \* what is stored: the auto flags, the broker
  g_restart_at, cmds,
  left                                        \* bonded host that left last, until invited

typing == <<g_type_len, g_type_idx, g_type_busy, g_type_next>>
ble == <<conn, secured, bonds, adv, g_ble_enabled, g_pairing_mode, g_pair_timeout_at,
         g_adv_restart_at, g_directed_adv_pending, g_directed_adv_addr, left>>
net == <<wifi, g_wifi_ready>>
mqtt == <<g_mqtt_enabled, g_mqtt_auto, g_mqtt_broker, g_mqtt_connect_pending,
          g_mqtt_connected, session>>
vars == <<lpc, mpc, typing, ble, net, mqtt, nvs, g_restart_at, cmds>>

Fresh == [ble_auto |-> TRUE, mqtt_auto |-> FALSE, broker |-> FALSE]

(* setup(): load_config (each enable flag starts as its auto flag), a      *)
(* bonded host is invited (ble_init), the tasks are created; Wi-Fi is not  *)
(* up yet.                                                                 *)
Init ==
  /\ nvs \in {Fresh, [Fresh EXCEPT !.mqtt_auto = TRUE, !.broker = TRUE]}
  /\ bonds \in SUBSET Hosts
  /\ lpc = "idle" /\ mpc = "wait"
  /\ g_type_len = 0 /\ g_type_idx = 0 /\ g_type_busy = FALSE
  /\ g_type_next = "zero"
  /\ conn = {} /\ secured = {} /\ adv \in IF bonds # {} THEN bonds ELSE {"off"}
  /\ g_ble_enabled = nvs.ble_auto /\ g_pairing_mode = FALSE /\ g_pair_timeout_at = FALSE
  /\ g_adv_restart_at = FALSE /\ g_directed_adv_pending = FALSE /\ g_directed_adv_addr = None
  /\ wifi = FALSE /\ g_wifi_ready = FALSE
  /\ g_mqtt_enabled = nvs.mqtt_auto /\ g_mqtt_auto = nvs.mqtt_auto
  /\ g_mqtt_broker = nvs.broker /\ g_mqtt_connect_pending = FALSE
  /\ g_mqtt_connected = FALSE /\ session = FALSE
  /\ g_restart_at = FALSE /\ cmds = 0 /\ left = None

-----------------------------------------------------------------------------
(* Commands.  The loop serves serial and HTTP, the MQTT task the requests  *)
(* of a session (mqtt_callback in g_mqtt.loop()).  Those that only read,   *)
(* or work on pins, buses, the HTTP server and the tunnels, are left out.  *)
MqttRequest == mpc = "wait" /\ g_mqtt_enabled /\ g_mqtt_connected /\ session

Cmd(t) ==
  /\ cmds < MaxCmds /\ cmds' = cmds + 1
  /\ IF t = "loop" THEN lpc = "idle" ELSE MqttRequest
  /\ UNCHANGED <<lpc, mpc>>

Idle == ~g_type_busy

(* AT+TEXT over serial or HTTP replaces what is being typed and leaves the *)
(* time of the next character; keyboard/text asks whether something is.    *)
Type(n) == g_type_len' = n /\ g_type_idx' = 0 /\ g_type_busy' = TRUE

AtText(n) ==
  /\ Cmd("loop") /\ Type(n)
  /\ UNCHANGED <<g_type_next, ble, net, mqtt, nvs, g_restart_at>>

KeyboardText(n) ==
  /\ conn # {} /\ Idle /\ n > 0
  /\ Cmd("loop") /\ Type(n) /\ g_type_next' = "zero"
  /\ UNCHANGED <<ble, net, mqtt, nvs, g_restart_at>>

(* The MQTT task asks, and then stores text, index and busy flag one after *)
(* the other, whatever the loop does to them meanwhile.                    *)
MqttTextAsk ==
  /\ MqttRequest /\ conn # {} /\ Idle
  /\ mpc' = "text" /\ cmds < MaxCmds /\ cmds' = cmds + 1
  /\ UNCHANGED <<lpc, typing, ble, net, mqtt, nvs, g_restart_at>>

MqttTextStore(n) ==
  /\ n > 0
  /\ \/ mpc = "text" /\ mpc' = "idx" /\ g_type_len' = n
        /\ UNCHANGED <<g_type_idx, g_type_busy, g_type_next>>
     \/ mpc = "idx" /\ mpc' = "busy" /\ g_type_idx' = 0 /\ g_type_next' = "zero"
        /\ UNCHANGED <<g_type_len, g_type_busy>>
     \/ mpc = "busy" /\ mpc' = "wait" /\ g_type_busy' = TRUE
        /\ UNCHANGED <<g_type_len, g_type_idx, g_type_next>>
  /\ UNCHANGED <<lpc, ble, net, mqtt, nvs, g_restart_at, cmds>>

(* set_ble_adv_enabled: AT+PAIR, ble/pair. *)
Pair(t, enable) ==
  /\ Cmd(t)
  /\ g_pairing_mode' = enable /\ g_adv_restart_at' = FALSE
  /\ adv' = (IF enable THEN "public" ELSE "off") /\ g_pair_timeout_at' = enable
  /\ left' = None
  /\ UNCHANGED <<typing, conn, secured, bonds, g_ble_enabled, g_directed_adv_pending,
                 g_directed_adv_addr, net, mqtt, nvs, g_restart_at>>

(* cfg_s_bleten: disabling stops advertising, enabling resumes a pairing. *)
BleEnable(t, on) ==
  /\ Cmd(t)
  /\ g_ble_enabled' = on
  /\ adv' = IF ~on THEN "off" ELSE IF g_pairing_mode THEN "public" ELSE adv
  /\ left' = IF on THEN left ELSE None
  /\ UNCHANGED <<typing, conn, secured, bonds, g_pairing_mode, g_pair_timeout_at, g_adv_restart_at,
                 g_directed_adv_pending, g_directed_adv_addr, net, mqtt, nvs, g_restart_at>>

(* cfg_s_bleauto, cfg_s_mauto: stored for the next start. *)
Auto(t, key, on) ==
  /\ Cmd(t)
  /\ nvs' = [nvs EXCEPT ![key] = on]
  /\ g_mqtt_auto' = IF key = "mqtt_auto" THEN on ELSE g_mqtt_auto
  /\ UNCHANGED <<typing, ble, net, g_mqtt_enabled, g_mqtt_broker, g_mqtt_connect_pending,
                 g_mqtt_connected, session, g_restart_at>>

(* ble/bonds/delete; ble/bonds/clear and AT+BT_PAIR, which delete all.  A  *)
(* link keeps what it negotiated.  The disconnects AT+BT_PAIR and          *)
(* AT+BT_DISC ask for are Disconnect.                                      *)
DeleteBonds(hosts) ==
  /\ Cmd("loop") /\ hosts \subseteq bonds
  /\ bonds' = bonds \ hosts
  /\ UNCHANGED <<typing, conn, secured, adv, g_ble_enabled, g_pairing_mode, g_pair_timeout_at,
                 g_adv_restart_at, g_directed_adv_pending, g_directed_adv_addr, left, net, mqtt,
                 nvs, g_restart_at>>

(* mqtt.broker; AT+MQTT=connect; cfg_s_mten, which wakes the task. *)
MqttBroker(t) ==
  /\ Cmd(t)
  /\ g_mqtt_broker' = TRUE /\ nvs' = [nvs EXCEPT !.broker = TRUE]
  /\ UNCHANGED <<typing, ble, net, g_mqtt_enabled, g_mqtt_auto, g_mqtt_connect_pending,
                 g_mqtt_connected, session, g_restart_at>>

MqttConnect ==
  /\ Cmd("loop") /\ g_mqtt_connect_pending' = TRUE
  /\ UNCHANGED <<typing, ble, net, g_mqtt_enabled, g_mqtt_auto, g_mqtt_broker,
                 g_mqtt_connected, session, nvs, g_restart_at>>

MqttEnable(t, on) ==
  /\ Cmd(t)
  /\ g_mqtt_enabled' = on /\ g_mqtt_connect_pending' = FALSE
  /\ UNCHANGED <<typing, ble, net, g_mqtt_auto, g_mqtt_broker, g_mqtt_connected, session, nvs,
                 g_restart_at>>

(* mqtt_clear_config, on the loop's task: stored and running settings go,  *)
(* and the session if the flag says there is one.                          *)
MqttClear ==
  /\ Cmd("loop")
  /\ nvs' = [nvs EXCEPT !.broker = FALSE, !.mqtt_auto = FALSE]
  /\ session' = (session /\ ~g_mqtt_connected) /\ g_mqtt_connected' = FALSE
  /\ g_mqtt_broker' = FALSE /\ g_mqtt_auto' = FALSE
  /\ UNCHANGED <<typing, ble, net, g_mqtt_enabled, g_mqtt_connect_pending, g_restart_at>>

(* nvs_clear_config and schedule_restart. *)
NvsClear ==
  /\ Cmd("loop")
  /\ nvs' = Fresh /\ g_restart_at' = TRUE
  /\ UNCHANGED <<typing, ble, net, mqtt>>

-----------------------------------------------------------------------------
(* The typing queue (type_poll).  A tap blocks the loop's task; the end of *)
(* a text clears the busy flag first and the text then.                    *)
MayType == lpc = "idle" /\ g_ble_enabled /\ g_type_busy /\ g_type_next # "far"

TypeStart ==
  /\ MayType /\ g_type_idx < g_type_len
  /\ lpc' = "tap"
  /\ UNCHANGED <<mpc, typing, ble, net, mqtt, nvs, g_restart_at, cmds>>

(* Faulty: a character that finds no host is kept for later. *)
TypeTapped_Refused ==
  /\ lpc = "tap" /\ lpc' = "idle"
  /\ g_type_idx' = IF conn = {} THEN g_type_idx ELSE g_type_idx + 1
  /\ g_type_next' = "past"
  /\ UNCHANGED <<mpc, g_type_len, g_type_busy, ble, net, mqtt, nvs, g_restart_at, cmds>>

TypeTapped ==
  /\ lpc = "tap" /\ lpc' = "idle"
  /\ g_type_idx' = g_type_idx + 1 /\ g_type_next' = "past"
  /\ UNCHANGED <<mpc, g_type_len, g_type_busy, ble, net, mqtt, nvs, g_restart_at, cmds>>

TypeEnd ==
  /\ MayType /\ g_type_idx >= g_type_len
  /\ lpc' = "clear" /\ g_type_busy' = FALSE
  /\ UNCHANGED <<mpc, g_type_len, g_type_idx, g_type_next, ble, net, mqtt, nvs, g_restart_at,
                 cmds>>

TypeClear ==
  /\ lpc = "clear" /\ lpc' = "idle" /\ g_type_len' = 0
  /\ UNCHANGED <<mpc, g_type_idx, g_type_busy, g_type_next, ble, net, mqtt, nvs, g_restart_at,
                 cmds>>

(* millis() wraps after 49.7 days (bounded with the commands), and then    *)
(* comes round to the old time.                                            *)
ClockWraps ==
  /\ g_type_next = "past" /\ g_type_next' = "far"
  /\ cmds < MaxCmds /\ cmds' = cmds + 1
  /\ UNCHANGED <<lpc, mpc, g_type_len, g_type_idx, g_type_busy, ble, net, mqtt, nvs,
                 g_restart_at>>

ClockCatchesUp ==
  /\ g_type_next = "far" /\ g_type_next' = "past"
  /\ UNCHANGED <<lpc, mpc, g_type_len, g_type_idx, g_type_busy, ble, net, mqtt, nvs,
                 g_restart_at, cmds>>

-----------------------------------------------------------------------------
(* Bluetooth: the stack, its callbacks and the loop.                       *)

(* A host connects: any to public advertising, the addressed one else.     *)
(* Nothing forbids a second link beside the first (AT+PAIR=1 with a host   *)
(* connected); a known host counts as bonded once its link is encrypted.   *)
Connect(h) ==
  /\ h \notin conn /\ adv \in {"public", h}
  /\ conn' = conn \cup {h} /\ adv' = "off"
  /\ g_pairing_mode' = FALSE /\ g_pair_timeout_at' = FALSE
  /\ g_adv_restart_at' = FALSE /\ g_directed_adv_pending' = FALSE
  /\ left' = None
  /\ UNCHANGED <<lpc, mpc, typing, secured, bonds, g_ble_enabled, g_directed_adv_addr, net, mqtt,
                 nvs, g_restart_at, cmds>>

Bond(h) ==
  /\ h \in conn \ secured
  /\ secured' = secured \cup {h} /\ bonds' = bonds \cup {h}
  /\ UNCHANGED <<lpc, mpc, typing, conn, adv, g_ble_enabled, g_pairing_mode, g_pair_timeout_at,
                 g_adv_restart_at, g_directed_adv_pending, g_directed_adv_addr, left, net, mqtt,
                 nvs, g_restart_at, cmds>>

(* Faulty: onDisconnect forgets to arm the restart. *)
Disconnect_NoRestart(h) ==
  /\ h \in conn
  /\ conn' = conn \ {h} /\ secured' = secured \ {h}
  /\ LET b == h \in secured IN
     /\ g_directed_adv_pending' = b
     /\ g_directed_adv_addr' = IF b THEN h ELSE g_directed_adv_addr
     /\ UNCHANGED g_adv_restart_at
     /\ adv' = IF b THEN adv ELSE "off"
     /\ left' = IF b /\ g_ble_enabled THEN h ELSE None
  /\ UNCHANGED <<lpc, mpc, typing, bonds, g_ble_enabled, g_pairing_mode, g_pair_timeout_at, net,
                 mqtt, nvs, g_restart_at, cmds>>

(* onDisconnect: a bonded host is to be invited again in 500 ms. *)
Disconnect(h) ==
  /\ h \in conn
  /\ conn' = conn \ {h} /\ secured' = secured \ {h}
  /\ LET b == h \in secured IN
     /\ g_directed_adv_pending' = b
     /\ g_directed_adv_addr' = IF b THEN h ELSE g_directed_adv_addr
     /\ g_adv_restart_at' = (g_adv_restart_at \/ b)
     /\ adv' = IF b THEN adv ELSE "off"
     /\ left' = IF b /\ g_ble_enabled THEN h ELSE None
  /\ UNCHANGED <<lpc, mpc, typing, bonds, g_ble_enabled, g_pairing_mode, g_pair_timeout_at, net,
                 mqtt, nvs, g_restart_at, cmds>>

(* ble_adv_poll: a link disarms the deadline, the deadline ends pairing. *)
AdvPoll ==
  /\ lpc = "idle" /\ g_ble_enabled /\ g_pairing_mode /\ g_pair_timeout_at
  /\ g_pair_timeout_at' = FALSE
  /\ IF conn # {} THEN UNCHANGED <<g_pairing_mode, adv>>
                  ELSE g_pairing_mode' = FALSE /\ adv' = "off"
  /\ UNCHANGED <<lpc, mpc, typing, conn, secured, bonds, g_ble_enabled, g_adv_restart_at,
                 g_directed_adv_pending, g_directed_adv_addr, left, net, mqtt, nvs,
                 g_restart_at, cmds>>

(* loop() finds g_adv_restart_at over and clears it; ... *)
RestartTest ==
  /\ lpc = "idle" /\ g_ble_enabled /\ g_adv_restart_at
  /\ lpc' = "over"
  /\ UNCHANGED <<mpc, typing, ble, net, mqtt, nvs, g_restart_at, cmds>>

RestartClear ==
  /\ lpc = "over" /\ lpc' = "stop"
  /\ g_adv_restart_at' = FALSE
  /\ UNCHANGED <<mpc, typing, conn, secured, bonds, adv, g_ble_enabled, g_pairing_mode,
                 g_pair_timeout_at, g_directed_adv_pending, g_directed_adv_addr, left, net, mqtt,
                 nvs, g_restart_at, cmds>>

(* ... with no host connected it stops what is advertised and takes the    *)
(* pending flag, or goes back to public advertising; ...                   *)
RestartGo ==
  /\ lpc = "stop"
  /\ LET go == conn = {} IN
     /\ lpc' = IF go /\ g_directed_adv_pending THEN "start" ELSE "idle"
     /\ g_directed_adv_pending' = (g_directed_adv_pending /\ ~go)
     /\ adv' = IF ~go THEN adv
               ELSE IF ~g_directed_adv_pending /\ g_pairing_mode THEN "public" ELSE "off"
  /\ UNCHANGED <<mpc, typing, conn, secured, bonds, g_ble_enabled, g_pairing_mode,
                 g_pair_timeout_at, g_adv_restart_at, g_directed_adv_addr, left, net, mqtt, nvs,
                 g_restart_at, cmds>>

(* ... and starts to advertise to the host that left. *)
RestartStart ==
  /\ lpc = "start" /\ lpc' = "idle"
  /\ adv' = g_directed_adv_addr
  /\ left' = IF left = g_directed_adv_addr THEN None ELSE left
  /\ UNCHANGED <<mpc, typing, conn, secured, bonds, g_ble_enabled, g_pairing_mode,
                 g_pair_timeout_at, g_adv_restart_at, g_directed_adv_pending, g_directed_adv_addr,
                 net, mqtt, nvs, g_restart_at, cmds>>

-----------------------------------------------------------------------------
(* Wi-Fi.  The link goes, and with it the broker's session.                *)
ApComes == /\ ~wifi /\ wifi' = TRUE
           /\ UNCHANGED <<lpc, mpc, typing, ble, g_wifi_ready, mqtt, nvs, g_restart_at, cmds>>

ApGoes == /\ wifi /\ wifi' = FALSE /\ session' = FALSE
          /\ UNCHANGED <<lpc, mpc, typing, ble, g_wifi_ready, g_mqtt_enabled, g_mqtt_auto,
                         g_mqtt_broker, g_mqtt_connect_pending, g_mqtt_connected, nvs,
                         g_restart_at, cmds>>

(* The watchdog of loop(): services come up with the link and are noticed  *)
(* to be down without it.  What it tells the driver after 15 s is ApComes. *)
WifiPoll ==
  /\ lpc = "idle" /\ g_wifi_ready # wifi
  /\ g_wifi_ready' = wifi
  /\ UNCHANGED <<lpc, mpc, typing, ble, wifi, mqtt, nvs, g_restart_at, cmds>>

-----------------------------------------------------------------------------
(* Faulty: the stopped client clears the flag and leaves the session open. *)
MqttDisabled_Skip ==
  /\ mpc = "wait" /\ ~g_mqtt_enabled /\ g_mqtt_connected
  /\ g_mqtt_connected' = FALSE
  /\ UNCHANGED <<lpc, mpc, typing, ble, net, g_mqtt_enabled, g_mqtt_auto, g_mqtt_broker,
                 g_mqtt_connect_pending, session, nvs, g_restart_at, cmds>>

(* mqtt_task_func, woken by the semaphore or after a second.               *)
MqttDisabled ==
  /\ mpc = "wait" /\ ~g_mqtt_enabled /\ g_mqtt_connected
  /\ g_mqtt_connected' = FALSE /\ session' = FALSE
  /\ UNCHANGED <<lpc, mpc, typing, ble, net, g_mqtt_enabled, g_mqtt_auto, g_mqtt_broker,
                 g_mqtt_connect_pending, nvs, g_restart_at, cmds>>

MqttTry ==
  /\ mpc = "wait" /\ g_mqtt_enabled /\ g_mqtt_broker /\ g_wifi_ready /\ ~g_mqtt_connected
  /\ g_mqtt_connect_pending \/ g_mqtt_auto
  /\ g_mqtt_connect_pending' = FALSE /\ mpc' = "connect"
  /\ UNCHANGED <<lpc, typing, ble, net, g_mqtt_enabled, g_mqtt_auto, g_mqtt_broker,
                 g_mqtt_connected, session, nvs, g_restart_at, cmds>>

(* mqtt_connect returns; the first success makes reconnecting automatic.   *)
MqttConnected(ok) ==
  /\ mpc = "connect" /\ mpc' = "wait" /\ (ok => wifi)
  /\ g_mqtt_connected' = ok /\ session' = ok
  /\ g_mqtt_auto' = (g_mqtt_auto \/ ok)
  /\ nvs' = IF ok /\ ~g_mqtt_auto THEN [nvs EXCEPT !.mqtt_auto = TRUE] ELSE nvs
  /\ UNCHANGED <<lpc, typing, ble, net, g_mqtt_enabled, g_mqtt_broker, g_mqtt_connect_pending,
                 g_restart_at, cmds>>

(* g_mqtt.loop() finds the end of the session. *)
MqttLost ==
  /\ mpc = "wait" /\ g_mqtt_enabled /\ g_mqtt_connected
  /\ g_mqtt_connected' = FALSE /\ session' = FALSE
  /\ UNCHANGED <<lpc, mpc, typing, ble, net, g_mqtt_enabled, g_mqtt_auto, g_mqtt_broker,
                 g_mqtt_connect_pending, nvs, g_restart_at, cmds>>

(* ESP.restart() at the end of loop(): NVS and bonds stay; a bonded host    *)
(* is invited (ble_init).                                                  *)
Restart ==
  /\ lpc = "idle" /\ g_restart_at
  /\ mpc' = "wait"
  /\ g_type_len' = 0 /\ g_type_idx' = 0 /\ g_type_busy' = FALSE
  /\ g_type_next' = "zero" /\ conn' = {} /\ secured' = {}
  /\ adv' \in IF nvs.ble_auto /\ bonds # {} THEN bonds ELSE {"off"}
  /\ g_ble_enabled' = nvs.ble_auto /\ g_pairing_mode' = FALSE /\ g_pair_timeout_at' = FALSE
  /\ g_adv_restart_at' = FALSE /\ g_directed_adv_pending' = FALSE
  /\ g_directed_adv_addr' = None
  /\ wifi' = FALSE /\ g_wifi_ready' = FALSE
  /\ g_mqtt_enabled' = nvs.mqtt_auto /\ g_mqtt_auto' = nvs.mqtt_auto
  /\ g_mqtt_broker' = nvs.broker /\ g_mqtt_connect_pending' = FALSE
  /\ g_mqtt_connected' = FALSE /\ session' = FALSE
  /\ g_restart_at' = FALSE /\ left' = None
  /\ UNCHANGED <<lpc, nvs, bonds, cmds>>

-----------------------------------------------------------------------------
Tasks == {"loop", "mqtt"}

Command ==
  \/ \E n \in 0..TextMax : AtText(n) \/ KeyboardText(n) \/ MqttTextStore(n)
  \/ \E t \in Tasks, on \in BOOLEAN :
       \/ Pair(t, on) \/ BleEnable(t, on) \/ MqttEnable(t, on)
       \/ MqttBroker(t)
       \/ \E key \in {"ble_auto", "mqtt_auto"} : Auto(t, key, on)
  \/ DeleteBonds(bonds) \/ \E h \in Hosts : DeleteBonds({h})
  \/ MqttTextAsk \/ MqttConnect \/ MqttClear \/ NvsClear

LoopStep == TypeStart \/ TypeTapped \/ TypeEnd \/ TypeClear \/ AdvPoll
              \/ RestartTest \/ RestartClear \/ RestartGo \/ RestartStart
              \/ WifiPoll \/ Restart

NimBle == \E h \in Hosts : Connect(h) \/ Bond(h) \/ Disconnect(h)

MqttStep == MqttDisabled \/ MqttTry \/ (\E ok \in BOOLEAN : MqttConnected(ok))
              \/ MqttLost

Next == Command \/ LoopStep \/ NimBle \/ MqttStep
          \/ ClockWraps \/ ClockCatchesUp \/ ApComes \/ ApGoes

(* loop() comes round and takes each of its parts; the MQTT task wakes     *)
(* every second, and a connect and a request return.                       *)
Fairness ==
  /\ SF_vars(TypeStart \/ TypeEnd) /\ WF_vars(TypeTapped \/ TypeClear)
  /\ WF_vars(RestartClear \/ RestartGo \/ RestartStart) /\ WF_vars(ClockCatchesUp)
  /\ SF_vars(RestartTest)
  /\ SF_vars(MqttDisabled)
  /\ WF_vars(\E ok \in BOOLEAN : MqttConnected(ok))
  /\ WF_vars(\E n \in 0..TextMax : MqttTextStore(n))

Spec == Init /\ [][Next]_vars /\ Fairness

-----------------------------------------------------------------------------
TypeOK ==
  /\ lpc \in {"idle", "tap", "clear", "over", "stop", "start"}
  /\ mpc \in {"wait", "connect", "text", "idx", "busy"}
  /\ g_type_len \in 0..TextMax /\ g_type_idx \in 0..(TextMax + 1)
  /\ g_type_next \in {"zero", "past", "far"}
  /\ secured \subseteq conn /\ conn \subseteq Hosts /\ bonds \subseteq Hosts
  /\ adv \in Hosts \cup {"off", "public"}
  /\ g_directed_adv_addr \in Hosts \cup {None} /\ left \in Hosts \cup {None}

(* Typing always comes to an end (and keyboard/text is not refused for     *)
(* ever), though the MQTT task may put a text into the queue while the     *)
(* loop is in the middle of a tap of another one.                          *)
TypingEnds == g_type_busy ~> (~g_type_busy \/ ~g_ble_enabled)

(* "After a connection/disconnection, the device falls back to directed    *)
(* advertising to the bonded peer": a bonded host that was the last to     *)
(* leave is invited again, whatever connects, disconnects and polls of     *)
(* loop() cross, unless a command said otherwise or a host connects first. *)
LeftHostInvited ==
  \A h \in Hosts : (left = h /\ conn = {}) ~> (left # h \/ conn # {})

(* mqtt.enable=0 ends the session, even one whose connect was under way    *)
(* when the command came.                                                  *)
MqttStops == ~g_mqtt_enabled ~> (g_mqtt_enabled \/ ~session)

-----------------------------------------------------------------------------
(* What one might expect and TLC refutes; no run checks these.             *)

(* A bonded host that leaves is invited although another one is connected: *)
(* the deadline passes while the other link is up and is not set again.    *)
EveryLeftHostInvited == \A h \in Hosts : left = h ~> left # h

(* loop() does not stop an invitation without another in its place.  It    *)
(* does when a host leaves between the clearing of an old deadline and the *)
(* test of the pending flag: the host is invited and the deadline set      *)
(* anew, which 500 ms later stops what has just begun.                     *)
InvitationStays ==
  [][\A h \in Hosts : (adv = h /\ lpc = "stop" /\ lpc' = "idle") => adv' = h]_vars

(* The MQTT task stores a text only into an idle queue. *)
StoresIntoIdle == mpc \in {"text", "idx", "busy"} => ~g_type_busy /\ lpc # "tap"

(* mqtt/clear ends the session: not one whose connect was under way.       *)
ClearEndsSession == ~g_mqtt_broker ~> (g_mqtt_broker \/ ~session)
=============================================================================
