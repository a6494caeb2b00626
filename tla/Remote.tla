------------------------------- MODULE Remote -------------------------------
(***************************************************************************)
(* Remote control of an ESP32 (Rust) node over MQTT: the client of the     *)
(* node (mqttc.rs), the broker with its key store and the bridge that      *)
(* turns HTTP calls into requests to the node (atnode_broker.py).          *)
(*                                                                         *)
(* The node's tasks share one executor, the bridge's callbacks and callers *)
(* are threads that share a lock; either way what lies between two waits   *)
(* is one action.  Every message is QoS 0: it is lost when its reader is   *)
(* not there, and what a TCP connection holds is lost with it.             *)
(***************************************************************************)
EXTENDS Naturals, Sequences

CONSTANTS
  Confs,      \* values of the keys that shape a session (mqtt.*, hostname)
  None,       \* mqtt.broker is empty
  Reqs,       \* request ids of the bridge (uuid4)
  CAP,        \* capacity of CHANGED
  BOX,        \* bound: messages on their way to the bridge
  MaxCmds,    \* bound: commands to the node and to the key store
  MaxFaults   \* bound: lost connections, power cuts and failed connects

ASSUME RemoteAssumption ==
  /\ None \notin Confs /\ Reqs \cap {"sub", "online", "offline", "disc"} = {}
  /\ CAP \in Nat \ {0} /\ BOX \in Nat \ {0} /\ MaxCmds \in Nat /\ MaxFaults \in Nat

VARIABLES
  conf, enable,        \* the configuration; mqtt.enable
  unread,              \* CHANGED, as far as the client has not read it
  untold,              \* history: a change the client will not hear of
  running, connected,  \* STATE of mqttc
  kick,                \* its KICK
  phase,               \* "idle", "pause" (link or back-off), "connecting", "session"
  snap,                \* the configuration of the session
  wifi,                \* wifi::link_up()
  up,                  \* packets of the node the broker has not processed
  down,                \* requests the broker has sent to the node
  sess,                \* broker: "none", "live", "zombie" (peer gone, not noticed)
  devsub,              \* broker: the node's subscription of its cmd topic
  retained,            \* broker: the retained state of the node
  key,                 \* the node's API key is active
  blink,               \* bridge: "down", "connack" (on_connect to run), "up"
  subscribed, mids,    \* bridge: the event; SUBSCRIBEs not acknowledged
  subs,                \* broker: the bridge's subscriptions
  inbox,               \* messages on their way to the bridge
  seen,                \* bridge: devices[dev]["online"]
  rpcs,                \* rpc() calls: "new", "pending", "set", "ok", "failed"
  cmds, faults

cfgVars  == <<conf, enable, unread, untold, cmds>>
devVars  == <<running, connected, kick, phase, snap, wifi>>
brkVars  == <<up, down, sess, devsub, retained, key>>
bridgeVars == <<blink, subscribed, mids, subs, inbox, seen, rpcs>>
vars == <<cfgVars, devVars, brkVars, bridgeVars, faults>>

SubTopics == {"state", "resp"}      \* atnode/+/info is treated like state

Init ==
  /\ conf \in Confs /\ enable \in BOOLEAN
  /\ unread = <<>> /\ untold = FALSE /\ cmds = 0 /\ faults = 0
  /\ running = enable              \* mqtt.auto is on
  /\ connected = FALSE /\ kick = FALSE /\ snap = None
  /\ phase = IF running THEN "pause" ELSE "idle"
  /\ wifi = TRUE
  /\ up = <<>> /\ down = <<>> /\ sess = "none" /\ devsub = FALSE
  /\ retained = "none" /\ key = TRUE
  /\ blink = "down" /\ subscribed = FALSE /\ mids = {} /\ subs = {}
  /\ inbox = <<>> /\ seen = "none"
  /\ rpcs = [r \in Reqs |-> "new"]

Command == cmds < MaxCmds /\ cmds' = cmds + 1
Fault   == faults < MaxFaults /\ faults' = faults + 1

-----------------------------------------------------------------------------
(* cfg::set: try_publish may find CHANGED full because of this client or   *)
(* of another subscriber.                                                  *)
Told(k) ==
  \/ Len(unread) < CAP /\ unread' = Append(unread, k) /\ UNCHANGED untold
  \/ UNCHANGED unread /\ untold' = (untold \/ k = "mqtt")

SetConf ==
  /\ Command
  /\ \E c \in (Confs \cup {None}) \ {conf} : conf' = c
  /\ Told("mqtt") /\ UNCHANGED enable

SetEnable ==
  /\ Command
  /\ \E e \in BOOLEAN : enable' = e
  /\ Told("mqtt.enable") /\ UNCHANGED conf

SetOther ==
  /\ Command
  /\ Told("other") /\ UNCHANGED <<conf, enable>>

(* AT+CFG, AT+MQTT, mqtt/config and the like.                              *)
CmdConfig ==
  /\ SetConf \/ SetEnable \/ SetOther
  /\ UNCHANGED <<devVars, brkVars, bridgeVars, faults>>

(* AT+MQTT=connect.  It also ends a live session: KICK is a stop there.    *)
Start ==
  /\ Command /\ conf # None
  /\ running' = TRUE /\ kick' = TRUE
  /\ UNCHANGED <<connected, phase, snap, wifi, conf, enable, unread, untold, brkVars,
                 bridgeVars, faults>>

(* AT+MQTT=disconnect.                                                     *)
Stop ==
  /\ Command
  /\ running' = FALSE /\ kick' = TRUE
  /\ UNCHANGED <<connected, phase, snap, wifi, conf, enable, unread, untold, brkVars,
                 bridgeVars, faults>>

-----------------------------------------------------------------------------
(* The broker (amqtt, external) with its authentication plugin.            *)

(* A message reaches the bridge if it has subscribed to the topic.         *)
Forward(t, m) ==
  IF t \in subs THEN Len(inbox) < BOX /\ inbox' = Append(inbox, m)
                ELSE UNCHANGED inbox

Retain(st) == retained' = st /\ Forward("state", st)

(* Faulty: CONNECT without the will flag.                                  *)
Will_Unset == UNCHANGED <<retained, inbox>>

(* The will of CONNECT: published when a session ends without DISCONNECT.  *)
Will == Retain("offline")

(* One packet of the node.                                                 *)
BrokerTakes ==
  /\ up # <<>> /\ up' = Tail(up)
  /\ LET p == Head(up) IN
       \/ /\ p = "sub" /\ devsub' = TRUE
          /\ UNCHANGED <<retained, inbox, sess>>
       \/ /\ p \in {"online", "offline"} /\ Retain(p)
          /\ UNCHANGED <<devsub, sess>>
       \/ /\ p = "disc" /\ sess' = "none" /\ devsub' = FALSE
          /\ UNCHANGED <<retained, inbox>>
       \/ /\ p \in Reqs
          /\ Forward("resp", p)
          /\ UNCHANGED <<retained, devsub, sess>>
  /\ UNCHANGED <<down, key, blink, subscribed, mids, subs, seen, rpcs, devVars,
                 cfgVars, faults>>

(* Keep-alive runs out, or the socket reports the loss.                    *)
BrokerNotices ==
  /\ sess = "zombie"
  /\ sess' = "none" /\ devsub' = FALSE
  /\ Will
  /\ UNCHANGED <<up, down, key, blink, subscribed, mids, subs, seen, rpcs, devVars,
                 cfgVars, faults>>

(* ManageService._exec on the node's key (remove is a revoke for good): a  *)
(* session that is up stays up.                                            *)
ManageExec ==
  /\ Command
  /\ key' = ~key
  /\ UNCHANGED <<up, down, sess, devsub, retained, conf, enable, unread, untold,
                 bridgeVars, devVars, faults>>

-----------------------------------------------------------------------------
(* mqttc::task.                                                            *)

Pause  == phase' = IF running' THEN "pause" ELSE "idle"

(* Parked.  A start, whose KICK this consumes, and mqtt.enable going on    *)
(* lead out of it.                                                         *)
Idle ==
  /\ phase = "idle"
  /\ \/ kick /\ kick' = FALSE /\ UNCHANGED <<unread, running>>
     \/ /\ ~kick /\ unread # <<>> /\ unread' = Tail(unread)
        /\ running' = (running \/ (Head(unread) = "mqtt.enable" /\ enable))
        /\ UNCHANGED kick
  /\ Pause
  /\ UNCHANGED <<connected, snap, wifi, conf, enable, untold, cmds,
                 brkVars, bridgeVars, faults>>

(* A timer has run out: the head of the loop.  The configuration is read   *)
(* here and nowhere else.                                                  *)
PauseOver ==
  /\ phase = "pause"
  /\ \/ ~running /\ phase' = "idle" /\ UNCHANGED <<running, snap>>
     \/ /\ running /\ wifi /\ conf = None
        /\ running' = FALSE /\ phase' = "idle" /\ UNCHANGED snap
     \/ /\ running /\ wifi /\ conf # None
        /\ snap' = conf /\ phase' = "connecting" /\ UNCHANGED running
  /\ UNCHANGED <<connected, kick, wifi, cfgVars, brkVars, bridgeVars, faults>>

(* run_session up to CONNACK fails: no address, no route, TLS, refused.    *)
ConnectFails ==
  /\ phase = "connecting"
  /\ \/ ~key /\ UNCHANGED faults
     \/ Fault
  /\ UNCHANGED running /\ Pause
  /\ UNCHANGED <<connected, kick, snap, wifi, cfgVars, brkVars, bridgeVars>>

(* CONNACK.  The broker closes an older session of this client id first;   *)
(* then come SUBSCRIBE, "online" and the info document.                    *)
ConnectOk ==
  /\ phase = "connecting" /\ wifi /\ key = TRUE
  /\ IF sess = "none" THEN UNCHANGED <<retained, inbox>> ELSE Will
  /\ sess' = "live" /\ devsub' = FALSE /\ down' = <<>>
  /\ up' = <<"sub", "online">>
  /\ connected' = TRUE /\ phase' = "session"
  /\ UNCHANGED <<running, kick, snap, wifi, key, cfgVars, blink,
                 subscribed, mids, subs, seen, rpcs, faults>>

(* Faulty: the session is closed without telling.                          *)
EndSession_NoOffline ==
  /\ connected' = FALSE /\ Pause
  /\ up' = up \o <<"disc">> /\ down' = <<>>
  /\ UNCHANGED <<sess, devsub, retained, key>>

(* The end of run_client, whatever the cause, on a working connection.     *)
EndSession ==
  /\ connected' = FALSE /\ Pause
  /\ up' = up \o <<"offline", "disc">> /\ down' = <<>>
  /\ UNCHANGED <<sess, devsub, retained, key>>

(* A request: config/set and the tunnel methods write keys, the others     *)
(* read, type or switch pins.                                              *)
mqtt_exec == SetConf \/ SetEnable \/ SetOther \/ UNCHANGED cfgVars

(* A request is executed and answered.  Like every event it is followed by *)
(* a look at running.                                                      *)
SessCmd ==
  /\ phase = "session" /\ down # <<>>
  /\ UNCHANGED <<running, kick, snap, wifi>>
  /\ mqtt_exec
  /\ IF running
     THEN /\ up' = Append(up, Head(down)) /\ down' = Tail(down)
          /\ UNCHANGED <<connected, phase, sess, devsub, retained, key>>
     ELSE /\ connected' = FALSE /\ phase' = "idle"
          /\ up' = up \o <<Head(down), "offline", "disc">> /\ down' = <<>>
          /\ UNCHANGED <<sess, devsub, retained, key>>
  /\ UNCHANGED <<bridgeVars, faults>>

(* The ping timer.                                                         *)
SessPing ==
  /\ phase = "session" /\ ~running
  /\ UNCHANGED <<running, kick, snap, wifi>>
  /\ EndSession
  /\ UNCHANGED <<cfgVars, bridgeVars, faults>>

SessKick ==
  /\ phase = "session" /\ kick
  /\ kick' = FALSE
  /\ UNCHANGED <<running, snap, wifi>>
  /\ EndSession
  /\ UNCHANGED <<cfgVars, bridgeVars, faults>>

(* Faulty: only the switch is looked at.                                   *)
Concerns_EnableOnly(k) == k = "mqtt.enable"

Concerns(k) == k \in {"mqtt", "mqtt.enable"}

(* select3_cfg: the session ends when its configuration has changed; after *)
(* any other key the loop goes on without a look at running.               *)
SessMsg ==
  /\ phase = "session" /\ ~kick /\ unread # <<>>
  /\ unread' = Tail(unread)
  /\ UNCHANGED <<running, kick, snap, wifi>>
  /\ IF Concerns(Head(unread))
     THEN EndSession ELSE UNCHANGED <<connected, phase, brkVars>>
  /\ UNCHANGED <<conf, enable, untold, cmds, bridgeVars, faults>>

(* The connection breaks; what was under way in it is lost.                *)
Lost == up' = <<>> /\ down' = <<>> /\ sess' = IF sess = "none" THEN "none" ELSE "zombie"

SessLost ==
  /\ phase = "session" /\ Fault /\ Lost
  /\ connected' = FALSE /\ UNCHANGED running /\ Pause
  /\ UNCHANGED <<kick, snap, wifi, devsub, retained, key, cfgVars, bridgeVars>>

Reboot ==
  /\ Fault /\ Lost
  /\ running' = enable /\ connected' = FALSE /\ kick' = FALSE
  /\ Pause /\ snap' = None
  /\ unread' = <<>> /\ untold' = FALSE
  /\ UNCHANGED <<wifi, conf, enable, cmds, devsub, retained, key, bridgeVars>>

WifiFlips ==
  /\ Fault /\ wifi' = ~wifi
  /\ UNCHANGED <<running, connected, kick, phase, snap, cfgVars, brkVars,
                 bridgeVars>>

-----------------------------------------------------------------------------
(* Bridge.                                                                 *)

BridgeConnects ==
  /\ blink = "down"
  /\ blink' = "connack" /\ subs' = {} /\ inbox' = <<>>
  /\ UNCHANGED <<subscribed, mids, seen, rpcs, devVars, brkVars, cfgVars, faults>>

(* Faulty: the event of the last connection still stands.                  *)
OnConnect_StaleEvent ==
  /\ blink = "connack"
  /\ blink' = "up" /\ mids' = SubTopics
  /\ UNCHANGED <<subscribed, subs, inbox, seen, rpcs, devVars, brkVars, cfgVars, faults>>

OnConnect ==
  /\ blink = "connack"
  /\ blink' = "up" /\ subscribed' = FALSE /\ mids' = SubTopics
  /\ UNCHANGED <<subs, inbox, seen, rpcs, devVars, brkVars, cfgVars, faults>>

OnSubscribe(t) ==
  /\ mids' = mids \ {t}
  /\ subscribed' = (subscribed \/ mids' = {})

(* The broker takes a SUBSCRIBE and sends what it retains.                 *)
BrokerSubscribes(t) ==
  /\ blink = "up" /\ t \in mids \ subs
  /\ subs' = subs \cup {t}
  /\ IF t = "state" /\ retained # "none"
     THEN Len(inbox) < BOX /\ inbox' = Append(inbox, retained)
     ELSE UNCHANGED inbox
  /\ UNCHANGED <<blink, subscribed, mids, seen, rpcs, devVars, brkVars, cfgVars, faults>>

Suback(t) ==
  /\ blink = "up" /\ t \in mids \cap subs
  /\ OnSubscribe(t)
  /\ UNCHANGED <<blink, subs, inbox, seen, rpcs, devVars, brkVars, cfgVars, faults>>

BridgeLost ==
  /\ blink # "down" /\ Fault
  /\ blink' = "down" /\ subs' = {} /\ inbox' = <<>>
  /\ UNCHANGED <<subscribed, mids, seen, rpcs, devVars, brkVars, cfgVars>>

(* pending is looked up by the id in the answer.                           *)
Answer(m) ==
  [r \in Reqs |-> IF r = m /\ rpcs[r] = "pending" THEN "set" ELSE rpcs[r]]

OnMessage ==
  /\ blink = "up" /\ inbox # <<>>
  /\ inbox' = Tail(inbox)
  /\ IF Head(inbox) \in Reqs
     THEN rpcs' = Answer(Head(inbox)) /\ UNCHANGED seen
     ELSE seen' = Head(inbox) /\ UNCHANGED rpcs
  /\ UNCHANGED <<blink, subscribed, mids, subs, devVars, brkVars, cfgVars, faults>>

(* do_POST with a valid key, up to the wait for the answer; without the    *)
(* event it fails after five seconds and leaves no trace.  A request       *)
(* published while the bridge or the node is away is lost.                 *)
Rpc(r) ==
  /\ rpcs[r] = "new" /\ subscribed
  /\ rpcs' = [rpcs EXCEPT ![r] = "pending"]
  /\ down' = IF blink = "up" /\ sess = "live" /\ devsub /\ connected
             THEN Append(down, r) ELSE down
  /\ UNCHANGED <<blink, subscribed, mids, subs, inbox, seen, up, sess, devsub, retained,
                 key, devVars, cfgVars, faults>>

(* The wait ends, with or without the event; pending is popped.            *)
RpcReturns(r) ==
  /\ rpcs[r] \in {"pending", "set"}
  /\ rpcs' = [rpcs EXCEPT ![r] = IF @ = "set" THEN "ok" ELSE "failed"]
  /\ UNCHANGED <<blink, subscribed, mids, subs, inbox, seen, devVars, brkVars, cfgVars,
                 faults>>

-----------------------------------------------------------------------------
DevTask ==
  Idle \/ PauseOver \/ ConnectOk \/ SessCmd \/ SessPing \/ SessKick \/ SessMsg
Broker  == BrokerTakes \/ BrokerNotices
BridgeTask ==
  \/ BridgeConnects \/ OnConnect \/ OnMessage
  \/ \E t \in SubTopics : BrokerSubscribes(t) \/ Suback(t)
World ==
  \/ CmdConfig \/ Start \/ Stop \/ ManageExec
  \/ ConnectFails \/ SessLost \/ Reboot \/ WifiFlips \/ BridgeLost
  \/ \E r \in Reqs : Rpc(r) \/ RpcReturns(r)

Next == DevTask \/ Broker \/ BridgeTask \/ World

(* The node's executor and the broker's event loop go on; the broker       *)
(* notices a dead peer (keep-alive); the bridge's thread reads.  Users and *)
(* networks owe nothing.                                                   *)
Fairness ==
  /\ WF_vars(DevTask) /\ WF_vars(BrokerTakes) /\ WF_vars(BrokerNotices)
  /\ WF_vars(BridgeTask)

Spec == Init /\ [][Next]_vars /\ Fairness

-----------------------------------------------------------------------------
Keys    == {"mqtt", "mqtt.enable", "other"}
Packets == {"sub", "online", "offline", "disc"} \cup Reqs

TypeOK ==
  /\ conf \in Confs \cup {None} /\ snap \in Confs \cup {None}
  /\ enable \in BOOLEAN /\ untold \in BOOLEAN /\ cmds \in 0..MaxCmds /\ faults \in 0..MaxFaults
  /\ unread \in Seq(Keys) /\ Len(unread) <= CAP
  /\ running \in BOOLEAN /\ connected \in BOOLEAN /\ kick \in BOOLEAN /\ wifi \in BOOLEAN
  /\ phase \in {"idle", "pause", "connecting", "session"}
  /\ connected <=> phase = "session"
  /\ up \in Seq(Packets) /\ down \in Seq(Reqs)
  /\ sess \in {"none", "live", "zombie"} /\ retained \in {"none", "online", "offline"}
  /\ devsub \in BOOLEAN /\ key \in BOOLEAN
  /\ blink \in {"down", "connack", "up"} /\ subscribed \in BOOLEAN
  /\ mids \subseteq SubTopics /\ subs \subseteq SubTopics
  /\ inbox \in Seq({"online", "offline"} \cup Reqs) /\ Len(inbox) <= BOX
  /\ seen \in {"none", "online", "offline"}
  /\ rpcs \in [Reqs -> {"new", "pending", "set", "ok", "failed"}]

(* mqttc.rs "a cfg change that forces a reconnect": a session that runs on *)
(* an old configuration has the notification before it, unless CHANGED was *)
(* full when the key was set.                                              *)
SessionConf ==
  phase = "session" /\ snap # conf => untold \/ "mqtt" \in {unread[i] : i \in DOMAIN unread}

(* What the broker retains is true once its queues are empty: "online"     *)
(* only with a session, and with the node's session up always.             *)
RetainedAgrees ==
  up = <<>> =>
    /\ sess = "none" => retained # "online"
    /\ connected /\ sess = "live" => retained = "online" /\ devsub

(* A stopped node is seen to be offline, however it was stopped and        *)
(* whatever became of its connection.                                      *)
StopSeen == ~running ~> running \/ retained # "online"

(* atnode_broker.py "rpc() MUST wait for this": on a connection whose      *)
(* on_connect has run, the event means that answers reach the bridge, and  *)
(* its view of the node settles on what the broker retains, however often  *)
(* either of them reconnects.                                              *)
ViewSettles ==
  blink = "up" /\ subscribed =>
    "resp" \in subs /\ (inbox = <<>> => seen = retained)
=============================================================================
