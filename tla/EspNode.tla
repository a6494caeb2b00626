------------------------------- MODULE EspNode -------------------------------
(***************************************************************************)
(* The configuration of the ESP32 (Rust) node and the services that follow *)
(* it: the registry and its change notifications (cfg.rs), the Wi-Fi       *)
(* watchdog (wifi.rs), the HTTP acceptors, handler and socket buffers      *)
(* (httpd.rs), SSDP (ssdp.rs), and the AT and HTTP handlers that write     *)
(* keys.  The MQTT and tunnel services have modules of their own; here     *)
(* they are subscribers that read or lag.                                  *)
(*                                                                         *)
(* One embassy executor runs all tasks; what lies between two awaits that  *)
(* have to wait is one action.  cfg::set stores to flash and RAM without   *)
(* waiting, so flash and RAM agree and a restart keeps cfg.                *)
(***************************************************************************)
EXTENDS Naturals, Sequences

CONSTANTS
  Creds,      \* Wi-Fi credentials (ssid and password)
  None,       \* an empty value
  Acceptors,  \* the HTTP acceptor tasks
  Others,     \* the other subscribers of CHANGED
  Bufs,       \* indices of TCP_BUFS
  CAP,        \* capacity of CHANGED
  MaxSets     \* bound: commands that write the configuration

ASSUME EspNodeAssumption ==
  /\ None \notin Creds \cup Bufs
  /\ "wifi" \notin Acceptors \cup Others /\ Acceptors \cap Others = {}
  /\ Acceptors # {} /\ Bufs \cap {"idle", "wait"} = {}
  /\ CAP \in Nat \ {0} /\ MaxSets \in Nat

Subs   == Acceptors \cup Others \cup {"wifi"}
Topics == {"wifi", "http.enable", "other"}     \* other: every other key

VARIABLES
  cfg,      \* the registry
  unread,   \* CHANGED: what each subscriber has still to read
  dropped,  \* history: topics whose last notification was not published
  erased,   \* history: the registry was erased since the start
  sets,
  wphase,   \* wifi_task: "wait" (a change or 15 s), "joining", "dhcp", "poll"
  cur,      \* its cur_ssid, cur_pass
  assoc,    \* controller.is_connected()
  up,       \* STATE.up of wifi
  hrun,     \* STATE of httpd
  hkick,    \* its KICK
  acc,      \* each acceptor: "idle", "wait" (for a buffer), or its buffer
  free,     \* FREE_IDX
  conn,     \* CONN
  serving,  \* the buffer of the connection being served
  ssdp      \* the SSDP socket: "closed", "open", or "due": open, and the two
            \* seconds to the next look at the switch have run out

cfgVars  == <<cfg, unread, dropped, erased, sets>>
wifiVars == <<wphase, cur, assoc, up>>
httpVars == <<hrun, hkick, acc, free, conn, serving>>
vars == <<cfgVars, wifiVars, httpVars, ssdp>>

Config == [wifi : Creds \cup {None}, enable : BOOLEAN, auto : BOOLEAN]

(* The registry's defaults: everything empty, every switch off.            *)
Default == [wifi |-> None, enable |-> FALSE, auto |-> FALSE]

(* Start-up with configuration c.  httpd::init goes through set_running,   *)
(* which signals KICK.                                                     *)
Boot(c) ==
  [cfg |-> c, unread |-> [s \in Subs |-> <<>>],
   hrun |-> c.auto /\ c.enable, hkick |-> TRUE,
   acc |-> [a \in Acceptors |-> IF c.auto /\ c.enable THEN "wait" ELSE "idle"]]

Init ==
  /\ \E c \in Config :
       /\ cfg = Boot(c).cfg /\ unread = Boot(c).unread
       /\ hrun = Boot(c).hrun /\ hkick = Boot(c).hkick /\ acc = Boot(c).acc
  /\ dropped = {} /\ erased = FALSE /\ sets = 0
  /\ wphase = "wait" /\ cur = None /\ assoc = FALSE /\ up = FALSE
  /\ free = Bufs /\ conn = <<>> /\ serving = None /\ ssdp = "closed"

-----------------------------------------------------------------------------
(* cfg.rs.                                                                 *)

Seen(s) == {s[i] : i \in DOMAIN s}

(* CHANGED holds a message until every subscriber has read it; try_publish *)
(* gives up when it is full, and set() ignores that.                       *)
Publish(topics) ==
  \E n \in 0..Len(topics) :
    /\ \A s \in Subs : Len(unread[s]) + n <= CAP
    /\ n < Len(topics) => \E s \in Subs : Len(unread[s]) + n = CAP
    /\ LET told == SubSeq(topics, 1, n)
       IN /\ unread' = [s \in Subs |-> unread[s] \o told]
          /\ dropped' = ((dropped \cup Seen(topics)) \ Seen(told)) \ {"other"}

(* A handler's calls of cfg::set, one per topic.                           *)
Set(c, topics) ==
  /\ sets < MaxSets
  /\ sets' = sets + 1
  /\ cfg' = c
  /\ Publish(topics)
  /\ UNCHANGED erased

(* Subscriber s reads its oldest message.                                  *)
Key(s)  == Head(unread[s])
Read(s) ==
  /\ unread' = [unread EXCEPT ![s] = Tail(@)]
  /\ UNCHANGED <<cfg, dropped, erased, sets>>

(* erase_all: no notification.                                             *)
EraseAll ==
  /\ cfg' = Default
  /\ erased' = TRUE
  /\ UNCHANGED <<unread, dropped, sets>>

-----------------------------------------------------------------------------
(* wifi_task.                                                              *)

(* Faulty: a link that is up is left alone, whatever its credentials.      *)
WifiTop_KeepLink ==
  IF cfg.wifi = None
  THEN cur' = None /\ wphase' = "wait" /\ UNCHANGED assoc
  ELSE IF assoc
  THEN wphase' = "wait" /\ UNCHANGED <<cur, assoc>>
  ELSE cur' = cfg.wifi /\ assoc' = FALSE /\ wphase' \in {"wait", "joining"}

(* The head of its loop: credentials are read, an unchanged link is left   *)
(* alone, otherwise the radio is configured and a join started.            *)
WifiTop ==
  IF cfg.wifi = None
  THEN cur' = None /\ wphase' = "wait" /\ UNCHANGED assoc
  ELSE IF cfg.wifi = cur /\ assoc
  THEN wphase' = "wait" /\ UNCHANGED <<cur, assoc>>
  ELSE cur' = cfg.wifi /\ assoc' = FALSE /\ wphase' \in {"wait", "joining"}

WifiTimeout ==
  /\ wphase = "wait"
  /\ WifiTop
  /\ UNCHANGED <<cfgVars, up, httpVars, ssdp>>

WifiMsg ==
  /\ wphase = "wait" /\ unread["wifi"] # <<>>
  /\ Read("wifi")
  /\ WifiTop
  /\ UNCHANGED <<up, httpVars, ssdp>>

WifiJoin(ok) ==
  /\ wphase = "joining"
  /\ assoc' = ok
  /\ wphase' = IF ok THEN "dhcp" ELSE "wait"
  /\ UNCHANGED <<cfgVars, cur, up, httpVars, ssdp>>

(* wait_config_up has no time limit and does not look at the link.         *)
WifiDhcp ==
  /\ wphase = "dhcp" /\ assoc
  /\ up' = TRUE /\ wphase' = "poll"
  /\ UNCHANGED <<cfgVars, cur, assoc, httpVars, ssdp>>

(* Link loss found while connected.                                        *)
WifiPollLink ==
  /\ wphase = "poll" /\ ~assoc
  /\ up' = FALSE
  /\ WifiTop
  /\ UNCHANGED <<cfgVars, httpVars, ssdp>>

(* Faulty: only the link is looked at when a message arrives.              *)
WifiPollMsg_LinkOnly ==
  /\ wphase = "poll" /\ unread["wifi"] # <<>>
  /\ Read("wifi")
  /\ IF ~assoc THEN WifiTop /\ up' = FALSE ELSE UNCHANGED wifiVars
  /\ UNCHANGED <<httpVars, ssdp>>

WifiPollMsg ==
  /\ wphase = "poll" /\ unread["wifi"] # <<>>
  /\ Read("wifi")
  /\ IF Key("wifi") = "wifi" THEN WifiTop /\ UNCHANGED up
     ELSE IF ~assoc THEN WifiTop /\ up' = FALSE
     ELSE UNCHANGED wifiVars
  /\ UNCHANGED <<httpVars, ssdp>>

(* The access point goes away.                                             *)
ApLost ==
  /\ assoc
  /\ assoc' = FALSE
  /\ UNCHANGED <<cfgVars, wphase, cur, up, httpVars, ssdp>>

WifiTask ==
  \/ WifiTimeout \/ WifiMsg \/ WifiDhcp \/ WifiPollLink \/ WifiPollMsg
  \/ \E ok \in BOOLEAN : WifiJoin(ok)

-----------------------------------------------------------------------------
(* httpd.rs: acceptor_task and handler_task.                               *)

SetRunning(v) == hrun' = v /\ hkick' = TRUE
Listening(a)  == acc[a] \in Bufs
AccTop(a)     == acc' = [acc EXCEPT ![a] = IF hrun' THEN "wait" ELSE "idle"]

(* Suspended until KICK (looked at first) or any message; then http.enable *)
(* decides.                                                                *)
AccIdle(a) ==
  /\ acc[a] = "idle"
  /\ hkick \/ unread[a] # <<>>
  /\ IF hkick THEN UNCHANGED cfgVars ELSE Read(a)
  /\ IF cfg.enable THEN SetRunning(TRUE) ELSE hkick' = FALSE /\ UNCHANGED hrun
  /\ AccTop(a)
  /\ UNCHANGED <<free, conn, serving, wifiVars, ssdp>>

(* accept_one takes a buffer, listens, and hands the connection over or    *)
(* gives the buffer back.                                                  *)
AccTake(a) ==
  /\ acc[a] = "wait"
  /\ \E i \in free : acc' = [acc EXCEPT ![a] = i] /\ free' = free \ {i}
  /\ UNCHANGED <<hrun, hkick, conn, serving, cfgVars, wifiVars, ssdp>>

AccConn(a) ==
  /\ Listening(a)
  /\ conn' = Append(conn, acc[a])
  /\ UNCHANGED <<hrun, hkick>> /\ AccTop(a)
  /\ UNCHANGED <<free, serving, cfgVars, wifiVars, ssdp>>

AccErr(a) ==
  /\ Listening(a)
  /\ free' = free \cup {acc[a]}
  /\ UNCHANGED <<hrun, hkick>> /\ AccTop(a)
  /\ UNCHANGED <<conn, serving, cfgVars, wifiVars, ssdp>>

(* disable wins the select: accept_one is dropped with its buffer.         *)
AccKick(a) ==
  /\ acc[a] # "idle" /\ hkick
  /\ hkick' = FALSE
  /\ acc' = IF hrun THEN acc ELSE [acc EXCEPT ![a] = "idle"]
  /\ UNCHANGED <<hrun, free, conn, serving, cfgVars, wifiVars, ssdp>>

(* Faulty: an acceptor that waits for a buffer does not hear the switch.   *)
AccMsg_Listening(a) ==
  /\ Listening(a) /\ ~hkick /\ unread[a] # <<>>
  /\ Read(a)
  /\ IF Key(a) = "http.enable" /\ ~cfg.enable
     THEN SetRunning(FALSE) /\ acc' = [acc EXCEPT ![a] = "idle"]
     ELSE UNCHANGED <<hrun, hkick, acc>>
  /\ UNCHANGED <<free, conn, serving, wifiVars, ssdp>>

(* The disable future hears the switch wherever accept_one is waiting: for *)
(* a buffer, for a connection, for room in CONN.                           *)
AccMsg(a) ==
  /\ acc[a] # "idle" /\ ~hkick /\ unread[a] # <<>>
  /\ Read(a)
  /\ IF Key(a) = "http.enable" /\ ~cfg.enable
     THEN SetRunning(FALSE) /\ acc' = [acc EXCEPT ![a] = "idle"]
     ELSE UNCHANGED <<hrun, hkick, acc>>
  /\ UNCHANGED <<free, conn, serving, wifiVars, ssdp>>

(* Faulty: the buffer goes back to the pool when its connection is taken   *)
(* from the queue.                                                         *)
Serve_FreeEarly ==
  /\ serving = None /\ conn # <<>>
  /\ serving' = Head(conn) /\ conn' = Tail(conn)
  /\ free' = free \cup {Head(conn)}
  /\ UNCHANGED <<hrun, hkick, acc, cfgVars, wifiVars, ssdp>>

(* handler_task.                                                           *)
Serve ==
  /\ serving = None /\ conn # <<>>
  /\ serving' = Head(conn) /\ conn' = Tail(conn)
  /\ UNCHANGED <<hrun, hkick, acc, free, cfgVars, wifiVars, ssdp>>

Served ==
  /\ serving # None
  /\ free' = free \cup {serving} /\ serving' = None
  /\ UNCHANGED <<hrun, hkick, acc, conn, cfgVars, wifiVars, ssdp>>

AccTask(a) == AccIdle(a) \/ AccTake(a) \/ AccKick(a) \/ AccMsg(a)

-----------------------------------------------------------------------------
(* Another subscriber (mqttc, rathole) reads when it comes to it: mqttc    *)
(* does not while it cannot reach its broker.                              *)
OtherReads(s) ==
  /\ s \in Others /\ unread[s] # <<>>
  /\ Read(s)
  /\ UNCHANGED <<wifiVars, httpVars, ssdp>>

(* ssdp.rs.  A closed service looks every two seconds whether to open.  An *)
(* open one selects on a datagram, the next announcement and two seconds,  *)
(* and only the last of them looks at the switch; the timer is built anew  *)
(* in each round, so a datagram (polled first) starts it again.            *)
(* Announcements do the same, every two seconds in the first 30 and every  *)
(* few minutes from then on, which leaves the check room: left out.        *)
SsdpOpen ==
  /\ ssdp = "closed" /\ hrun /\ up
  /\ ssdp' = "open"
  /\ UNCHANGED <<cfgVars, wifiVars, httpVars>>

SsdpTimer ==
  /\ ssdp = "open"
  /\ ssdp' = "due"
  /\ UNCHANGED <<cfgVars, wifiVars, httpVars>>

SsdpCheck ==
  /\ ssdp = "due"
  /\ ssdp' = IF hrun /\ up THEN "open" ELSE "closed"
  /\ UNCHANGED <<cfgVars, wifiVars, httpVars>>

Datagram ==
  /\ ssdp = "due"
  /\ ssdp' = "open"
  /\ UNCHANGED <<cfgVars, wifiVars, httpVars>>

Ssdp == SsdpOpen \/ SsdpTimer \/ SsdpCheck

-----------------------------------------------------------------------------
(* Commands that write keys.  One over HTTP needs a connection being       *)
(* served.                                                                 *)

Quiet == UNCHANGED <<wifiVars, httpVars, ssdp>>
Http  == serving # None

SetWifi   == \E c \in Creds \cup {None} : Set([cfg EXCEPT !.wifi = c], <<"wifi">>)
SetEnable == \E v \in BOOLEAN : Set([cfg EXCEPT !.enable = v], <<"http.enable">>)
SetAuto   == \E v \in BOOLEAN : Set([cfg EXCEPT !.auto = v], <<"other">>)
SetOther(n) == Set(cfg, [i \in 1..n |-> "other"])

(* AT commands.                                                            *)
CmdSet    == (SetWifi \/ SetEnable \/ SetAuto \/ SetOther(1)) /\ Quiet
CmdWifi   == SetWifi /\ Quiet
CmdHttp   == (SetEnable \/ SetAuto) /\ Quiet
CmdMqtt   == SetOther(1) /\ Quiet
CmdTunnel == SetOther(1) /\ Quiet
CmdNvs    == EraseAll /\ Quiet

(* HTTP routes; several write more than one key in one go.                 *)
HConfigSet  == Http /\ (SetWifi \/ SetEnable \/ SetAuto \/ SetOther(1)) /\ Quiet
HWifiConfig == /\ Http /\ Quiet
               /\ \E c \in Creds \cup {None} :
                    Set([cfg EXCEPT !.wifi = c], <<"wifi", "wifi">>)
HMqttConfig == Http /\ (\E n \in 1..5 : SetOther(n)) /\ Quiet
HMqttClear  == Http /\ SetOther(5) /\ Quiet
HTunnel     == Http /\ (\E n \in 1..7 : SetOther(n)) /\ Quiet
TunnelClear == Http /\ SetOther(7) /\ Quiet
HHttpConfig == Http /\ SetEnable /\ Quiet
HHttpClear  == /\ Http /\ Quiet
               /\ Set([cfg EXCEPT !.enable = TRUE, !.auto = FALSE],
                      <<"http.enable", "other">>)

(* config/set, tunnel/config and tunnel/clear over MQTT.                   *)
mqtt_exec == (SetWifi \/ SetEnable \/ SetAuto \/ \E n \in 1..7 : SetOther(n)) /\ Quiet

Restart(c) ==
  /\ cfg' = Boot(c).cfg /\ unread' = Boot(c).unread
  /\ hrun' = Boot(c).hrun /\ hkick' = Boot(c).hkick /\ acc' = Boot(c).acc
  /\ dropped' = {} /\ erased' = FALSE
  /\ wphase' = "wait" /\ cur' = None /\ assoc' = FALSE /\ up' = FALSE
  /\ free' = Bufs /\ conn' = <<>> /\ serving' = None /\ ssdp' = "closed"
  /\ UNCHANGED sets

(* nvs/clear erases at once; the restart it asks restart_task for follows  *)
(* when the answer has gone out, and is CmdRst, which is AT+RST as well.   *)
HNvsClear == Http /\ EraseAll /\ Quiet
CmdRst    == Restart(cfg)

Commands ==
  \/ CmdSet \/ CmdWifi \/ CmdHttp \/ CmdMqtt \/ CmdTunnel \/ CmdNvs \/ CmdRst
  \/ HConfigSet \/ HWifiConfig \/ HMqttConfig \/ HMqttClear \/ HTunnel \/ TunnelClear
  \/ HHttpConfig \/ HHttpClear \/ HNvsClear \/ mqtt_exec

World ==
  \/ ApLost \/ Datagram
  \/ \E a \in Acceptors : AccConn(a) \/ AccErr(a)
  \/ \E s \in Others : OtherReads(s)

Next ==
  \/ WifiTask \/ Ssdp \/ Serve \/ Served
  \/ \E a \in Acceptors : AccTask(a)
  \/ Commands \/ World

(* The executor polls every task that can go on.  An acceptor looks at its *)
(* messages whenever no connection is ready, and one never is right after  *)
(* it starts to listen: connections do not starve the messages.            *)
Fairness ==
  /\ WF_vars(WifiTask) /\ WF_vars(Ssdp)
  /\ \A a \in Acceptors : WF_vars(AccIdle(a) \/ AccKick(a) \/ AccMsg(a))

Spec == Init /\ [][Next]_vars /\ Fairness

-----------------------------------------------------------------------------
TypeOK ==
  /\ cfg \in Config
  /\ unread \in [Subs -> Seq(Topics)] /\ \A s \in Subs : Len(unread[s]) <= CAP
  /\ dropped \subseteq Topics /\ erased \in BOOLEAN /\ sets \in 0..MaxSets
  /\ wphase \in {"wait", "joining", "dhcp", "poll"}
  /\ cur \in Creds \cup {None} /\ up \in BOOLEAN /\ assoc \in BOOLEAN
  /\ hrun \in BOOLEAN /\ hkick \in BOOLEAN /\ ssdp \in {"closed", "open", "due"}
  /\ acc \in [Acceptors -> Bufs \cup {"idle", "wait"}]
  /\ free \subseteq Bufs /\ conn \in Seq(Bufs) /\ serving \in Bufs \cup {None}

(* httpd.rs "no two live sockets can ever share a buffer": a buffer is     *)
(* free, or belongs to one acceptor, one queued connection or the handler. *)
BufferUnique ==
  LET queued == Seen(conn)
      held   == {acc[a] : a \in {b \in Acceptors : Listening(b)}}
  IN /\ \A a, b \in Acceptors : Listening(a) /\ acc[a] = acc[b] => a = b
     /\ \A i, j \in DOMAIN conn : conn[i] = conn[j] => i = j
     /\ free \cap (queued \cup held \cup {serving}) = {}
     /\ queued \cap (held \cup {serving}) = {} /\ serving \notin held

(* cfg.rs "services subscribe and re-read what they care about": a service *)
(* that still acts on an old value has the notification of the new one     *)
(* before it, unless CHANGED was full when it was set, or the registry was *)
(* erased.                                                                 *)
ServicesTold ==
  /\ hrun /\ ~cfg.enable /\ "http.enable" \notin dropped /\ ~erased
       => \E a \in Acceptors : "http.enable" \in Seen(unread[a])
  /\ ~hrun /\ cfg.enable /\ "http.enable" \notin dropped
       => hkick \/ \E a \in Acceptors : unread[a] # <<>>
  /\ wphase = "poll" /\ cfg.wifi # cur /\ "wifi" \notin dropped /\ ~erased
       => "wifi" \in Seen(unread["wifi"])

(* The switch of cfg.rs is live: with http.enable off the HTTP service     *)
(* stops, in whatever state it finds the acceptors (no free buffer, a      *)
(* connection just handed over, the other acceptor already told), and SSDP *)
(* closes its socket if the LAN leaves it two quiet seconds - unless       *)
(* nobody was told.                                                        *)
Excuse == cfg.enable \/ erased \/ "http.enable" \in dropped

SsdpStops == ssdp # "closed" /\ ~cfg.enable ~> ssdp = "closed" \/ Excuse

SwitchHonoured ==
  /\ hrun /\ ~cfg.enable ~> ~hrun \/ Excuse
  /\ <>[][~Datagram]_vars => SsdpStops

(* wifi.rs "while creds exist and the link is down, (re)connect": the      *)
(* watchdog takes up new credentials, unless it waits for an address on a  *)
(* link that is gone, or was not told.                                     *)
CredsApplied ==
  \A c \in Creds :
    cfg.wifi = c /\ cur # c ~>
      cur = c \/ cfg.wifi # c \/ wphase = "dhcp" \/ "wifi" \in dropped \/ erased

-----------------------------------------------------------------------------
(* What the source's own words say and TLC refutes; see the README.        *)

(* httpd.rs "If disabled mid-accept, the pending socket is dropped         *)
(* (listener closed) and we go back to idle": with the service off and     *)
(* nothing left to tell it, an acceptor is idle.                           *)
AcceptorsStop ==
  ~hrun /\ ~hkick /\ ~erased /\ dropped = {} =>
    \A a \in Acceptors : unread[a] = <<>> => acc[a] = "idle"

(* SsdpStops by itself is another: ssdp.rs "disabling HTTP stops SSDP", but *)
(* with a datagram every two seconds the switch is never looked at.        *)
=============================================================================
