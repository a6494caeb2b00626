------------------------------ MODULE Rathole ------------------------------
(***************************************************************************)
(* The tunnel client of the ESP32 (Rust) node (rathole.rs): the run flags  *)
(* and the commands that set them, the watcher of the configuration, the   *)
(* manager with its control channel and its standby data channel, and the  *)
(* forwarder that pumps a visitor's bytes to the local service.            *)
(*                                                                         *)
(* One embassy executor runs all tasks: an action is what lies between two *)
(* awaits that have to wait.  A tunnel command is taken to arrive whole.   *)
(***************************************************************************)
EXTENDS Naturals, Sequences, FiniteSets

CONSTANTS
  Confs,    \* values of tunnel.1.server, token, service and local
  None,
  Slots,    \* the MAX_FWD socket slots
  CAP,      \* capacity of CHANGED
  MaxCmds   \* bound: commands

ASSUME RatholeAssumption ==
  /\ None \notin Confs \cup Slots \cup {"remote", "local"} /\ IsFiniteSet(Slots)
  /\ CAP \in Nat \ {0} /\ MaxCmds \in Nat

VARIABLES
  conf,           \* the tunnel's configuration, None: not complete
  master, enab, auto,   \* rathole.enable, tunnel.1.enable, tunnel.1.auto
  unread,         \* CHANGED, as far as the watcher has not read it
  untold,         \* history: a change of the tunnel the watcher never hears of
  want,           \* WANT_RUN
  reconfig,       \* RECONFIG
  kick,           \* KICK
  connected,      \* CONNECTED
  data_ch,        \* DATA_CH
  mgr,            \* the manager: "wait", "handshake", "select", "fill"
  snap,           \* tcfg, its snapshot
  slots,          \* SLOTS: the slots taken
  filling,        \* the slot of the data channel being connected, or None
  pool,           \* the slot of the standby, or None
  fwd_ch,         \* FWD_CH: slots handed over
  fwd,            \* the forwarder's slot, or None
  pump,           \* its state, see Idle below
  cut,            \* history: a session ended by both ends lost bytes
  leaked,         \* history: slots nobody will free
  cmds

cfgVars  == <<conf, master, enab, auto, unread, untold>>
flagVars == <<want, reconfig, kick>>
mgrVars  == <<connected, mgr, snap, filling, pool>>
fwdVars  == <<fwd_ch, fwd, pump, cut>>
slotVars == <<slots, data_ch, leaked>>
vars == <<cfgVars, flagVars, mgrVars, fwdVars, slotVars, cmds>>

(* remote_open, local_open; dirty: the ends whose socket holds bytes that  *)
(* were written and not yet acknowledged; flush: the end waited for.       *)
Ends  == {"remote", "local"}
Other(e) == IF e = "remote" THEN "local" ELSE "remote"
Idle  == [open |-> {}, dirty |-> {}, flush |-> None, dialled |-> FALSE]

Init ==
  /\ conf \in Confs \cup {None} /\ auto \in BOOLEAN
  /\ master \in BOOLEAN /\ enab \in BOOLEAN
  /\ unread = <<>> /\ untold = FALSE
  /\ want = (master /\ enab /\ auto /\ conf # None)       \* init()
  /\ reconfig = FALSE /\ kick = FALSE
  /\ connected = FALSE /\ mgr = "wait" /\ snap = None
  /\ filling = None /\ pool = None
  /\ slots = {} /\ data_ch = 0 /\ leaked = {}
  /\ fwd_ch = <<>> /\ fwd = None /\ pump = Idle /\ cut = FALSE
  /\ cmds = 0

-----------------------------------------------------------------------------
(* Commands (AT, HTTP, MQTT).                                              *)

Command == cmds < MaxCmds /\ cmds' = cmds + 1

(* cfg::set per topic; any subscriber that lags makes try_publish fail.    *)
Publish(topics) ==
  \E n \in 0..Len(topics) :
    /\ Len(unread) + n <= CAP
    /\ unread' = unread \o SubSeq(topics, 1, n)
    /\ untold' = (untold \/ n < Len(topics))

Configured == conf # None

(* connect().                                                              *)
Connect ==
  /\ Command /\ master /\ enab /\ Configured
  /\ want' = TRUE /\ kick' = TRUE
  /\ UNCHANGED <<reconfig, cfgVars, mgrVars, fwdVars, slotVars>>

(* disconnect().                                                           *)
StopFlags == want' = FALSE /\ reconfig' = TRUE /\ kick' = TRUE

Disconnect ==
  /\ Command /\ StopFlags
  /\ UNCHANGED <<cfgVars, mgrVars, fwdVars, slotVars>>

(* clear(): stop, then seven keys back to their defaults.                  *)
Clear ==
  /\ Command /\ StopFlags
  /\ conf' = None /\ auto' = FALSE /\ enab' = TRUE /\ UNCHANGED master
  /\ Publish([i \in 1..7 |-> IF i = 7 THEN "tunnel.1.enable" ELSE "tunnel.1"])
  /\ UNCHANGED <<mgrVars, fwdVars, slotVars>>

SetConf ==
  /\ Command
  /\ \E c \in Confs \cup {None} : conf' = c
  /\ Publish(<<"tunnel.1">>)
  /\ UNCHANGED <<master, enab, auto, flagVars, mgrVars, fwdVars, slotVars>>

SetAuto ==
  /\ Command /\ auto' \in BOOLEAN
  /\ Publish(<<"tunnel.1">>)
  /\ UNCHANGED <<conf, master, enab, flagVars, mgrVars, fwdVars, slotVars>>

SetEnable ==
  /\ Command /\ enab' \in BOOLEAN
  /\ Publish(<<"tunnel.1.enable">>)
  /\ UNCHANGED <<conf, master, auto, flagVars, mgrVars, fwdVars, slotVars>>

SetMaster ==
  /\ Command /\ master' \in BOOLEAN
  /\ Publish(<<"rathole.enable">>)
  /\ UNCHANGED <<conf, enab, auto, flagVars, mgrVars, fwdVars, slotVars>>

-----------------------------------------------------------------------------
(* watch_task: what a key means for WANT_RUN.                              *)
WantAfter(k) ==
  CASE k = "rathole.enable"  -> master /\ (want \/ (enab /\ auto /\ Configured))
    [] k = "tunnel.1.enable" -> enab /\ (want \/ Configured)
    [] OTHER -> want

Watch ==
  /\ unread # <<>>
  /\ unread' = Tail(unread)
  /\ want' = WantAfter(Head(unread))
  /\ reconfig' = TRUE /\ kick' = TRUE
  /\ UNCHANGED <<conf, master, enab, auto, untold, mgrVars, fwdVars, slotVars, cmds>>

-----------------------------------------------------------------------------
(* Slots.                                                                  *)

Release(s) == slots' = slots \ {s} /\ data_ch' = data_ch - 1 /\ UNCHANGED leaked

(* Faulty: the flags are looked at before the connected phase only.        *)
Stays_Unchecked == TRUE

(* The head of run_connected's loop: stop and reconfigure end the phase.   *)
Stays == want /\ ~reconfig

(* The end of run_connected and what follows it: the standby is dropped.   *)
EndConnected ==
  /\ connected' = FALSE /\ mgr' = "wait" /\ pool' = None
  /\ IF pool = None THEN UNCHANGED slotVars ELSE Release(pool)

(* The next turn of its loop, with the standby kept and without one.       *)
Turn == IF Stays THEN UNCHANGED <<connected, mgr, pool, slotVars>> ELSE EndConnected
TurnBare == IF Stays THEN mgr' = "select" /\ UNCHANGED connected
                     ELSE mgr' = "wait" /\ connected' = FALSE

-----------------------------------------------------------------------------
(* The manager.                                                            *)

(* Parked or backing off: KICK or a timer leads to the head of the loop;   *)
(* without Wi-Fi or heap it waits on.                                      *)
Kicked ==
  /\ mgr = "wait" /\ kick
  /\ kick' = FALSE
  /\ UNCHANGED <<want, reconfig, cfgVars, mgrVars, fwdVars, slotVars, cmds>>

Dial ==
  /\ mgr = "wait" /\ want /\ Configured
  /\ snap' = conf /\ reconfig' = FALSE
  /\ mgr' = "handshake"
  /\ UNCHANGED <<want, kick, connected, filling, pool, cfgVars, fwdVars, slotVars, cmds>>

HandshakeFails ==
  /\ mgr = "handshake"
  /\ mgr' = "wait"
  /\ UNCHANGED <<connected, snap, filling, pool, flagVars, cfgVars, fwdVars, slotVars, cmds>>

(* Faulty: a request to reconfigure during the handshake is forgotten.     *)
HandshakeOk_Forget ==
  /\ mgr = "handshake"
  /\ reconfig' = FALSE
  /\ IF want THEN connected' = TRUE /\ mgr' = "select"
             ELSE connected' = FALSE /\ mgr' = "wait"
  /\ UNCHANGED <<want, kick, snap, filling, pool, cfgVars, fwdVars, slotVars, cmds>>

HandshakeOk ==
  /\ mgr = "handshake"
  /\ IF Stays THEN connected' = TRUE /\ mgr' = "select"
              ELSE connected' = FALSE /\ mgr' = "wait"
  /\ UNCHANGED <<flagVars, snap, filling, pool, cfgVars, fwdVars, slotVars, cmds>>

(* CreateDataChannel without a standby: pool_fill_one takes a slot.  With  *)
(* a standby, no free slot or little heap the request is dropped, like a   *)
(* heartbeat.                                                              *)
CreateDataChannel ==
  /\ mgr = "select" /\ pool = None
  /\ \E s \in Slots \ slots : filling' = s /\ slots' = slots \cup {s}
  /\ mgr' = "fill"
  /\ UNCHANGED <<flagVars, connected, snap, pool, data_ch, leaked, cfgVars, fwdVars, cmds>>

CtlOther ==
  /\ mgr = "select"
  /\ Turn
  /\ UNCHANGED <<flagVars, snap, filling, cfgVars, fwdVars, cmds>>

FillOk ==
  /\ mgr = "fill"
  /\ filling' = None
  /\ IF Stays THEN pool' = filling /\ data_ch' = data_ch + 1 /\ UNCHANGED slots
              ELSE slots' = slots \ {filling} /\ UNCHANGED <<pool, data_ch>>
  /\ TurnBare
  /\ UNCHANGED <<flagVars, snap, leaked, cfgVars, fwdVars, cmds>>

(* The connection or its hello fails: the slot is given back.  The server  *)
(* name cannot be resolved: it is not.                                     *)
FillFails(resolved) ==
  /\ mgr = "fill"
  /\ filling' = None /\ UNCHANGED <<pool, data_ch>>
  /\ IF resolved THEN slots' = slots \ {filling} /\ UNCHANGED leaked
                 ELSE leaked' = leaked \cup {filling} /\ UNCHANGED slots
  /\ TurnBare
  /\ UNCHANGED <<flagVars, snap, cfgVars, fwdVars, cmds>>

(* The standby is culled, fails, or sends something else than a start.     *)
StandbyGone ==
  /\ mgr = "select" /\ pool # None
  /\ Release(pool)
  /\ pool' = None
  /\ TurnBare
  /\ UNCHANGED <<flagVars, snap, filling, cfgVars, fwdVars, cmds>>

(* Faulty: the slot is freed as it is handed over.                         *)
StartForward_Frees(ok) ==
  /\ mgr = "select" /\ pool # None
  /\ pool' = None
  /\ Release(pool)
  /\ fwd_ch' = IF ok THEN Append(fwd_ch, pool) ELSE fwd_ch
  /\ TurnBare
  /\ UNCHANGED <<flagVars, snap, filling, fwd, pump, cut, cfgVars, cmds>>

(* StartForwardTcp: start_forward hands the slot over, or drops it (little *)
(* heap, no usable local address, queue full).                             *)
StartForward(ok) ==
  /\ mgr = "select" /\ pool # None
  /\ pool' = None
  /\ IF ok /\ Len(fwd_ch) < Cardinality(Slots)
     THEN fwd_ch' = Append(fwd_ch, pool) /\ UNCHANGED slotVars
     ELSE Release(pool) /\ UNCHANGED fwd_ch
  /\ TurnBare
  /\ UNCHANGED <<flagVars, snap, filling, fwd, pump, cut, cfgVars, cmds>>

(* The control channel closes, fails or misses its heartbeat.              *)
CtlDown ==
  /\ mgr = "select"
  /\ EndConnected
  /\ UNCHANGED <<flagVars, snap, filling, cfgVars, fwdVars, cmds>>

SelectKick ==
  /\ mgr = "select" /\ kick
  /\ kick' = FALSE
  /\ Turn
  /\ UNCHANGED <<want, reconfig, snap, filling, cfgVars, fwdVars, cmds>>

-----------------------------------------------------------------------------
(* forward_loop.                                                           *)

FwdRest == UNCHANGED <<cfgVars, flagVars, mgrVars, cmds>>

FwdTake ==
  /\ fwd = None /\ fwd_ch # <<>>
  /\ fwd' = Head(fwd_ch) /\ fwd_ch' = Tail(fwd_ch)
  /\ UNCHANGED <<pump, cut, slotVars>> /\ FwdRest

FwdEnd == Release(fwd) /\ fwd' = None /\ pump' = Idle /\ UNCHANGED fwd_ch

FwdDialFails ==
  /\ fwd # None /\ ~pump.dialled
  /\ FwdEnd /\ UNCHANGED cut /\ FwdRest

FwdDial ==
  /\ fwd # None /\ ~pump.dialled
  /\ pump' = [Idle EXCEPT !.open = Ends, !.dialled = TRUE]
  /\ UNCHANGED <<fwd, fwd_ch, cut, slotVars>> /\ FwdRest

(* Bytes read from end e are written to the other one.                     *)
PumpBytes(e) ==
  /\ e \in pump.open /\ pump.flush = None
  /\ pump' = [pump EXCEPT !.dirty = @ \cup {Other(e)}]
  /\ UNCHANGED <<fwd, fwd_ch, cut, slotVars>> /\ FwdRest

(* Faulty: end of file ends the session.                                   *)
PumpEof_DropBoth(e) ==
  /\ e \in pump.open /\ pump.flush = None
  /\ cut' = (cut \/ pump.dirty # {})
  /\ FwdEnd /\ FwdRest

(* End of file at e: the other end is flushed, then closed.                *)
PumpEof(e) ==
  /\ e \in pump.open /\ pump.flush = None
  /\ pump' = [pump EXCEPT !.open = @ \ {e}, !.flush = Other(e)]
  /\ UNCHANGED <<fwd, fwd_ch, cut, slotVars>> /\ FwdRest

(* The flush is over.  The session ends with its second end of file: the   *)
(* sockets are dropped, and what they still hold is lost.                  *)
PumpFlushed ==
  /\ pump.flush # None /\ pump.flush \notin pump.dirty
  /\ IF pump.open = {} THEN FwdEnd /\ cut' = (cut \/ pump.dirty # {})
     ELSE /\ pump' = [pump EXCEPT !.flush = None]
          /\ UNCHANGED <<fwd, fwd_ch, cut, slotVars>>
  /\ FwdRest

(* A read or a write fails.                                                *)
PumpError ==
  /\ pump.dialled /\ pump.flush = None
  /\ FwdEnd /\ UNCHANGED cut /\ FwdRest

(* The peer acknowledges what was written.                                 *)
Acked(e) ==
  /\ e \in pump.dirty
  /\ pump' = [pump EXCEPT !.dirty = @ \ {e}]
  /\ UNCHANGED <<fwd, fwd_ch, cut, slotVars>> /\ FwdRest

-----------------------------------------------------------------------------
Manager == Kicked \/ Dial \/ SelectKick
Server  ==      \* what the server, the network and the timers do
  \/ HandshakeFails \/ HandshakeOk \/ CreateDataChannel \/ CtlOther
  \/ FillOk \/ (\E resolved \in BOOLEAN : FillFails(resolved))
  \/ StandbyGone \/ (\E ok \in BOOLEAN : StartForward(ok)) \/ CtlDown
Forwarder ==
  \/ FwdTake \/ FwdDialFails \/ FwdDial \/ PumpFlushed \/ PumpError
  \/ \E e \in Ends : PumpBytes(e) \/ PumpEof(e) \/ Acked(e)
Commands == Connect \/ Disconnect \/ Clear \/ SetConf \/ SetAuto \/ SetEnable \/ SetMaster

Next == Manager \/ Watch \/ Server \/ Forwarder \/ Commands

(* Every wait of the handshake and of pool_fill_one has a time limit.      *)
Fairness ==
  /\ WF_vars(Manager) /\ WF_vars(Watch)
  /\ WF_vars(HandshakeFails \/ HandshakeOk)
  /\ WF_vars(FillOk \/ \E resolved \in BOOLEAN : FillFails(resolved))

Spec == Init /\ [][Next]_vars /\ Fairness

-----------------------------------------------------------------------------
Keys == {"rathole.enable", "tunnel.1.enable", "tunnel.1"}

TypeOK ==
  /\ conf \in Confs \cup {None} /\ snap \in Confs \cup {None}
  /\ master \in BOOLEAN /\ enab \in BOOLEAN /\ auto \in BOOLEAN /\ untold \in BOOLEAN
  /\ want \in BOOLEAN /\ reconfig \in BOOLEAN /\ kick \in BOOLEAN /\ cut \in BOOLEAN
  /\ unread \in Seq(Keys) /\ Len(unread) <= CAP
  /\ slots \subseteq Slots /\ leaked \subseteq slots
  /\ data_ch \in 0..Cardinality(Slots)
  /\ mgr \in {"wait", "handshake", "select", "fill"}
  /\ connected \in BOOLEAN /\ (connected <=> mgr \in {"select", "fill"})
  /\ {filling, pool, fwd} \subseteq Slots \cup {None} /\ fwd_ch \in Seq(Slots)
  /\ pump \in [open : SUBSET Ends, dirty : SUBSET Ends,
                flush : Ends \cup {None}, dialled : BOOLEAN]
  /\ cmds \in 0..MaxCmds

Queued == {fwd_ch[i] : i \in DOMAIN fwd_ch}
Held   == {pool, fwd, filling} \ {None}

(* A slot that is taken has one owner (the manager, FWD_CH or the          *)
(* forwarder) unless it is lost for good, and data_channels counts the     *)
(* connected ones.                                                         *)
SlotOwned ==
  /\ slots = Held \cup Queued \cup leaked
  /\ Cardinality(slots) = Len(fwd_ch) + Cardinality(leaked)
       + Cardinality({x \in {<<1, pool>>, <<2, fwd>>, <<3, filling>>} : x[2] # None})
  /\ data_ch = Cardinality((Held \cup Queued) \ {filling})

(* rathole.rs "Config changed while running: tear down and reconnect": a   *)
(* channel on an old configuration is about to be torn down, unless the    *)
(* change was not published.                                               *)
TunnelConf ==
  connected /\ snap # conf => reconfig \/ unread # <<>> \/ untold

(* Stop and the tunnel's own switch take the tunnel down, unless the       *)
(* change was not published.                                               *)
StopHonoured == ~want \/ ~enab ~> (want /\ enab) \/ ~connected \/ untold

(* rathole.rs "proper half-close": a session both ends have finished loses *)
(* nothing.                                                                *)
NothingCut == ~cut

-----------------------------------------------------------------------------
(* What the source's own words say and TLC refutes; see the README.        *)

(* API.md "`master` or `enabled` off makes connect refused": with the      *)
(* master switch off, and the watcher told, the tunnel does not run.       *)
MasterOff == want /\ ~master => untold \/ unread # <<>>
=============================================================================
