------------------------------- MODULE Dongle -------------------------------
(***************************************************************************)
(* The receiver role (ble_dongle.c): a BLE central that scans, connects to *)
(* a keyboard, discovers its HID service, subscribes to its reports and    *)
(* reconnects to the bonded keyboard by itself.                            *)
(*                                                                         *)
(* AT commands, GAP callbacks, GATT messages and TMOS events are handlers  *)
(* that run one at a time, one action each.  The task serves its pending   *)
(* events in the order of dgl_process_event; commands and callbacks of     *)
(* other tasks come in between.  The BLE stack is external: `gap' and      *)
(* `att' say what it is doing and has been asked.                          *)
(***************************************************************************)
EXTENDS Naturals, Sequences, SequencesExt

CONSTANTS
  Devs,                \* the keyboards in range
  None,                \* no device, no index, no handle
  DGL_MAX_SCAN_RES,    \* capacity of the scan list
  DGL_MAX_CCCD,        \* capacity of the CCCD queue
  DGL_AUTO_MAX_FAILS,  \* failed cycles before auto-reconnect is held
  DiscRetries,         \* discovery attempts after the first (2 in the code)
  Cmds                 \* bound: the AT commands the user gives

ASSUME DevsAssumption == None \notin Devs /\ None \notin Nat
ASSUME SizesAssumption ==
  /\ DGL_MAX_SCAN_RES \in Nat \ {0} /\ DGL_MAX_CCCD \in Nat \ {0}
  /\ DGL_AUTO_MAX_FAILS \in Nat \ {0} /\ DiscRetries \in Nat
ASSUME CmdsAssumption ==
  Cmds \subseteq {"scan", "watch", "index", "disc", "pair", "auto", "batt"}

VARIABLES
  dgl_state,
  dgl_conn_handle,    \* the device whose link is up, or None
  dgl_scan_list,      \* strongest first
  dgl_pend_scan,      \* dgl_pend_scan_sec >= 0
  dgl_pend_conn,      \* dgl_pend_conn_idx (from 1), or None
  dgl_watch,          \* the device a watch connect waits for, or None
  dgl_auto, dgl_auto_hold, dgl_auto_fails,
  bond,               \* the bond record 0 in SNV, or None
  evts,               \* pending events of the dongle task
  timers,             \* its running timers
  gap,                \* the stack: "idle", "scan", "init", "cancel", "up" or "closing"
  peer,               \* the device of "init", "cancel", "up" and "closing"
  dgl_disc_state, dgl_disc_retries,
  boot, proto,        \* dgl_boot_hdl and dgl_proto_hdl are known
  dgl_cccd_count, dgl_cccd_wr, dgl_proto_pending,
  batt,               \* dgl_batt_hdl is known
  dgl_batt_reading,
  att,                \* outstanding ATT requests
  enabled,            \* history: CCCDs the keyboard accepted
  want,               \* history: the device the last connect request named
  attempts            \* history: auto attempts since a command or an armed link

listVars == <<dgl_scan_list, dgl_pend_scan, dgl_pend_conn, dgl_watch>>
scanVars == <<listVars, want>>
autoVars == <<dgl_auto, dgl_auto_hold, dgl_auto_fails>>
taskVars == <<evts, timers>>
gapVars  == <<gap, peer>>
charVars == <<boot, proto, dgl_cccd_count, dgl_cccd_wr, dgl_proto_pending, batt, enabled>>
gattVars == <<dgl_disc_state, dgl_disc_retries, charVars, dgl_batt_reading, att>>
vars == <<dgl_state, dgl_conn_handle, bond, scanVars, autoVars, taskVars, gapVars,
          gattVars, attempts>>

(* The events in the order dgl_process_event looks for them.               *)
Order == <<"SVC_DISC", "AUTO", "LINK_TIMEOUT", "SCAN", "CONN">>

Serve(e) ==
  /\ e \in evts
  /\ \A i \in DOMAIN Order : Order[i] \in evts => \E j \in 1..i : Order[j] = e

-----------------------------------------------------------------------------
(* AT commands (the backends of at_cmds.c's *_dgl handlers).               *)
Scan ==
  /\ dgl_pend_scan' = TRUE
  /\ evts' = evts \cup {"SCAN"}

BtScan ==
  /\ "scan" \in Cmds
  /\ dgl_state = "IDLE"
  /\ Scan
  /\ attempts' = 0
  /\ UNCHANGED <<dgl_state, dgl_conn_handle, bond, dgl_scan_list, dgl_pend_conn, dgl_watch,
                 want, autoVars, timers, gapVars, gattVars>>

BtConnWatch(d) ==
  /\ "watch" \in Cmds
  /\ dgl_state = "IDLE" /\ dgl_watch = None
  /\ dgl_watch' = d
  /\ Scan
  /\ attempts' = 0
  /\ UNCHANGED <<dgl_state, dgl_conn_handle, bond, dgl_scan_list, dgl_pend_conn, want,
                 autoVars, timers, gapVars, gattVars>>

BtConnIndex(i) ==
  /\ "index" \in Cmds
  /\ dgl_state = "IDLE" /\ i \in DOMAIN dgl_scan_list
  /\ dgl_pend_conn' = i
  /\ want' = dgl_scan_list[i]
  /\ evts' = evts \cup {"CONN"}
  /\ attempts' = 0
  /\ UNCHANGED <<dgl_state, dgl_conn_handle, bond, dgl_scan_list, dgl_pend_scan, dgl_watch,
                 autoVars, timers, gapVars, gattVars>>

(* ble_dongle_disconnect: abort the pending establish, or end the link;    *)
(* hold auto-reconnect.                                                    *)
Disconnect ==
  \/ /\ dgl_state = "AUTOCONN"
     /\ dgl_auto_hold' = TRUE
     /\ evts' = evts \cup {"AUTO"}
     /\ UNCHANGED gap
  \/ /\ dgl_state # "AUTOCONN" /\ dgl_conn_handle # None
     /\ dgl_auto_hold' = TRUE
     /\ gap' = "closing"
     /\ UNCHANGED evts

BtDisc ==
  /\ "disc" \in Cmds
  /\ Disconnect
  /\ attempts' = 0
  /\ UNCHANGED <<dgl_state, dgl_conn_handle, bond, scanVars, dgl_auto, dgl_auto_fails, timers,
                 peer, gattVars>>

(* AT+BT_PAIR: disconnect, then erase every bond.                          *)
BtPair ==
  /\ "pair" \in Cmds
  /\ \/ Disconnect
     \/ /\ dgl_state # "AUTOCONN" /\ dgl_conn_handle = None
        /\ UNCHANGED <<dgl_auto_hold, evts, gap>>
  /\ dgl_auto_fails' = 0
  /\ bond' = None
  /\ attempts' = 0
  /\ UNCHANGED <<dgl_state, dgl_conn_handle, scanVars, dgl_auto, timers, peer, gattVars>>

BtAuto(on) ==
  /\ "auto" \in Cmds
  /\ dgl_auto' = on
  /\ dgl_auto_hold' = (dgl_auto_hold /\ ~on)
  /\ evts' = evts \cup {"AUTO"}
  /\ attempts' = 0
  /\ UNCHANGED <<dgl_state, dgl_conn_handle, bond, scanVars, dgl_auto_fails, timers, gapVars,
                 gattVars>>

(* AT+BT_BATT: start a read.  The stack refuses it while a request is      *)
(* outstanding; the command then answers an error and changes nothing.     *)
BtBatt ==
  /\ "batt" \in Cmds
  /\ dgl_state = "ARMED" /\ batt /\ ~dgl_batt_reading
  /\ att = <<>>
  /\ dgl_batt_reading' = TRUE
  /\ att' = Append(att, "read")
  /\ UNCHANGED <<dgl_state, dgl_conn_handle, bond, scanVars, autoVars, taskVars, gapVars,
                 dgl_disc_state, dgl_disc_retries, charVars, attempts>>

-----------------------------------------------------------------------------
(* Link state shared by both directions.                                   *)
ResetLinkState ==
  /\ dgl_disc_state' = "IDLE"
  /\ boot' = FALSE /\ proto' = FALSE
  /\ dgl_cccd_count' = 0 /\ dgl_cccd_wr' = 0 /\ dgl_proto_pending' = FALSE
  /\ batt' = FALSE /\ dgl_batt_reading' = FALSE
  /\ att' = <<>>
  /\ enabled' = 0

(* The named device matters until its establish is over.                   *)
Over == want' = IF dgl_pend_conn = None THEN None ELSE want

(* Faulty: the limit is off by one; giving up forgets to hold.            *)
AutoFailCount_OffByOne ==
  IF dgl_auto_fails + 1 > DGL_AUTO_MAX_FAILS
  THEN dgl_auto_fails' = 0 /\ dgl_auto_hold' = TRUE
  ELSE dgl_auto_fails' = dgl_auto_fails + 1 /\ UNCHANGED dgl_auto_hold

AutoFailCount_NoHold ==
  /\ dgl_auto_fails' = IF dgl_auto_fails + 1 >= DGL_AUTO_MAX_FAILS THEN 0 ELSE dgl_auto_fails + 1
  /\ UNCHANGED dgl_auto_hold

(* dgl_auto_fail_count: at the limit, start over and hold.                 *)
AutoFailCount ==
  IF dgl_auto_fails + 1 >= DGL_AUTO_MAX_FAILS
  THEN dgl_auto_fails' = 0 /\ dgl_auto_hold' = TRUE
  ELSE dgl_auto_fails' = dgl_auto_fails + 1 /\ UNCHANGED dgl_auto_hold

-----------------------------------------------------------------------------
(* TMOS events of the dongle task.                                         *)
Fires(e) ==
  /\ e \in timers
  /\ timers' = timers \ {e}
  /\ evts' = evts \cup {e}
  /\ UNCHANGED <<dgl_state, dgl_conn_handle, bond, scanVars, autoVars, gapVars, gattVars, attempts>>

(* GAPRole_TerminateLink(INVALID_CONNHANDLE): cancel an establish, if one  *)
(* is running.                                                             *)
CancelEstablish == gap' = IF gap = "init" THEN "cancel" ELSE gap

AutoAbort ==
  /\ dgl_state = "AUTOCONN" /\ (~dgl_auto \/ dgl_auto_hold)
  /\ CancelEstablish
  /\ dgl_state' = "IDLE"
  /\ UNCHANGED <<timers, peer, attempts>>

(* dgl_auto_kick: nothing to do; the record cannot be read or the stack is *)
(* busy: retry later; or the establish starts.                             *)
MayKick == dgl_auto /\ ~dgl_auto_hold /\ bond # None /\ dgl_state = "IDLE"

AutoNothing ==
  /\ ~(dgl_state = "AUTOCONN" /\ (~dgl_auto \/ dgl_auto_hold)) /\ ~MayKick
  /\ UNCHANGED <<dgl_state, timers, gapVars, attempts>>

AutoRetry ==
  /\ MayKick
  /\ timers' = timers \cup {"AUTO"}
  /\ UNCHANGED <<dgl_state, gapVars, attempts>>

AutoEstablish ==
  /\ MayKick /\ gap = "idle"
  /\ gap' = "init" /\ peer' = bond
  /\ dgl_state' = "AUTOCONN"
  /\ attempts' = attempts + 1
  /\ UNCHANGED timers

AutoEvt ==
  /\ Serve("AUTO")
  /\ evts' = evts \ {"AUTO"}
  /\ AutoAbort \/ AutoNothing \/ AutoRetry \/ AutoEstablish
  /\ UNCHANGED <<dgl_conn_handle, bond, scanVars, autoVars, gattVars>>

(* Faulty: the watchdog does not ask whether the connect is still running. *)
WatchdogBites_Always == TRUE

WatchdogBites == dgl_state = "CONNECTING"

LinkTimeoutEvt ==
  /\ Serve("LINK_TIMEOUT")
  /\ evts' = evts \ {"LINK_TIMEOUT"}
  /\ IF WatchdogBites THEN CancelEstablish /\ dgl_state' = "IDLE"
                      ELSE UNCHANGED <<gap, dgl_state>>
  /\ UNCHANGED <<dgl_conn_handle, bond, scanVars, autoVars, timers, peer, gattVars,
                 attempts>>

(* GAPRole_CentralStartDiscovery may refuse, even when idle (no memory, a  *)
(* bad parameter): its status is printed and ignored.                      *)
ScanEvt ==
  /\ Serve("SCAN")
  /\ evts' = evts \ {"SCAN"}
  /\ dgl_pend_scan' = FALSE
  /\ IF dgl_state = "IDLE" /\ dgl_pend_scan
     THEN /\ dgl_scan_list' = <<>>
          /\ dgl_state' = "SCANNING"
          /\ gap' = gap \/ (gap = "idle" /\ gap' = "scan")
     ELSE UNCHANGED <<dgl_scan_list, dgl_state, gap>>
  /\ UNCHANGED <<dgl_conn_handle, bond, dgl_pend_conn, dgl_watch, want, autoVars, timers, peer, gattVars, attempts>>

(* Faulty: no watchdog.                                                    *)
StartWatchdog_Not == UNCHANGED timers

StartWatchdog == timers' = timers \cup {"LINK_TIMEOUT"}

(* So is that of GAPRole_CentralEstablishLink; the watchdog covers it.     *)
ConnEvt ==
  /\ Serve("CONN")
  /\ evts' = evts \ {"CONN"}
  /\ dgl_pend_conn' = None
  /\ IF dgl_state = "IDLE" /\ dgl_pend_conn # None /\ dgl_pend_conn \in DOMAIN dgl_scan_list
     THEN /\ dgl_state' = "CONNECTING"
          /\ StartWatchdog
          /\ attempts' = 0
          /\ UNCHANGED want
          /\ \/ /\ gap = "idle" /\ gap' = "init"
                /\ peer' = dgl_scan_list[dgl_pend_conn]
             \/ UNCHANGED gapVars
     ELSE want' = None /\ UNCHANGED <<dgl_state, timers, gapVars, attempts>>
  /\ UNCHANGED <<dgl_conn_handle, bond, dgl_scan_list, dgl_pend_scan, dgl_watch, autoVars,
                 gattVars>>

-----------------------------------------------------------------------------
(* GAP callbacks (dgl_event_cb).                                           *)

(* Faulty: a hit is taken to be the newest entry, at the end of the list.  *)
WatchHit_Tail(d, pos) ==
  /\ dgl_watch' = None
  /\ gap' = "idle"
  /\ dgl_state' = "IDLE"
  /\ dgl_pend_conn' = Len(dgl_scan_list')
  /\ want' = d
  /\ evts' = evts \cup {"CONN"}

(* The device a watch waits for, now at pos, stops the scan and is         *)
(* connected to.                                                           *)
WatchHit(d, pos) ==
  /\ dgl_watch' = None
  /\ gap' = "idle"
  /\ dgl_state' = "IDLE"
  /\ dgl_pend_conn' = pos
  /\ want' = d
  /\ evts' = evts \cup {"CONN"}

(* GAP_DEVICE_INFO_EVENT: a record that passes the filters is inserted by  *)
(* signal strength, here at any place; a full list loses its tail.         *)
DeviceInfo(d, pos) ==
  /\ gap = "scan" /\ dgl_state = "SCANNING"
  /\ ~Contains(dgl_scan_list, d)
  /\ pos \in 1..(Len(dgl_scan_list) + 1) /\ pos <= DGL_MAX_SCAN_RES
  /\ LET all == InsertAt(dgl_scan_list, pos, d)
     IN  dgl_scan_list' = SubSeq(all, 1, IF Len(all) > DGL_MAX_SCAN_RES
                                         THEN DGL_MAX_SCAN_RES ELSE Len(all))
  /\ IF dgl_watch = d
     THEN WatchHit(d, pos)
     ELSE UNCHANGED <<dgl_watch, gap, dgl_state, dgl_pend_conn, want, evts>>
  /\ UNCHANGED <<dgl_conn_handle, bond, dgl_pend_scan, autoVars, timers, peer, gattVars,
                 attempts>>

(* GAP_DIRECT_DEVICE_INFO_EVENT: appended unless listed or full; a watch   *)
(* is not consulted.                                                       *)
DirectDeviceInfo(d) ==
  /\ gap = "scan" /\ dgl_state = "SCANNING"
  /\ ~Contains(dgl_scan_list, d) /\ Len(dgl_scan_list) < DGL_MAX_SCAN_RES
  /\ dgl_scan_list' = Append(dgl_scan_list, d)
  /\ UNCHANGED <<dgl_state, dgl_conn_handle, bond, dgl_pend_scan, dgl_pend_conn, dgl_watch, want,
                 autoVars, taskVars, gapVars, gattVars, attempts>>

(* The scan window of a second or more is over; by then TMOS has served    *)
(* what was pending when it began.                                         *)
DiscoveryDone ==
  /\ gap = "scan" /\ evts = {}
  /\ gap' = "idle"
  /\ dgl_watch' = None
  /\ dgl_state' = IF dgl_state = "SCANNING" THEN "IDLE" ELSE dgl_state
  /\ UNCHANGED <<dgl_conn_handle, bond, dgl_scan_list, dgl_pend_scan, dgl_pend_conn, want,
                 autoVars, taskVars, peer, gattVars, attempts>>

(* GAP_LINK_ESTABLISHED_EVENT.  A cancelled establish may still succeed.   *)
LinkEstablished ==
  /\ gap \in {"init", "cancel"}
  /\ gap' = "up"
  /\ ResetLinkState
  /\ dgl_conn_handle' = peer
  /\ dgl_state' = "CONNECTED"
  /\ dgl_auto_hold' = FALSE
  /\ dgl_disc_retries' = DiscRetries
  /\ timers' = (timers \ {"LINK_TIMEOUT"}) \cup {"SVC_DISC"}
  /\ Over
  /\ UNCHANGED <<bond, listVars, dgl_auto, dgl_auto_fails, evts, peer, attempts>>

LinkFailed ==
  /\ gap \in {"init", "cancel"}
  /\ gap' = "idle" /\ peer' = None
  /\ ResetLinkState
  /\ dgl_disc_retries' = 0
  /\ dgl_conn_handle' = None
  /\ dgl_state' = "IDLE"
  /\ AutoFailCount
  /\ timers' = (timers \ {"LINK_TIMEOUT"}) \cup {"AUTO"}
  /\ Over
  /\ UNCHANGED <<bond, listVars, dgl_auto, evts, attempts>>

LinkTerminated ==
  /\ gap \in {"up", "closing"}
  /\ gap' = "idle" /\ peer' = None
  /\ ResetLinkState
  /\ dgl_disc_retries' = 0
  /\ dgl_conn_handle' = None
  /\ dgl_state' = "IDLE"
  /\ IF dgl_state # "ARMED" THEN AutoFailCount ELSE UNCHANGED <<dgl_auto_fails, dgl_auto_hold>>
  /\ evts' = evts \cup {"AUTO"}
  /\ UNCHANGED <<bond, scanVars, dgl_auto, timers, attempts>>

(* dgl_pair_state_cb with success: discovery may start again.              *)
PairDone ==
  /\ gap = "up"
  /\ bond' = IF bond = None THEN peer ELSE bond
  /\ evts' = IF dgl_state = "CONNECTED" THEN evts \cup {"SVC_DISC"} ELSE evts
  /\ UNCHANGED <<dgl_state, dgl_conn_handle, scanVars, autoVars, timers, gapVars, gattVars,
                 attempts>>

-----------------------------------------------------------------------------
(* GATT discovery.  A request may fail to start (blePending, no buffer):   *)
(* only dgl_start_svc_discovery looks at that.                             *)
Ask(req) == att' = Append(Tail(att), req) \/ att' = Tail(att)

FindChar(next) == dgl_disc_state' = next /\ Ask("disc") /\ UNCHANGED taskVars

(* dgl_discovery_failed: retry in a second while the budget lasts.         *)
DiscoveryFailed ==
  /\ dgl_disc_state' = "IDLE"
  /\ IF dgl_disc_retries > 0 /\ dgl_state = "CONNECTED"
     THEN /\ dgl_disc_retries' = dgl_disc_retries - 1
          /\ timers' = timers \cup {"SVC_DISC"}
     ELSE UNCHANGED <<dgl_disc_retries, timers>>

(* Faulty: the guard of the comment "don't restart discovery mid-flight"   *)
(* is missing.                                                             *)
MayDiscover_MidFlight == dgl_state = "CONNECTED"

MayDiscover == dgl_state = "CONNECTED" /\ dgl_disc_state = "IDLE"

SvcDiscEvt ==
  /\ Serve("SVC_DISC")
  /\ evts' = evts \ {"SVC_DISC"}
  /\ IF MayDiscover
     THEN /\ boot' = FALSE /\ proto' = FALSE
          /\ \/ /\ dgl_disc_state' = "SVC"
                /\ att' = Append(att, "disc")
                /\ UNCHANGED <<dgl_disc_retries, timers>>
             \/ DiscoveryFailed /\ UNCHANGED att
     ELSE UNCHANGED <<boot, proto, dgl_disc_state, att, dgl_disc_retries, timers>>
  /\ UNCHANGED <<dgl_state, dgl_conn_handle, bond, scanVars, autoVars, gapVars, dgl_cccd_count,
                 dgl_cccd_wr, dgl_proto_pending, batt, enabled, dgl_batt_reading, attempts>>

(* A GATT message of the running discovery (dgl_discovery_event).          *)
Answer(st) == att # <<>> /\ Head(att) = "disc" /\ dgl_disc_state = st

DiscUnchanged ==
  UNCHANGED <<dgl_state, dgl_conn_handle, bond, scanVars, autoVars, evts, gapVars,
              dgl_batt_reading, enabled, attempts>>

SvcRsp(found) ==
  /\ Answer("SVC")
  /\ IF found THEN FindChar("BOOT_CHAR") /\ UNCHANGED dgl_disc_retries
              ELSE DiscoveryFailed /\ att' = Tail(att)
  /\ UNCHANGED <<boot, proto, dgl_cccd_count, dgl_cccd_wr, dgl_proto_pending, batt>>
  /\ DiscUnchanged

BootCharRsp(found) ==
  /\ Answer("BOOT_CHAR")
  /\ boot' = found
  /\ FindChar(IF found THEN "PROTO_CHAR" ELSE "RPT_CHAR")
  /\ UNCHANGED <<dgl_disc_retries, proto, dgl_cccd_count, dgl_cccd_wr, dgl_proto_pending, batt>>
  /\ DiscUnchanged

ProtoCharRsp(found) ==
  /\ Answer("PROTO_CHAR")
  /\ proto' = found
  /\ dgl_cccd_count' = 0
  /\ FindChar("CCCD")
  /\ UNCHANGED <<dgl_disc_retries, boot, dgl_cccd_wr, dgl_proto_pending, batt>>
  /\ DiscUnchanged

RptCharRsp(found) ==
  /\ Answer("RPT_CHAR")
  /\ IF found THEN FindChar("CCCD") /\ dgl_cccd_count' = 0 /\ UNCHANGED dgl_disc_retries
              ELSE DiscoveryFailed /\ att' = Tail(att) /\ UNCHANGED dgl_cccd_count
  /\ UNCHANGED <<boot, proto, dgl_cccd_wr, dgl_proto_pending, batt>>
  /\ DiscUnchanged

(* The usable CCCDs, one at most in boot mode, come in a response packet   *)
(* with more to follow, or with the end of the procedure.  (An ERROR_RSP   *)
(* that ends it after a packet is taken for an answer to a write below.)   *)
CccdRoom == (IF boot THEN 1 ELSE DGL_MAX_CCCD)

CccdPacket(n) ==
  /\ Answer("CCCD") /\ dgl_cccd_count < n /\ n <= CccdRoom
  /\ dgl_cccd_count' = n
  /\ UNCHANGED <<dgl_disc_state, dgl_disc_retries, timers, att, boot, proto, dgl_cccd_wr,
                 dgl_proto_pending, batt>>
  /\ DiscUnchanged

CccdRsp(n) ==
  /\ Answer("CCCD") /\ dgl_cccd_count <= n /\ n <= CccdRoom
  /\ dgl_cccd_count' = n
  /\ IF n > 0
     THEN /\ dgl_cccd_wr' = 0
          /\ dgl_proto_pending' = (dgl_proto_pending \/ (boot /\ proto))
          /\ Ask("write")
          /\ UNCHANGED <<dgl_disc_state, dgl_disc_retries, timers>>
     ELSE DiscoveryFailed /\ att' = Tail(att) /\ UNCHANGED <<dgl_cccd_wr, dgl_proto_pending>>
  /\ UNCHANGED <<boot, proto, batt>>
  /\ DiscUnchanged

(* ATT_ERR_INSUFFICIENT_AUTHEN parks discovery until pairing restarts it.  *)
InsufficientAuthen ==
  /\ att # <<>> /\ Head(att) = "disc"
  /\ ~(dgl_cccd_count > 0 /\ dgl_disc_state = "CCCD")
  /\ dgl_disc_state' = "IDLE"
  /\ att' = Tail(att)
  /\ UNCHANGED <<dgl_disc_retries, timers, boot, proto, dgl_cccd_count, dgl_cccd_wr,
                 dgl_proto_pending, batt>>
  /\ DiscUnchanged

(* ATT_WRITE_RSP, or ATT_ERROR_RSP, while CCCDs are being written:         *)
(* dgl_cccd_write_next either way.  After the last one the link is armed   *)
(* and the battery service is looked for.                                  *)
WriteRsp(ok) ==
  /\ att # <<>> /\ (Head(att) = "write" \/ (Head(att) = "disc" /\ ~ok))
  /\ dgl_cccd_count > 0 /\ dgl_disc_state = "CCCD"
  /\ enabled' = IF ok /\ ~dgl_proto_pending THEN enabled + 1 ELSE enabled
  /\ dgl_proto_pending' = FALSE
  /\ dgl_cccd_wr' = IF dgl_proto_pending THEN dgl_cccd_wr ELSE dgl_cccd_wr + 1
  /\ IF dgl_cccd_wr' < dgl_cccd_count
     THEN /\ Ask("write")
          /\ UNCHANGED <<dgl_state, dgl_disc_state, dgl_auto_fails, attempts>>
     ELSE /\ dgl_state' = "ARMED"
          /\ dgl_disc_state' = "BATT_SVC"
          /\ dgl_auto_fails' = 0
          /\ attempts' = 0
          /\ Ask("disc")
  /\ UNCHANGED <<dgl_conn_handle, bond, scanVars, dgl_auto, dgl_auto_hold, taskVars, gapVars,
                 dgl_disc_retries, boot, proto, dgl_cccd_count, batt, dgl_batt_reading>>

(* dgl_svc_start and dgl_svc_end still hold the HID service here: found or *)
(* not, the search for the level goes on (without a battery service in the *)
(* HID range), and the branch for a peer without the service is not taken. *)
BattSvcRsp ==
  /\ Answer("BATT_SVC")
  /\ FindChar("BATT_CHAR")
  /\ UNCHANGED <<dgl_disc_retries, boot, proto, dgl_cccd_count, dgl_cccd_wr, dgl_proto_pending, batt>>
  /\ DiscUnchanged

(* The handle is in force with its packet, before the procedure ends.      *)
BattCharPacket ==
  /\ Answer("BATT_CHAR") /\ ~batt
  /\ batt' = TRUE
  /\ UNCHANGED <<dgl_disc_state, dgl_disc_retries, timers, att, boot, proto, dgl_cccd_count,
                 dgl_cccd_wr, dgl_proto_pending>>
  /\ DiscUnchanged

BattCharRsp(found) ==
  /\ Answer("BATT_CHAR")
  /\ batt' = (batt \/ found)
  /\ dgl_disc_state' = "IDLE"
  /\ att' = Tail(att)
  /\ UNCHANGED <<dgl_disc_retries, timers, boot, proto, dgl_cccd_count, dgl_cccd_wr, dgl_proto_pending>>
  /\ DiscUnchanged

(* ATT_READ_RSP or ATT_ERROR_RSP of AT+BT_BATT.                            *)
BattReadRsp ==
  /\ att # <<>> /\ Head(att) = "read"
  /\ dgl_batt_reading' = FALSE
  /\ att' = Tail(att)
  /\ UNCHANGED <<dgl_state, dgl_conn_handle, bond, scanVars, autoVars, taskVars, gapVars,
                 dgl_disc_state, dgl_disc_retries, charVars, attempts>>

-----------------------------------------------------------------------------
(* Central ready: GAP_DEVICE_INIT_DONE_EVENT has started the AUTO timer.   *)
Init ==
  /\ dgl_state = "IDLE" /\ dgl_conn_handle = None
  /\ dgl_scan_list = <<>> /\ dgl_pend_scan = FALSE /\ dgl_pend_conn = None /\ dgl_watch = None
  /\ dgl_auto = TRUE /\ dgl_auto_hold = FALSE /\ dgl_auto_fails = 0
  /\ bond \in Devs \cup {None}
  /\ evts = {} /\ timers = {"AUTO"}
  /\ gap = "idle" /\ peer = None
  /\ dgl_disc_state = "IDLE" /\ dgl_disc_retries = 0
  /\ boot = FALSE /\ proto = FALSE
  /\ dgl_cccd_count = 0 /\ dgl_cccd_wr = 0 /\ dgl_proto_pending = FALSE
  /\ batt = FALSE /\ dgl_batt_reading = FALSE
  /\ att = <<>>
  /\ enabled = 0 /\ want = None /\ attempts = 0

AtCmd ==
  \/ BtScan \/ BtDisc \/ BtPair \/ BtBatt
  \/ \E on \in BOOLEAN : BtAuto(on)
  \/ \E i \in 1..DGL_MAX_SCAN_RES : BtConnIndex(i)
  \/ \E d \in Devs : BtConnWatch(d)

TaskEvent == SvcDiscEvt \/ AutoEvt \/ LinkTimeoutEvt \/ ScanEvt \/ ConnEvt

GapEvent ==
  \/ \E d \in Devs : \/ DirectDeviceInfo(d)
                     \/ \E pos \in 1..DGL_MAX_SCAN_RES : DeviceInfo(d, pos)
  \/ DiscoveryDone \/ LinkEstablished \/ LinkFailed \/ LinkTerminated \/ PairDone

GattMsg ==
  \/ \E found \in BOOLEAN : \/ SvcRsp(found) \/ BootCharRsp(found) \/ ProtoCharRsp(found)
                            \/ RptCharRsp(found) \/ BattCharRsp(found)
                            \/ WriteRsp(found)
  \/ \E n \in 0..DGL_MAX_CCCD : CccdPacket(n) \/ CccdRsp(n)
  \/ InsufficientAuthen \/ BattSvcRsp \/ BattCharPacket \/ BattReadRsp

Next == AtCmd \/ TaskEvent \/ GapEvent \/ GattMsg \/ \E e \in timers : Fires(e)

(* A pending event is served and a running timer fires, however often AT   *)
(* commands come in between (the scheduler empties the task's events in    *)
(* much less than a command takes to arrive); a scan window ends, and a    *)
(* cancelled establish is reported.                                        *)
Fairness ==
  /\ WF_vars(SvcDiscEvt) /\ SF_vars(AutoEvt) /\ SF_vars(LinkTimeoutEvt)
  /\ SF_vars(ScanEvt) /\ SF_vars(ConnEvt)
  /\ WF_vars(Fires("LINK_TIMEOUT"))
  /\ SF_vars(DiscoveryDone)
  /\ WF_vars(gap = "cancel" /\ LinkFailed)

Spec == Init /\ [][Next]_vars /\ Fairness

-----------------------------------------------------------------------------
DevOrNone == Devs \cup {None}

TypeOK ==
  /\ dgl_state \in {"IDLE", "SCANNING", "CONNECTING", "CONNECTED", "ARMED", "AUTOCONN"}
  /\ dgl_conn_handle \in DevOrNone
  /\ dgl_scan_list \in Seq(Devs) /\ Len(dgl_scan_list) <= DGL_MAX_SCAN_RES
  /\ dgl_pend_scan \in BOOLEAN
  /\ dgl_pend_conn \in (1..DGL_MAX_SCAN_RES) \cup {None}
  /\ dgl_watch \in DevOrNone
  /\ dgl_auto \in BOOLEAN /\ dgl_auto_hold \in BOOLEAN
  /\ dgl_auto_fails \in 0..(DGL_AUTO_MAX_FAILS - 1)
  /\ bond \in DevOrNone
  /\ evts \in SUBSET {"SVC_DISC", "AUTO", "LINK_TIMEOUT", "SCAN", "CONN"}
  /\ timers \in SUBSET {"SVC_DISC", "AUTO", "LINK_TIMEOUT"}
  /\ gap \in {"idle", "scan", "init", "cancel", "up", "closing"}
  /\ peer \in DevOrNone
  /\ dgl_disc_state \in {"IDLE", "SVC", "BOOT_CHAR", "PROTO_CHAR", "RPT_CHAR", "CCCD",
                         "BATT_SVC", "BATT_CHAR"}
  /\ dgl_disc_retries \in 0..DiscRetries
  /\ boot \in BOOLEAN /\ proto \in BOOLEAN
  /\ dgl_cccd_count \in 0..DGL_MAX_CCCD /\ dgl_cccd_wr \in 0..DGL_MAX_CCCD
  /\ dgl_proto_pending \in BOOLEAN /\ batt \in BOOLEAN /\ dgl_batt_reading \in BOOLEAN
  /\ att \in Seq({"disc", "write", "read"})
  /\ enabled \in Nat /\ attempts \in Nat
  /\ want \in DevOrNone

(* The dongle knows its link: it believes in a link, and holds its handle, *)
(* exactly while the stack has one - whatever watchdogs, aborts, late and  *)
(* failed establishes crossed on the way (dgl_event_cb, LINK_TIMEOUT).     *)
LinkKnown ==
  /\ dgl_state \in {"CONNECTED", "ARMED"} <=> gap \in {"up", "closing"}
  /\ dgl_conn_handle = IF gap \in {"up", "closing"} THEN peer ELSE None

(* AT+BT_CONN reaches the keyboard it named: the scan-list index that      *)
(* travels to the dongle task never names another device when it is used,  *)
(* though scans rebuild and re-sort the list.                              *)
ConnectsToNamed == dgl_state = "CONNECTING" /\ gap = "init" => peer = want

(* No reconnect storm: without a command, at most DGL_AUTO_MAX_FAILS       *)
(* attempts are made before a link gets armed (field 2026-07-21).          *)
NoReconnectStorm == attempts <= DGL_AUTO_MAX_FAILS

(* ATT carries one request at a time: the delayed kick, the retry and the  *)
(* pair-complete restart never start a second discovery under a running    *)
(* one (guard of DGL_SVC_DISC_EVT).                                        *)
OneAttRequest == Len(att) <= 1

(* AT+BT_CONN never leaves the dongle busy: a connect ends, even when the  *)
(* stack refused to start it (its status is ignored; DGL_LINK_TIMEOUT_EVT  *)
(* is what ends it then) or an older, cancelled establish is still to be   *)
(* reported.                                                               *)
ConnectEnds == dgl_state = "CONNECTING" ~> dgl_state # "CONNECTING"

-----------------------------------------------------------------------------
(* What one would expect of the code, or what its own words say, and TLC   *)
(* refutes; see the README.                                                *)

(* The same for AT+BT_SCAN: a refused discovery leaves DGL_SCANNING, which *)
(* has no watchdog, and every command that needs DGL_IDLE is then refused. *)
ScanEnds == dgl_state = "SCANNING" ~> dgl_state # "SCANNING"

(* As the comment in dgl_process_gatt_msg has it, a failed write must not  *)
(* be treated as success and falsely report "armed".                       *)
ArmedIsSubscribed == dgl_state = "ARMED" => enabled = dgl_cccd_count

(* As the comment in ble_dongle_forget_bonds has it: after AT+BT_PAIR      *)
(* auto-reconnect does not grab the keyboard being erased.                 *)
NotRegrabbed ==
  [][dgl_conn_handle = None /\ dgl_conn_handle' # None /\ dgl_state = "AUTOCONN"
       => bond # None]_vars
=============================================================================
