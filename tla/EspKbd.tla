------------------------------- MODULE EspKbd -------------------------------
(***************************************************************************)
(* The keyboard of the ESP32 (Rust) firmware: the routing layer and its    *)
(* engine (kb.rs), the USB backend (kbd_usb.rs), the BLE backend with its  *)
(* pairing window and persistent bond (kbd_ble.rs), and the AT and HTTP    *)
(* handlers that drive them.                                               *)
(*                                                                         *)
(* All tasks run on one embassy executor: a task gives way only at an      *)
(* await that has to wait, so what lies between two such awaits is one     *)
(* action.  cfg::set and cfg::erase_all never wait (the flash driver       *)
(* blocks), so they are part of the action that calls them.                *)
(***************************************************************************)
EXTENDS Naturals, Sequences

CONSTANTS
  Keys,         \* the reports that hold something down
  Release,      \* the all-zero report
  Hosts,        \* BLE hosts, named by their address
  USB,          \* the USB host
  None,
  OPS_CAP,      \* capacity of OPS
  REPORTS_CAP,  \* capacity of each backend's REPORTS
  SEQ_MAX,      \* SEQ_MAX_REPORTS and the longest text
  MaxOps        \* bound: accepted keyboard commands

ASSUME EspKbdAssumption ==
  /\ Release \notin Keys /\ USB \notin Hosts
  /\ None \notin Hosts \cup {USB} \cup Keys \cup {Release}
  /\ None \notin [to : {"usb", "ble"}, rep : Keys \cup {Release}]
  /\ OPS_CAP \in Nat \ {0} /\ REPORTS_CAP \in Nat \ {0}
  /\ SEQ_MAX \in Nat \ {0} /\ MaxOps \in Nat

Report  == Keys \cup {Release}
Outputs == Hosts \cup {USB}
Words(S) == UNION {[1..n -> S] : n \in 1..SEQ_MAX}

(* A text is the keys ascii_to_hid finds for its characters: those it has  *)
(* no key for are skipped, and there may be none left.                     *)
Texts == Words(Keys) \cup {<<>>}

VARIABLES
  target,     \* TARGET: "usb" or "ble"
  ops,        \* OPS: the accepted operations
  play,       \* the reports the engine has still to emit for its operation
  asked,      \* the operation may leave a key down on purpose (Hold, Seq)
  stuck,      \* the report of a send that waits for room, [to, rep], or None
  usbq,       \* REPORTS of kbd_usb
  ep,         \* the HID IN endpoint: a report the host has not polled, or None
  bleq,       \* REPORTS of kbd_ble
  connected,  \* CONNECTED
  phase,      \* of ble_host_task: "adv", "pause" (READV), "serve"
  conn,       \* the peer of the connection being served, or None
  linked,     \* the controller still has that connection
  bondable,   \* set_bondable of that connection
  window,     \* pair_window_open()
  bonded,     \* BONDED_ADDR
  sm,         \* bonds in the stack's security manager
  flash,      \* the persisted ble.bond, or None
  bond_clear, \* the signal BOND_CLEAR
  host,       \* the report each host acted on last
  cmds,       \* accepted operations so far
  rewritten,  \* history: ble.bond changed through the registry
  excused     \* history: hosts a key may stay down on, for a cause named below

engVars  == <<target, ops, play, asked, stuck>>
usbVars  == <<usbq, ep>>
linkVars == <<connected, phase, conn, linked, bondable>>
bondVars == <<window, bonded, sm, flash, bond_clear, rewritten>>
vars == <<engVars, usbVars, bleq, linkVars, bondVars, host, cmds, excused>>

Init ==
  /\ target = "usb"       \* kbd-usb compiled in: wired by default
  /\ ops = <<>> /\ play = <<>> /\ asked = FALSE /\ stuck = None
  /\ usbq = <<>> /\ ep = None /\ bleq = <<>>
  /\ connected = FALSE /\ phase = "adv" /\ conn = None /\ linked = FALSE
  /\ bondable = FALSE /\ window = FALSE
  /\ bond_clear = FALSE
  /\ rewritten = FALSE
  /\ bonded = None /\ sm = {} /\ flash = None
  /\ host = [h \in Outputs |-> Release]
  /\ cmds = 0 /\ excused = {}

-----------------------------------------------------------------------------
(* The command surface.  try_send: a full queue is "ERROR busy".           *)

Post(op) ==
  /\ cmds < MaxOps
  /\ Len(ops) < OPS_CAP
  /\ ops' = Append(ops, op)
  /\ cmds' = cmds + 1
  /\ UNCHANGED <<target, play, asked, stuck, usbVars, bleq, linkVars, bondVars,
                 host, excused>>

Tap(k)   == [kind |-> "tap", reps |-> <<k>>]
Text(s)  == [kind |-> "text", reps |-> s]
Seq_(rs) == [kind |-> "seq", reps |-> rs]
Hold(r)  == [kind |-> "hold", reps |-> <<r>>]

CmdTap     == \E k \in Report : Post(Tap(k))
CmdKey     == \E r \in Report : Post(Hold(r))
CmdKeyStr  == \E s \in Texts : Post(Text(s))
CmdKeySeq  == \E rs \in Words(Report) : Post(Seq_(rs))

(* The HTTP routes post the same operations, KEY_SEQ excepted.             *)
HKeyboardPost ==
  \/ \E r \in Report : Post(Tap(r)) \/ Post(Hold(r))
  \/ \E s \in Texts : Post(Text(s))

(* keyboard/tap, keyboard/text, keyboard/key over MQTT.                    *)
keyboard_exec ==
  \/ \E r \in Report : Post(Tap(r)) \/ Post(Hold(r))
  \/ \E s \in Texts : Post(Text(s))

(* AT+DEV, both backends compiled in.  The engine reads TARGET per report. *)
SetTarget(t) ==
  /\ target' = t
  /\ excused' = IF t = target \/ play = <<>> THEN excused
                ELSE excused \cup (IF target = "usb" THEN {USB} ELSE Hosts)
  /\ UNCHANGED <<ops, play, asked, stuck, usbVars, bleq, linkVars, bondVars,
                 host, cmds>>

PairOpen ==
  /\ window' = TRUE
  /\ UNCHANGED <<engVars, usbVars, bleq, linkVars, bonded, sm, flash, bond_clear,
                 rewritten, host, cmds, excused>>

(* ble/pair with enable=0, or the 60 seconds are over.                     *)
PairClose ==
  /\ window' = FALSE
  /\ UNCHANGED <<engVars, usbVars, bleq, linkVars, bonded, sm, flash, bond_clear,
                 rewritten, host, cmds, excused>>

(* AT+BLE=clear and ble/bonds/clear: flash and window at once (a failed    *)
(* write is ignored), the rest by signal to the host task.  The caller     *)
(* then waits for BOND_CLEARED, two seconds at most, and answers the same  *)
(* either way.                                                             *)
ClearBond(ok) ==
  /\ flash' = IF ok THEN None ELSE flash
  /\ window' = FALSE
  /\ bond_clear' = TRUE
  /\ UNCHANGED <<engVars, usbVars, bleq, linkVars, bonded, sm, rewritten, host, cmds, excused>>

(* ble/bonds/delete of index 0.                                            *)
HBondsDelete == bonded # None /\ \E ok \in BOOLEAN : ClearBond(ok)

(* ble/pair, ble/bonds/delete and ble/bonds/clear over MQTT.               *)
ble_exec == PairOpen \/ PairClose \/ HBondsDelete \/ \E ok \in BOOLEAN : ClearBond(ok)

(* AT+NVS=clear: the registry only; the RAM copies stay until a restart.   *)
NvsClear ==
  /\ flash' = None /\ rewritten' = TRUE
  /\ UNCHANGED <<engVars, usbVars, bleq, linkVars, window, bonded, sm, bond_clear,
                 host, cmds, excused>>

(* AT+SET, a config POST, config/set over MQTT: ble.bond is a key like any  *)
(* other, and whatever is written (a record of a host, or none that can be *)
(* decoded) the RAM copies stay until a restart.                           *)
ConfigSet(bond) ==
  /\ flash' = bond /\ rewritten' = TRUE
  /\ UNCHANGED <<engVars, usbVars, bleq, linkVars, window, bonded, sm, bond_clear,
                 host, cmds, excused>>

-----------------------------------------------------------------------------
(* engine_task.                                                            *)

Idle == play = <<>> /\ stuck = None

(* Faulty: the keys of a text are not let go.                              *)
Expand_NoRelease(op) ==
  IF op.kind = "tap" THEN <<op.reps[1], Release>> ELSE op.reps

(* The reports of an operation: a press and its release per tap and per    *)
(* character of a text, the reports as they are otherwise.                 *)
Expand(op) ==
  CASE op.kind = "tap"  -> <<op.reps[1], Release>>
    [] op.kind = "text" -> [i \in 1..2 * Len(op.reps) |->
                              IF i % 2 = 1 THEN op.reps[(i + 1) \div 2] ELSE Release]
    [] OTHER -> op.reps

Receive ==
  /\ Idle /\ ops # <<>>
  /\ play' = Expand(Head(ops))
  /\ asked' = (Head(ops).kind \in {"hold", "seq"})
  /\ ops' = Tail(ops)
  /\ UNCHANGED <<target, stuck, usbVars, bleq, linkVars, bondVars, host, cmds,
                 excused>>

(* History: a release settles an output, a report asked to be held excuses *)
(* it, and so does one that is lost while a key may be down.               *)
Note(outs, rep) ==
  excused' = IF rep = Release THEN excused \ outs
             ELSE IF asked THEN excused \cup outs ELSE excused

EmitUsb ==
  /\ target = "usb"
  /\ IF Len(usbq) < REPORTS_CAP
     THEN usbq' = Append(usbq, Head(play)) /\ UNCHANGED stuck
     ELSE stuck' = [to |-> "usb", rep |-> Head(play)] /\ UNCHANGED usbq
  /\ Note({USB}, Head(play))
  /\ UNCHANGED bleq

(* send_report of kbd_ble: dropped without a connection; the flag is read  *)
(* before the wait for room.                                               *)
EmitBle ==
  /\ target = "ble"
  /\ IF ~connected THEN UNCHANGED <<stuck, bleq, excused>>
     ELSE /\ IF Len(bleq) < REPORTS_CAP
             THEN bleq' = Append(bleq, Head(play)) /\ UNCHANGED stuck
             ELSE stuck' = [to |-> "ble", rep |-> Head(play)] /\ UNCHANGED bleq
          /\ Note({conn}, Head(play))
  /\ UNCHANGED usbq

Emit ==
  /\ play # <<>> /\ stuck = None
  /\ EmitUsb \/ EmitBle
  /\ play' = Tail(play)
  /\ UNCHANGED <<target, ops, asked, ep, linkVars, bondVars, host, cmds>>

(* The waiting send finds room; CONNECTED is not looked at again.          *)
Unblock ==
  /\ stuck # None
  /\ \/ /\ stuck.to = "usb" /\ Len(usbq) < REPORTS_CAP
        /\ usbq' = Append(usbq, stuck.rep) /\ UNCHANGED bleq
     \/ /\ stuck.to = "ble" /\ Len(bleq) < REPORTS_CAP
        /\ bleq' = Append(bleq, stuck.rep) /\ UNCHANGED usbq
  /\ stuck' = None
  /\ UNCHANGED <<target, ops, play, asked, ep, linkVars, bondVars, host, cmds,
                 excused>>

-----------------------------------------------------------------------------
(* kbd_usb_task: push_input fails while the endpoint is still full, and    *)
(* the failure is ignored.                                                 *)

UsbPush ==
  /\ usbq # <<>>
  /\ IF ep = None THEN ep' = Head(usbq) /\ UNCHANGED excused
     ELSE excused' = excused \cup {USB} /\ UNCHANGED ep
  /\ usbq' = Tail(usbq)
  /\ UNCHANGED <<engVars, bleq, linkVars, bondVars, host, cmds>>

UsbPoll ==
  /\ ep # None
  /\ host' = [host EXCEPT ![USB] = ep]
  /\ ep' = None
  /\ UNCHANGED <<engVars, usbq, bleq, linkVars, bondVars, cmds, excused>>

-----------------------------------------------------------------------------
(* ble_host_task.                                                          *)

(* handle_bond_clear.                                                      *)
HandleBondClear ==
  /\ sm' = sm \ {bonded}
  /\ bonded' = None
  /\ bond_clear' = FALSE

AdvClear ==
  /\ phase = "adv" /\ bond_clear
  /\ HandleBondClear
  /\ UNCHANGED <<engVars, usbVars, bleq, linkVars, window, flash, rewritten,
                 host, cmds, excused>>

(* advertise, accept or the attribute server fails: pause and try again.   *)
AdvError ==
  /\ phase = "adv"
  /\ phase' = "pause"
  /\ UNCHANGED <<engVars, usbVars, bleq, connected, conn, linked, bondable,
                 bondVars, host, cmds, excused>>

(* Outside the window only the bonded host is served.                      *)
Reject(h) ==
  /\ phase = "adv" /\ ~window /\ bonded # h
  /\ phase' = "pause"
  /\ UNCHANGED <<engVars, usbVars, bleq, connected, conn, linked, bondable,
                 bondVars, host, cmds, excused>>

Accept(h) ==
  /\ phase = "adv" /\ (window \/ bonded = h)
  /\ phase' = "serve" /\ conn' = h /\ linked' = TRUE
  /\ bondable' = window
  /\ connected' = TRUE
  /\ UNCHANGED <<engVars, usbVars, bleq, bondVars, host, cmds, excused>>

PauseOver ==
  /\ phase = "pause"
  /\ phase' = "adv"
  /\ UNCHANGED <<engVars, usbVars, bleq, connected, conn, linked, bondable,
                 bondVars, host, cmds, excused>>

(* The connection is lost; the host lets its keys go.                      *)
LinkLost ==
  /\ linked
  /\ linked' = FALSE
  /\ host' = [host EXCEPT ![conn] = Release]
  /\ UNCHANGED <<engVars, usbVars, bleq, connected, phase, conn, bondable,
                 bondVars, cmds, excused>>

(* Faulty: the reports of the dead link stay queued.                       *)
EndServe_NoDrain ==
  /\ connected' = FALSE /\ phase' = "pause"
  /\ conn' = None /\ linked' = FALSE /\ bondable' = FALSE
  /\ bleq' = bleq
  /\ UNCHANGED excused

(* The end of serve_connection: the flag goes down, the queue is drained.  *)
(* History: a send that still waits will reach whoever connects next.      *)
EndServe ==
  /\ connected' = FALSE /\ phase' = "pause"
  /\ conn' = None /\ linked' = FALSE /\ bondable' = FALSE
  /\ bleq' = <<>>
  /\ excused' = IF stuck # None /\ stuck.to = "ble" THEN excused \cup Hosts
                ELSE excused

Disconnected ==
  /\ phase = "serve" /\ ~linked
  /\ EndServe
  /\ UNCHANGED <<engVars, usbVars, bondVars, host, cmds>>

(* select3 looks at the connection first, then at the reports, then at     *)
(* the signal.                                                             *)
ServeClear ==
  /\ phase = "serve" /\ linked /\ bleq = <<>> /\ bond_clear
  /\ HandleBondClear
  /\ host' = [host EXCEPT ![conn] = Release]
  /\ EndServe
  /\ UNCHANGED <<engVars, usbVars, window, flash, rewritten, cmds>>

(* Faulty: the RAM copy does not wait for the write to succeed.            *)
OnNewBond_WriteUnchecked(ok) ==
  /\ flash' = IF ok THEN conn ELSE flash
  /\ bonded' = conn /\ window' = FALSE /\ rewritten' = (rewritten /\ ~ok)

(* PairingComplete with a bond: on_new_bond.                               *)
OnNewBond(ok) ==
  IF ok THEN flash' = conn /\ bonded' = conn /\ window' = FALSE /\ rewritten' = FALSE
        ELSE UNCHANGED <<flash, bonded, window, rewritten>>

PairingComplete ==
  /\ phase = "serve" /\ linked /\ bondable
  /\ sm' = sm \cup {conn}
  /\ \E ok \in BOOLEAN : OnNewBond(ok)
  /\ UNCHANGED <<engVars, usbVars, bleq, linkVars, bond_clear, host, cmds, excused>>

(* One report, notified on both characteristics; an error is only logged.  *)
Notify(delivered) ==
  /\ phase = "serve" /\ linked /\ bleq # <<>>
  /\ bleq' = Tail(bleq)
  /\ IF delivered THEN host' = [host EXCEPT ![conn] = Head(bleq)] /\ UNCHANGED excused
                  ELSE excused' = excused \cup {conn} /\ UNCHANGED host
  /\ UNCHANGED <<engVars, usbVars, linkVars, bondVars, cmds>>

-----------------------------------------------------------------------------
(* Restart: RAM is lost, load_bond takes what is in flash.                 *)
Reboot ==
  /\ target' = "usb"
  /\ ops' = <<>> /\ play' = <<>> /\ asked' = FALSE /\ stuck' = None
  /\ usbq' = <<>> /\ ep' = None /\ bleq' = <<>>
  /\ connected' = FALSE /\ phase' = "adv" /\ conn' = None /\ linked' = FALSE
  /\ bondable' = FALSE /\ window' = FALSE
  /\ bond_clear' = FALSE
  /\ rewritten' = FALSE
  /\ bonded' = flash
  /\ sm' = IF flash = None THEN {} ELSE {flash}
  /\ host' = [h \in Outputs |-> Release]
  /\ excused' = {}
  /\ UNCHANGED <<flash, cmds>>

UsbTask  == UsbPush
HostTask ==
  \/ AdvClear \/ PauseOver \/ Disconnected \/ ServeClear
  \/ \E delivered \in BOOLEAN : Notify(delivered)
Engine   == Receive \/ Emit \/ Unblock
Commands ==
  \/ CmdTap \/ CmdKey \/ CmdKeyStr \/ CmdKeySeq \/ HKeyboardPost
  \/ \E t \in {"usb", "ble"} : SetTarget(t)
  \/ PairOpen \/ PairClose \/ NvsClear
  \/ \E bond \in Hosts \cup {None} : ConfigSet(bond)
  \/ \E ok \in BOOLEAN : ClearBond(ok)
  \/ HBondsDelete \/ keyboard_exec \/ ble_exec

World ==
  \/ UsbPoll \/ LinkLost \/ AdvError \/ PairingComplete \/ Reboot
  \/ \E h \in Hosts : Reject(h) \/ Accept(h)

Next == Engine \/ UsbTask \/ HostTask \/ Commands \/ World

(* The executor polls every task that can go on.  A task that waits for    *)
(* room is woken each time there is some (SF).  Commands, hosts and links  *)
(* owe nothing.                                                            *)
Fairness ==
  /\ WF_vars(Receive \/ Emit) /\ SF_vars(Unblock)
  /\ WF_vars(UsbTask)
  /\ WF_vars(HostTask)

Spec == Init /\ [][Next]_vars /\ Fairness

-----------------------------------------------------------------------------
TypeOK ==
  /\ target \in {"usb", "ble"}
  /\ Len(ops) <= OPS_CAP /\ Len(usbq) <= REPORTS_CAP /\ Len(bleq) <= REPORTS_CAP
  /\ play \in Seq(Report) /\ ep \in Report \cup {None}
  /\ phase \in {"adv", "pause", "serve"}
  /\ connected \in BOOLEAN /\ (connected <=> phase = "serve")
  /\ conn \in Hosts \cup {None} /\ (connected <=> conn # None)
  /\ bonded \in Hosts \cup {None} /\ flash \in Hosts \cup {None}
  /\ sm \subseteq Hosts /\ excused \subseteq Outputs
  /\ host \in [Outputs -> Report]

(* kb.rs "press/release paired automatically": when everything accepted    *)
(* has been played and delivered, no host still sees a key down, unless a  *)
(* held report asked for it, AT+DEV changed the output in the middle, or a *)
(* backend lost a report.                                                  *)
NoStuckKey ==
  Idle /\ ops = <<>> /\ usbq = <<>> /\ ep = None /\ bleq = <<>>
    => \A x \in Outputs : host[x] # Release => x \in excused

(* kbd_ble.rs "the engine never blocks on a dead link": a send that waits  *)
(* for room gets through, whatever becomes of the link it was meant for.   *)
EngineNeverBlocks == stuck # None ~> stuck = None

(* A host let in for its bond would be let in after a restart as well: the *)
(* RAM mirror is the persisted bond, and the security manager has the key, *)
(* unless the bond has just been asked to go, or a command worked on the   *)
(* registry behind their back.                                             *)
BondSurvivesRestart ==
  bonded # None =>
    /\ bonded \in sm
    /\ flash = bonded \/ bond_clear \/ rewritten

-----------------------------------------------------------------------------
(* What the source's own words say and TLC refutes; see the README.        *)

(* kbd_ble.rs "the next connection never replays stale keys": no report    *)
(* waits in the queue while there is no connection.                        *)
DrainedWhileDown == ~connected => bleq = <<>>
=============================================================================
