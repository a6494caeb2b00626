# AT-Node in TLA+

AT-Node turns a small radio board into a keyboard (or a keyboard receiver) that is
driven by AT commands, over HTTP and over MQTT.  This directory holds TLA+ models of its
firmware, the TLC configurations that check them on small instances, and TLAPS proofs of
their main invariants.  Paths below are relative to the repository; `APP/` stands for
`src/wchble/mr2/APP/`.

## 1. Inventory of the system

The repository has two firmware families and some host tools.

**CH582 firmware** (`APP/`, C, on the TMOS cooperative scheduler).  TMOS runs one
task handler at a time: AT commands, timers, GAP/GATT callbacks and messages never
preempt each other, so the hard behaviours are orders of handlers, timers that
outlive what they were started for, stack calls that only *request* something
(`GAPRole_TerminateLink`), stack statuses that are ignored, and power loss.  Only
the USB interrupt and the link layer run in parallel.

| component | state | operations | interacts with | correct when |
|---|---|---|---|---|
| output router and playback, `at_cmds.c`, `hidkbd_usb.c` | `kb_target`, `seq_buf/idx`, `keystr_buf/idx/active`, timer `SEQ_EVENT` | `kb_flush`, `AT+KEY/MOD/TAP/KEY_SEQ/KEY_STR/DEV`, timer handler | HID profile (reports), USB endpoint 2, slots (`kb_ble_activate_slot`) | no key stays down by accident, every accepted text is typed, completion is told once and truthfully, playback ends |
| host slots, `hidkbd_ble.c` | `kbd_conns`, `slotmap` and its flash page, `pair_slot`, timers `PAIR_WINDOW_EVT`, `ADV_REARM_EVT` | link up/down callbacks, `AT+DEV/BT_PAIR/BT_UNBIND/BT_DISC/FACTORY`, `slotmap_load/save` | GAP role, bond manager, HID profile, `kb_target` | a slot means one host for ever, only the selected host is connected, the waited-for host can come back, flash agrees with RAM |
| HID profile, `BLE/ble_hid_dev.c`, `BLE/ble_hid_kbd.c` | `gapConnHandles`, `hidDevConnSecure`, advertising | report gate, GAP and pairing callbacks, GATT attributes | calls the slots' callback last | reports only on encrypted links, every routed link has a table entry |
| dongle, `BLE/ble_dongle.c` | `dgl_state`, `dgl_disc_state`, scan list, pending requests, auto-reconnect counters, handles, CCCD queue | `AT+BT_SCAN/CONN/DISC/PAIR/AUTO/BATT`, task events, GAP callbacks, GATT messages | BLE stack, bond store, USB | belief agrees with the stack, connects to what was named, never loops or hangs, subscribes before it says "armed" |
| USB device, `usb_dev.c` | endpoint 2, `Ready`, CDC rings | interrupt, `USB_HID_SendReport`, `USB_CDC_Write/Read`, `cdc_tx_process` | router, AT parser | bytes come out in order, none twice |
| AT parser, `at_parser.c` | one line buffer, `at_channel` | `AT_Task`, `AT_Response` | UART, CDC, every command | a line is one command of one channel |
| custom buttons, `at_cmds.c`, `HWS/hws_key.c` | `key_cfg` and its flash page, `last` | poll, `AT+KEY_CFG` | router | a press is followed by its release |
| role flag, `role.c` | flash record | `AT+ROLE`, boot | the rest of the start-up | a role change survives or does not happen |
| hardware services, stack start-up | registers | I2C, ADC, LED, GPIO, RTC, sleep, watchdog | - | not concurrent, thin wrappers |

**ESP32 firmware in Rust** (`src/esp32/rust/src`, below `rust/`).  One embassy
executor runs every task, so a task gives way only at an `await` that has to wait;
the hard behaviours are state read before such an await and used after it, queues of
bounded size whose refusal is ignored, tasks that signal each other through flags and
a `KICK`, and links and power lost anywhere.

| component | state | operations | interacts with | correct when |
|---|---|---|---|---|
| keyboard engine, `kb.rs`, `kbd_usb.rs`, `kbd_ble.rs` | `OPS`, the playing operation, two `REPORTS` queues, bond in flash, RAM and security manager, window, `BOND_CLEAR` | AT and HTTP keystrokes, `AT+DEV`, `AT+PAIR`, bond clear, engine, USB task, host task | USB and BLE hosts, `cfg.rs` | no key stays down unexplained, the engine never hangs, a bond survives a restart or is gone |
| configuration store, `cfg.rs` | registry, `CHANGED` (4 messages, every subscriber reads each) | `set`, `erase_all` | every service | a service acts on what is stored, or has the change before it |
| Wi-Fi, HTTP server, SSDP, `wifi.rs`, `httpd.rs`, `ssdp.rs` | link state, `running`, `KICK`, pool of socket buffers, connection queue | watchdog, acceptors, handler, announcements | `cfg.rs` | a buffer has one user, switches and credentials take effect |
| MQTT client, `mqttc.rs` | `running`, `connected`, `KICK`, session | connect, back-off, ping, requests, graceful end | broker, `cfg.rs` | a session runs on the current configuration; the broker's retained state is true |
| tunnel client, `rathole.rs` | `WANT_RUN`, `RECONFIG`, `CONNECTED`, slots, standby, forwarders | connect, disconnect, clear, watcher, manager, forwarders | tunnel server, local service, `cfg.rs` | a slot has one owner, the tunnel follows its switches and configuration, half-closed sessions lose nothing |
| AT line editor, LED, pins, ADC, I2C | registers | commands | - | thin wrappers |

**ESP32 firmware for Arduino** (`src/esp32/arduino`), the predecessor of the Rust one:
`loop()`, an MQTT task and the NimBLE host task share globals without a lock, so a test
of a flag and the update that relies on it are not one step.

**Host tools** (`src/tools`).  `broker/atnode_broker.py` runs an MQTT broker (amqtt)
with a key store, and a bridge that turns HTTP calls into MQTT requests and waits for
the answers; the rest are test scripts and CI.

`PROJECT.json` lists every component with its status, and the hazards: the lines
where something can go wrong that a test would hardly reach, each with the
properties that watch it or the reason why none does.

## 2. Modules

| module | models | kind |
|---|---|---|
| `KbdPlayback` | router, playback, endpoint 2, the hosts' view of the keys | specification |
| `KbdPlaybackProofs` | its invariants for all constants | proofs |
| `KbdSlots` | slots, policy, pairing window, advertising, flash, HID profile's table | specification |
| `KbdSlotsProofs` | its invariants for all constants | proofs |
| `Dongle` | the receiver role | specification |
| `DongleProofs` | its invariants for all constants | proofs |
| `Fifo` | what a byte ring promises: a bounded queue that loses, repeats and invents nothing it has taken | abstract specification |
| `Serial` | CDC endpoint with its two rings, USB interrupt, AT parser; refines `Fifo` | specification |
| `SerialProofs` | types, and that the receive ring implements `Fifo` | proofs |
| `EspKbd` | Rust keyboard: commands, engine, USB and BLE tasks, bond | specification |
| `EspKbdProofs` | its invariants for all constants | proofs |
| `EspNode` | Rust configuration store with Wi-Fi, HTTP server and SSDP | specification |
| `EspNodeProofs` | its invariants for all constants | proofs |
| `Remote` | Rust MQTT client, broker and bridge | composition of the three |
| `RemoteProofs` | its invariants for all constants | proofs |
| `Rathole` | Rust tunnel client | specification |
| `RatholeProofs` | its invariants for all constants | proofs |
| `Arduino` | Arduino firmware: three tasks over unlocked globals | specification |
| `MC*` | instances for TLC | model checking |

Definitions whose name ends in `_Something` and whose comment starts with
"Faulty" are not part of the model: each is a plausible slip in the code, kept to
show which property would notice it.

### KbdPlayback

A report is `Release` or a member of `Keys`; a character of `AT+KEY_STR` is the report
`keystr_map` gives it or `Unmapped`.  Delays are left out: every wait is a TMOS timer,
so any command may come between any two ticks, whatever the pace. A `SEQ_EVENT` to come
is either `timer` (started by `tmos_start_task`, which on a running timer starts it
again) or `event` (set, and served at the next pass); a command that arrives between the
two starts a second one, and both come (`Expire`).  Each path of `kb_seq_process_event`
is an action (`TickStrPress`, `TickStrRelease`, `TickStrEnd`, `TickSeq`, and `TickIdle`
where nothing is left to play).  `KbFlush` has the four outcomes of `kb_flush`:
delivered, dropped after the retry budget, written to endpoint 2, or nowhere to go.
`host` is the report each host acted on last, `ep2` what the USB host has not polled
yet, which a bus reset or a halt (`UsbHalt`) loses; a host that loses its keyboard lets
its keys go.  `Slots` and `Multi` select the single-host and the multi-host build.
Links may come, become secure and go at any time, which covers `AT+BT_PAIR` and
`AT+BT_DISC`.  `last`, `typed`, `excused` and `switched` are history variables.

### KbdSlots

The `KBD_MULTI` build.  A link is named by its host.  `kb_target = None` is USB.
GAP events are handled first by `ble_hid_dev.c`, then by `hidkbd_ble.c`, in one
action (`Established` is the common first part, `Rejected`, `KnownHost`, `NewHost`
and `TableFull` the four ends).  `Terminate` only adds to `closing`; the end of the
link is a later event, and until then a slot and a table entry stay taken.
`AdvUpdate` is `kbd_adv_update`; `ApplyAddr` is `kb_ble_apply_addr`, which switches
advertising on whatever the policy says.  `BurstEnds` is the controller's end of a
directed burst, reported (`GapWaiting`) or not.  `Boot` is `slotmap_load` and the
start-up; `CrashInSave` is a power loss between erase and write of `slotmap_save`.
Names, paces and own MACs of the slots are left out: no property is about them.
The advertising calls inside `hidDevDisconnected` do not appear because
`kbd_adv_update` ends the same handler and overrides them; the call in
`ble_hid_dev_report` cannot be reached for a routed link, which is what
`AcceptedIsTracked` says.

### Dongle

`evts` are the pending events of the task and `Serve` the order in which
`dgl_process_event` takes them; `timers` are its running timers.  `gap`, `peer` and
`att` are the BLE stack (external): what it is doing, with whom, and the
outstanding ATT requests.  The stack may refuse a scan or a connect even when it is idle,
and the firmware ignores the status.  Deferred requests travel as in the code, as a flag
(`dgl_pend_scan`) and an index into the scan list (`dgl_pend_conn`), so that the
list may have changed when the index is used.  Advertisements are inserted at any
position, because signal strength is the environment's choice.  An establish that
has been cancelled may still succeed.  A CCCD write that is answered by an error is
`WriteRsp(FALSE)`; as in the code it counts like a success.  The stack cancels a
scan at once.  Not in the model: the forwarding of notifications, the passkey, the
diagnostic reads of debug builds.

### Serial and Fifo

`Serial` has two contexts: the USB interrupt, each handler one action, and the TMOS
tasks `AT_Poll` and `cdc_tx_process`, split wherever the interrupt can come between an
access and the next one that depends on it.  `ReadByte` copies a byte out of the ring,
`ReadAdvance` steps `cdc_rx_tail`; `TxLoad` reads the endpoint's control register,
`TxArm` writes it back, undoing what the interrupt changed meanwhile.  `TokenOut` is a
packet of the host, new or repeated because its acknowledgement was lost.  `TxCount`
computes the fill level as the C expression does, with the sign of the remainder.
`Rx` and `Tx` map the two rings to the abstract `Fifo`: `q` is what lies between tail
and head (without the byte already copied), `out` the reader's buffer.  `RxIsFifo`
holds; `TxIsFifo` is refuted (section 5).  A character of `at_line` is the channel it
came from, which is all that a merged line shows.

### EspKbd

An accepted operation is the list of reports it expands to (`Expand`, `play`); a text
(`Texts`) is what `ascii_to_hid` leaves of it, possibly nothing; a send that finds its
backend's queue full waits in `stuck`.  `connected`, `linked` and `conn` are what the
firmware believes, what the link layer has, and with whom.  The bond is in three places
that are written one after the other: `flash`, `bonded` (the RAM mirror) and `sm` (the
security manager).  `ClearBond` and `OnNewBond` take the result of the flash write as a
parameter; `Reboot` reads flash.  `ConfigSet` is a write of the key `ble.bond` through
the registry (`AT+SET`, HTTP, MQTT), which reaches flash alone; `rewritten` remembers
it, since flash and RAM then differ until the next bond or restart.  `excused` is
history: hosts a key may stay down on because of a cause the comment of the action names
(a command left it, the target changed, the link or the endpoint swallowed the release).

### EspNode

`unread[s]` is what subscriber `s` has still to read of `CHANGED`; `Publish` stops at the
first key that does not fit, as repeated `try_publish` does.  Keys are grouped by their
readers: Wi-Fi credentials, `http.enable`, everything else.  Each handler that writes
keys is an action named after it (`CmdSet`, `HTunnel`, ...); a handler that writes five
or seven keys publishes as many.  The acceptor's `select(accept_one, disable)` is
`AccTake`, `AccConn`, `AccErr` against `AccKick`, `AccMsg`: where the second wins, the
buffer index the first holds is dropped with its future.  SSDP looks at the switch only
when the two-second timer of its `select3` is over (`ssdp = "due"`), and a `Datagram`, which
is polled first, starts that timer again.

### Remote

`up` and `down` are the packets of the node's connection, `inbox` the bridge's; a lost
connection takes both directions with it, and the broker notices a dead peer later
(`sess = "zombie"`, then the will).  `Told` leaves open whether `CHANGED` had room,
because other subscribers may have filled it.  `OnConnect`, `Suback`, `OnMessage`, `Rpc`
are the bridge's callbacks and callers.  The publish a node makes on behalf of an HTTP
client (`PUB_REQ`) is left out.

### Rathole

`mgr` says where the manager waits; `Turn` and `TurnBare` are the head of its loop, which
looks at `WANT_RUN` and `RECONFIG`; `CtlDown`, `StandbyGone`, `StartForward`,
`SelectKick` are the arms of its `select4`.  The handshake and the connect of a data
channel take time (`filling`), and everything else may happen meanwhile.  A pump keeps
per direction whether it is open and whether bytes are under way.  `leaked` counts the
slots `pool_fill_one` takes and does not give back when the name does not resolve.

### Arduino

`lpc` and `mpc` are where the loop and the MQTT task are when another task comes in: in a
key tap's delay, inside a connect, or between the test of a flag and the stores that rely
on it, which go one by one (`MqttTextAsk`, `MqttTextStore`; `TypeEnd`, `TypeClear`;
`RestartTest`, `RestartClear`, `RestartGo`, `RestartStart`).  `conn` is the set of links,
`secured` those that are bonded as the stack sees it: a link stays bonded when
`DeleteBonds` removes the record.  NimBLE accepts a second link beside the first, when
`AT+PAIR=1` advertises with a host connected.  Deadlines are flags; `g_restart_at` set
means a restart will come.  The one deadline that is compared without regard to the wrap
of `millis()` is `g_type_next`: after `ClockWraps` it is "far", and typing stands still
until `ClockCatchesUp`, up to 49.7 days later.  `left` is history: the bonded host that
lost its link last and that no command has sent away.

## 3. Runs

| run | instance | checks |
|---|---|---|
| `playback` | 1 slot, 1 key, buffers of 2, 2 playback commands | `NoStuckKey`, `OneDonePerCommand`, `AnsweredMeansQuiet`, `DoneMeansTyped`, `PlaybackEnds` |
| `playback_multi` | 2 slots, 1 command | `LeftHostFreed` |
| `slots` | 2 slots, 3 hosts, one of them with a public address | `RoutedToOwner`, `OneSlotPerHost`, `AcceptedIsTracked`, `SecureIsFresh`, `HostInvited`, `FlashCurrent`, `InvitesAgain` |
| `dongle` | 2 keyboards (symmetric), list of 2, 1 CCCD, give up after 2, 1 retry, every command but `AT+BT_AUTO` | `LinkKnown`, `ConnectsToNamed`, `NoReconnectStorm`, `OneAttRequest` |
| `dongle_live` | 1 keyboard, scan, connect and `AT+BT_AUTO` | `ConnectEnds` |
| `serial` | receive ring of 3, transmit ring of 4, packets of 2, 2 packets, 1 UART byte | `RxIsFifo` (refinement), `TxResumes` |
| `cdc_tx_wrap` | the same without the UART | `TxIsFifo`, violated |
| `esp_kbd` | 1 host besides USB, 1 key, queues of 1, 2 reports | `NoStuckKey`, `BondSurvivesRestart`, `EngineNeverBlocks` |
| `esp_node` | 2 credentials, 1 acceptor, 2 buffers, queue of 1, 1 writing command between any restarts | `BufferUnique`, `ServicesTold`, `SwitchHonoured`, `CredsApplied` |
| `remote` | 1 configuration besides none, 1 request, queue of 1, 2 commands, 1 fault | `SessionConf`, `RetainedAgrees`, `ViewSettles`, `StopSeen` |
| `rathole` | 1 configuration besides none, 2 slots, queue of 1, 3 commands | `SlotOwned`, `TunnelConf`, `NothingCut`, `StopHonoured` |
| `arduino` | 2 hosts, texts of 1, 2 commands and wraps of the clock in all | `TypingEnds`, `LeftHostInvited`, `MqttStops` |

`playback` and `slots` check their module's `TypeOK` too.  The type invariants of the
other modules hold in the same instances; no run spends time on them.

Why the bounds are enough.  *Playback*: two commands let one arrive in the playback of
another, at any point of it, and the proofs remove the bound; buffers of two hold a
mapped and an unmapped character in either order, texts of `KEYSTR_MAX + 1` are cut; one
key suffices because no code compares keys.  *Slots*: with three hosts for two slots the
table is full, rejected links compete with accepted ones and a slot changes hands; the
proofs remove the bound.  *Dongle*: two keyboards are needed to connect to the wrong
one, a list of two to evict and to re-sort; a limit of two fails has a first and a last
fail.  Without `AT+BT_AUTO` the `dongle` run loses only the switch, which `dongle_live`
has.  Symmetry is used only where invariants alone are checked. *Serial*: both rings
wrap and are full, a packet is longer than the room left and a chunk shorter than what
waits.  *EspKbd*: a queue of one is full behind one report, and two reports are a press
and its release.  *EspNode*: a queue of one overflows with the second key of one
command, which several handlers write; the two invariants were also explored once with a
queue of two and two writing commands (3.1 million states). *Remote*: two commands stop
a node that has just been reconfigured, a fault falls between any two steps; with two
faults the same properties hold (0.8 million states).  *Rathole*: with two slots one
forwards while the other is the standby; three commands configure, start and change or
stop.  *Arduino*: two commands are one that starts something and one that crosses it;
two hosts let one leave while the other is linked.

Deadlock is checked except where the system may stop: in `remote` and `rathole` the
commands and faults are used up and a stopped node waits for ever.

## 4. Fairness

* `KbdPlayback`: a started timer runs out (`WF` of `Expire`), TMOS serves a set
  event (`WF` of `Tick`), and the controller
  reports the end of a link it was asked to end (`WF` of `Closed`).  No fairness on
  commands, hosts or USB.
* `KbdSlots`: the timer `ADV_REARM_EVT` and the end of links asked to end.
* `Dongle`: the scheduler serves pending events.  A higher event can disable a lower
  one for a moment, and commands may set it again; but a command takes a serial line
  to arrive and an event a pass of the scheduler, so repeated chances are taken
  (`SF`).  The watchdog fires, a scan window ends (it is at least a second long, so
  what was pending has been served by then), a cancelled establish is reported.
  Nothing makes a link come up, an answer arrive or a keyboard advertise.
* `Serial`: the TMOS loop serves both tasks.  The host owes nothing, not even a poll.
* `EspKbd`, `EspNode`, `Remote`, `Rathole`: the executor polls a task that can go on
  (`WF` of each task).  `Unblock` is `SF`: the queue a send waits for is read whenever
  its task runs, and a waiting sender is first in line.  In `EspNode` an acceptor looks
  at its messages whenever no connection is ready, so connections do not starve them.
  SSDP's timer runs out and its check is made when it is due (`WF` of `SsdpTimer`,
  `SsdpCheck`), but nothing says that a datagram does not come first: on a LAN with one
  every two seconds SSDP never looks.  `SwitchHonoured` therefore claims the SSDP half only
  for behaviours with finitely many datagrams (`<>[][~Datagram]_vars`).  In
  `Rathole` a handshake and a connect end (both have a time limit).  In `Remote` the
  broker reads and notices a dead peer (keep-alive).  Users, networks and the access
  point owe nothing: `CredsApplied` excuses a watchdog that waits for an address, since
  `wait_config_up` has no time limit.
* `Arduino`: every part of `loop()` comes round (`SF`, because a command or another task
  may disable it for a moment), what it has begun it ends, the MQTT task wakes every
  second, a connect returns, and a clock that has wrapped comes round.

## 5. Where the code and its words differ

`cdc_tx_wrap` is kept as a run: `(uint16_t)((head - tail) % CDC_TX_BUF_SIZE)` in
`APP/usb_dev.c:462` is computed in signed `int`.  Once the head has wrapped below the
tail the remainder is negative, `n` becomes `EP1_SIZE`, and the task sends bytes nobody
wrote while the tail overtakes the head.

The following are stated as definitions at the end of their modules, each with the words
it is taken from, or what one would expect of the code.  No run keeps them; given as the
only INVARIANT (or PROPERTY) of the module's configuration, each ends in a
counterexample.

| definition | what happens |
|---|---|
| `KbdPlayback!QueueHasTimer` | a queue that `AT+TAP` or `AT+KEY_SEQ` stores while `AT+KEY_STR` plays is answered OK and never played: the end of the string does not start the timer again (`APP/at_cmds.c:138`) |
| `KbdPlayback!DoneMeansQuiet` | `AT+TAP` or `AT+KEY_SEQ` handled while the event of a text's last tick is set starts a timer that tick does not stop: `+KEY_DONE` is printed, then the queue plays (`APP/at_cmds.c:138`).  An agent that waits for one line per command is safe (`AnsweredMeansQuiet`) |
| `KbdSlots!OnlyTargetLinked` | `AT+DEV=BLEm` leaves the pairing window of another slot open, and a new host then holds a link in a slot that is not the target (`APP/hidkbd_ble.c:665`) |
| `KbdSlots!UnbindForgets` | the bond is erased with the address type "random", so that of a host with a public address stays (`APP/hidkbd_ble.c:487`) |
| `Dongle!ArmedIsSubscribed` | an error answer advances the CCCD queue like a success: armed without a subscription (`APP/BLE/ble_dongle.c:817`; add `"auto"` to `Cmds`) |
| `Dongle!NotRegrabbed` | an establish that completes between `AT+BT_PAIR` and the deferred abort connects the keyboard just erased (`APP/BLE/ble_dongle.c:943`; add `"auto"` to `Cmds`) |
| `Dongle!ScanEnds` | a scan the stack refuses to start leaves `DGL_SCANNING`, which has no watchdog; commands that need an idle dongle are refused from then on (`APP/BLE/ble_dongle.c:1093`) |
| `EspKbd!DrainedWhileDown` | a report whose sender waited for room enters the BLE queue after it was drained, and the next connection gets it (`rust/kbd_ble.rs:583`) |
| `EspNode!AcceptorsStop` | the `KICK` two acceptors share wakes one; the other goes on listening (`rust/httpd.rs:1336`; two acceptors, one credential) |
| `EspNode!SsdpStops` | datagrams start SSDP's check anew for ever, and it stays open with the switch off (`rust/ssdp.rs:220`) |
| `Rathole!MasterOff` | the watcher follows `tunnel.1.enable`; `rathole.enable` off leaves a running tunnel up (`API.md`) |
| `Arduino!EveryLeftHostInvited` | a bonded host that leaves while another is linked is not invited: the deadline is cleared without advertising and not set again (`arduino.ino:3319`) |
| `Arduino!InvitationStays` | a host that leaves between the clearing of an old deadline and the test of the pending flag is invited, and 500 ms later its own deadline stops the invitation (`arduino.ino:3319`) |
| `Arduino!StoresIntoIdle` | the MQTT task tests `g_type_busy`, the loop starts a text, and the MQTT task stores text and index under it (`arduino.ino:2136`) |
| `Arduino!ClearEndsSession` | `mqtt/clear` during a connect: the connect returns, and the session stays (`arduino.ino:2087`) |

Met while modelling, and promised by nothing: halves of two commands on UART and CDC
merge into one line (`APP/at_parser.c:182`); the transmit task's read and write of the
endpoint's register undoes an OUT toggle the interrupt flips in between
(`APP/usb_dev.c:468`); a socket-buffer index whose accept is cancelled never returns to
its pool (`rust/httpd.rs:1386`); a watch request may be overtaken by auto-reconnect
(`APP/BLE/ble_dongle.c:1061`).

## 6. Proofs

Proved by TLAPS for every value of the constants, from the assumptions named in the
specification modules and nothing else.  These say that the markers (`None`, `Release`,
`"wifi"`, ...) are not also keys, hosts or requests, that capacities are positive, that
hosts and slots are finite sets, that there is more than one slot, at least one HTTP
acceptor, and that `CDC_TX_BUF_SIZE` is at most 65536, since its indices are `uint16_t`.

Every module follows the same argument: an invariant `IInv` that implies what the runs
check and is kept by every step, `InitIInv` and `NextIInv`, then the theorems.  Each
`IInv` was model-checked before it was proved, on the instance of the module's run
(`Dongle`: with `AT+BT_AUTO` added; `Remote`: also with two faults and an inbox of two).
The steps have one lemma per action or per group of actions that touch the same
variables; what a step leaves alone is carried over by "kept" lemmas, one per part.
The invariants and action properties of the runs are all theorems, except `TxIsFifo`,
which is false.

**`KbdPlaybackProofs`**: `TypeCorrect`, `NoStuckKeyHolds`, `StringHasTimerHolds`,
`OneDonePerCommandHolds`, `AnsweredMeansQuietHolds`, `DoneMeansTypedHolds`.  `NoStuckKey`
speaks only of an idle timer, so it is not inductive.  `IInv` says what holds while the
timer runs or its event is set: a held key that is not excused is the one whose
release is the next report of the playback (`ReportPending`), a playing string has its
timer, an idle output has nothing armed; and completions together with the running timer and the set event, or with the
playing text and the unfinished queue, never exceed the accepted commands (`DoneCounted`,
`PlayCounted`), so that with every command answered nothing of these is left, which is
`AnsweredMeansQuiet`.  `DoneMeansTyped` says that what was typed is the mapped characters of
the text, each once and in order; it is stated by an order-preserving map between
positions (`TypedOf`) rather than by a recursive filter.  Its invariant `TypedInv` says
the same of the characters whose press has been played, and `TypedNext` extends the map by
one character.

**`KbdSlotsProofs`**: `TypeCorrect`, `RoutedToOwnerHolds`, `OneSlotPerHostHolds`,
`AcceptedIsTrackedHolds`, `SecureIsFreshHolds`, `AdvertisingPolicy` (`UsbIsQuiet`,
`HostInvited`, `WindowFindable`), `FlashCurrentHolds`.  `IInv` has three parts:

* `MapInv`: slots, reservations and links agree, and flash equals `slotmap`;
* `HidInv`: the profile's table holds exactly the links, one entry each.  With as
  many entries as links the controller carries, a pigeonhole argument on
  cardinalities (`HidFree`) gives a free entry whenever a link comes up, so rejected
  links that have not ended yet cannot crowd out an accepted one;
* `AdvInv`: what `adv_on`, `adv_peer` and `rearm` are in each state of target, window
  and links; `HostInvited` needs the timer's part of it.

**`DongleProofs`**: `TypeCorrect`, `LinkKnownHolds`, `ConnectsToNamedHolds`,
`NoReconnectStormHolds`, `OneAttRequestHolds`.

* `NameInv`: an index into the scan list is deferred only together with its event, and
  outside a running scan it points, if anywhere, at the device that was named.  A scan
  empties and re-sorts the list under the index; what saves the name is that the deferred
  event is served, and the index dropped, before the scan window ends.
* `FailInv`: every attempt that is over has been counted; one may be under way that is
  not; or the limit was reached and auto-reconnect is held.  The bound is not inductive
  without the middle case, and the last one is where the counter goes back to 0.
* `GattInv`: no request is outstanding where discovery may start, and the CCCD queue is
  written in its own phase.

**`SerialProofs`**: `TypeCorrect` and `RxIsFifoHolds`: the receive side refines `Fifo`.
`Rx` maps tail and head to the queue they enclose; when a byte has been copied but
`cdc_rx_tail` not yet advanced, the byte counts as taken.  The proof needs that the ring
is not empty at that point although the interrupt may have run (`ReaderInv`), arithmetic
of indices modulo the ring's size, and for every other step that it is a stutter of the
abstract queue.

**`EspKbdProofs`**: `TypeCorrect`, `NoStuckKeyHolds`, `BondSurvivesRestartHolds`.
`KeyInv` follows the newest report on its way to an output (a waiting sender, the queue,
the endpoint, the host): a key there is excused or the operation that is playing still has
its release.  Reports that outlive their link excuse every host (`StaleExcused`).
`BondInv` adds that flash and RAM never name two hosts unless the registry's key was
written: a failed clear leaves flash behind RAM, and the next bond is written to both or
to neither.

**`EspNodeProofs`**: `TypeCorrect`, `BufferUniqueHolds`, `ServicesToldHolds`.
`BufferUnique` is inductive with the types: indices only move between pool, acceptors,
connection queue and handler.  `ServicesTold` is not: a notification is worth something
only before an acceptor that will act on it (`OffTold`: one that runs; `OnTold`: one that
is suspended, or the `KICK` when all are), and credentials must be followed from the start
of a join (`CredsTold`).

**`RatholeProofs`**: `TypeCorrect`, `SlotOwnedHolds`, `TunnelConfHolds`,
`NothingCutHolds`.  `OwnerInv` keeps the owners disjoint (manager, standby, `FWD_CH`
without repetitions, forwarder, leaked); the counts of `SlotOwned` follow from that with
cardinalities.  `ConfInv` starts at the handshake, `PumpInv` ties a closed end to the
flush of the other.

**`RemoteProofs`**: `TypeCorrect`, `SessionConfHolds`, `RetainedAgreesHolds`,
`ViewSettlesHolds`.

* `ConfInv`: from the moment the client reads its configuration, a changed one has its
  notification in the queue.
* `SessInv`: what the node's packets will do to the retained state: while it is connected
  "online" is retained or on its way and nothing after it takes it back; when it has
  closed, the last two packets are "offline" and the DISCONNECT (`Ending`).
* `ViewInv`: the last state on its way to a subscribed bridge, or the one seen if none is
  on its way, is the retained one (`Settles`).

Only model-checked: liveness (all properties stated with `~>`: `PlaybackEnds`,
`LeftHostFreed`, `InvitesAgain`, `ConnectEnds`, `TxResumes`, `EngineNeverBlocks`,
`SwitchHonoured`, `CredsApplied`, `StopSeen`, `StopHonoured` and the three of `Arduino`),
since the prover has no fairness reasoning.

## 7. Plan

Proofs still worth having: the transmit ring refines `Fifo` when the fill level is
computed without the sign (a lemma about `TxCount` that isolates the defect of section 5);
step lemmas for the liveness arguments, that is, what each helpful action does to the
distance from the goal (`TickStrPress`, `Turn`, `Unblock`), with fairness itself left to
TLC; invariants of `Arduino` that its liveness rests on.

## 8. Not modelled

* Custom buttons (`AT+KEY_CFG`): a poll of pins with one remembered level per button; its
  presses enter the router like `AT+KEY`.
* The role flag: one flash record, read only at start-up.
* The dongle's forwarding of notifications, its passkey and diagnostic reads; slot names
  and own addresses; the single-host build's advertising.
* The Arduino HTTP server and SSDP with their switch, its tunnel client and access-point
  portal, and its report state of single keys; its restart after five failed
  TLS allocations; that its advertising starts is taken for granted.
* The Rust node's SSDP announcements, its publish on behalf of HTTP, status routes, pins,
  ADC, I2C and LED.
* What some properties do not say.  `StopSeen` is about a client that was stopped
  (`running` off), not about `mqtt.enable` off, after which the client connects again;
  `NothingCut` about bytes, not about a close that is lost when the socket is dropped right
  after it; `StopHonoured` about the control channel, not about visitors being served.
* Descriptors, GATT attribute tables and other data; wording of answers; test scripts.
* Vendored code: the BLE library's headers, the peripheral library, register definitions
  and start-up code are more than half of the repository's lines.  They appear as the
  environment of the models.  The map therefore covers a small share of all lines,
  although it covers the control of the components above.
