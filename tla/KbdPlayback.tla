---------------------------- MODULE KbdPlayback ----------------------------
(***************************************************************************)
(* The CH582 keyboard engine of at_cmds.c: the output router (kb_flush)    *)
(* and the playback of AT+TAP, AT+KEY_SEQ and AT+KEY_STR by one TMOS timer *)
(* (SEQ_EVENT), with AT+KEY, AT+MOD and AT+DEV arriving at any moment.     *)
(*                                                                         *)
(* A HID report is Release (no modifier, no key) or a member of Keys.      *)
(* A character is the report keystr_map gives it, or Unmapped.             *)
(* TMOS runs one handler at a time, so a handler is one action; the links, *)
(* the USB interrupt and the hosts run between any two of them.            *)
(* SEQ_EVENT is two things: a TMOS timer that runs, and the event an       *)
(* expired timer has set and no handler has taken yet.  A command can be   *)
(* handled while the event is set, and then both are there.                *)
(***************************************************************************)
EXTENDS Naturals, Sequences

CONSTANTS
  Slots,            \* the BLE host slots, KBD_MAX_CONN of them
  BLE1,             \* slot 0, the power-on target
  Multi,            \* KBD_MAX_CONN > 1: the single-active-link build
  Keys,             \* the reports that hold something down
  Release,          \* the all-zero report
  Unmapped,         \* a character keystr_map has no key for
  USB,              \* the USB output
  Empty,            \* endpoint 2 has nothing armed
  SEQ_MAX_REPORTS,  \* the capacity of seq_buf
  KEYSTR_MAX,       \* the capacity of keystr_buf
  MaxCmds           \* bound: accepted playback commands

ASSUME SlotsAssumption == BLE1 \in Slots /\ USB \notin Slots /\ Multi \in BOOLEAN
ASSUME ReportsAssumption ==
  /\ Release \notin Keys /\ Unmapped \notin Keys /\ Unmapped # Release
  /\ Empty \notin Keys /\ Empty # Release
ASSUME BoundsAssumption ==
  /\ SEQ_MAX_REPORTS \in Nat /\ SEQ_MAX_REPORTS >= 2
  /\ KEYSTR_MAX \in Nat /\ KEYSTR_MAX >= 1
  /\ MaxCmds \in Nat

Outputs == Slots \cup {USB}
Report  == Keys \cup {Release}
Char    == Keys \cup {Unmapped}

VARIABLES
  kb_target,      \* the one output AT+DEV selected
  link,           \* per slot: "down", "insecure" (not yet encrypted) or "secure"
  closing,        \* slots whose link GAPRole_TerminateLink has been asked to end
  usb_ready,      \* Ready: USB is enumerated
  ep2,            \* the HID IN endpoint: the armed report, or Empty
  host,           \* the report each host acted on last
  seq_buf,        \* queued reports of TAP and KEY_SEQ; Len is seq_count
  seq_idx,        \* the next of them, from 0
  keystr_buf,     \* the text of KEY_STR; Len is keystr_len
  keystr_idx,     \* 2c: press character c, 2c+1: release it
  keystr_active,
  timer,          \* tmos_start_task(SEQ_EVENT) has been called and is running
  event,          \* SEQ_EVENT is set: kb_seq_process_event is due
  cmds,           \* accepted playback commands so far
  urcs,           \* +KEY_DONE lines so far
  last,           \* history: the last accepted playback command, "seq" or "str"
  typed,          \* history: the keys flushed for the running KEY_STR
  excused,        \* history: outputs left pressed on purpose or by a counted drop
  switched        \* history: outputs AT+DEV turned away from while pressed

playVars  == <<seq_buf, seq_idx, keystr_buf, keystr_idx, keystr_active, timer, event>>
outVars   == <<usb_ready, link, closing>>
sinkVars  == <<ep2, host, excused, switched>>
countVars == <<cmds, urcs, last, typed>>
vars == <<kb_target, playVars, outVars, sinkVars, countVars>>

-----------------------------------------------------------------------------
(* What the host of output h will have acted on once it has polled.        *)
Effective(h) == IF h = USB /\ ep2 # Empty THEN ep2 ELSE host[h]
Held(h) == Effective(h) # Release

Init ==
  /\ kb_target = BLE1                   \* KB_TGT_BLE1
  /\ link = [s \in Slots |-> "down"]
  /\ closing = {}
  /\ usb_ready = FALSE
  /\ ep2 = Empty
  /\ host = [h \in Outputs |-> Release]
  /\ seq_buf = <<>> /\ seq_idx = 0
  /\ keystr_buf = <<>> /\ keystr_idx = 0 /\ keystr_active = FALSE
  /\ timer = FALSE /\ event = FALSE
  /\ cmds = 0 /\ urcs = 0 /\ last = "none" /\ typed = <<>>
  /\ excused = {} /\ switched = {}

-----------------------------------------------------------------------------
(* kb_flush: one report to the selected output.  `hold' says that leaving  *)
(* this report pressed is what the command asked for (history only).       *)
Note(h, rep, hold) ==
  /\ excused'  = IF rep = Release THEN excused \ {h}
                 ELSE IF hold THEN excused \cup {h} ELSE excused
  /\ switched' = IF rep = Release THEN switched \ {h} ELSE switched

(* SUCCESS within the retry budget: the notification is on its way.        *)
FlushBle(rep, hold) ==
  /\ kb_target \in Slots /\ link[kb_target] = "secure"
  /\ host' = [host EXCEPT ![kb_target] = rep]
  /\ Note(kb_target, rep, hold)
  /\ UNCHANGED ep2

(* 60 tries met a full queue, or the host has not subscribed: the report   *)
(* is gone and kb_ble_drops counts it.                                     *)
DropBle ==
  /\ kb_target \in Slots /\ link[kb_target] = "secure"
  /\ excused' = IF Held(kb_target) THEN excused \cup {kb_target} ELSE excused
  /\ UNCHANGED <<ep2, host, switched>>

(* USB_HID_SendReport overwrites the endpoint buffer, polled or not.       *)
FlushUsb(rep, hold) ==
  /\ kb_target = USB /\ usb_ready
  /\ ep2' = rep
  /\ Note(USB, rep, hold)
  /\ UNCHANGED host

(* Slot free, link not encrypted (bleNotReady), or USB not enumerated.     *)
FlushNowhere ==
  /\ \/ kb_target \in Slots /\ link[kb_target] # "secure"
     \/ kb_target = USB /\ ~usb_ready
  /\ UNCHANGED sinkVars

KbFlush(rep, hold) ==
  \/ FlushBle(rep, hold)
  \/ DropBle
  \/ FlushUsb(rep, hold)
  \/ FlushNowhere

-----------------------------------------------------------------------------
(* AT+KEY and AT+MOD: one report, at once, next to any running playback.   *)
Key(rep) ==
  /\ KbFlush(rep, TRUE)
  /\ UNCHANGED <<kb_target, playVars, outVars, countVars>>

(* Faulty: the queueing commands share the index of the string playback.   *)
Enqueue_SharedIndex(reps) ==
  /\ cmds < MaxCmds
  /\ seq_buf' = reps
  /\ seq_idx' = 0 /\ keystr_idx' = 0
  /\ timer' = TRUE
  /\ cmds' = cmds + 1
  /\ last' = "seq"
  /\ UNCHANGED <<kb_target, outVars, sinkVars, keystr_buf, keystr_active, event, urcs,
                 typed>>

(* Common end of the queueing commands: replace seq_buf, start the timer.  *)
(* An event that is set already stays set.                                 *)
Enqueue(reps) ==
  /\ cmds < MaxCmds
  /\ seq_buf' = reps
  /\ seq_idx' = 0
  /\ timer' = TRUE
  /\ cmds' = cmds + 1
  /\ last' = "seq"
  /\ UNCHANGED <<kb_target, outVars, sinkVars, keystr_buf, keystr_idx,
                 keystr_active, event, urcs, typed>>

Tap(rep) == Enqueue(<<rep, Release>>)

KeySeq(reps) == Len(reps) \in 1..SEQ_MAX_REPORTS /\ Enqueue(reps)

(* Faulty: the text is not cut to the buffer.                              *)
KeyStr_NoCut(text) ==
  /\ cmds < MaxCmds
  /\ keystr_buf' = text
  /\ keystr_idx' = 0 /\ keystr_active' = TRUE /\ timer' = TRUE
  /\ cmds' = cmds + 1
  /\ last' = "str" /\ typed' = <<>>
  /\ UNCHANGED <<kb_target, outVars, sinkVars, seq_buf, seq_idx, event, urcs>>

(* AT+KEY_STR: longer texts are cut at KEYSTR_MAX (the parser never hands  *)
(* over an empty argument).                                                *)
KeyStr(text) ==
  /\ cmds < MaxCmds
  /\ Len(text) >= 1
  /\ keystr_buf' = SubSeq(text, 1, IF Len(text) > KEYSTR_MAX THEN KEYSTR_MAX ELSE Len(text))
  /\ keystr_idx' = 0
  /\ keystr_active' = TRUE
  /\ timer' = TRUE
  /\ cmds' = cmds + 1
  /\ last' = "str"
  /\ typed' = <<>>
  /\ UNCHANGED <<kb_target, outVars, sinkVars, seq_buf, seq_idx, event, urcs>>

(* Faulty: the links of the other slots are left alone.                    *)
Dev_NoClose(t) ==
  /\ kb_target' = t
  /\ switched' = IF t # kb_target /\ Held(kb_target)
                 THEN switched \cup {kb_target} ELSE switched
  /\ UNCHANGED <<playVars, outVars, ep2, host, excused, countVars>>

(* AT+DEV: point the router elsewhere.  kb_ble_activate_slot asks the      *)
(* other links (multi) or this one (single) to end; a key that is down on  *)
(* the output left behind stays down there.                                *)
Dev(t) ==
  /\ kb_target' = t
  /\ closing' = closing \cup
       {s \in Slots : /\ link[s] # "down"
                      /\ IF Multi THEN s # t ELSE s = t}
  /\ switched' = IF t # kb_target /\ Held(kb_target)
                 THEN switched \cup {kb_target} ELSE switched
  /\ UNCHANGED <<playVars, usb_ready, link, ep2, host, excused, countVars>>

-----------------------------------------------------------------------------
(* kb_seq_process_event, one SEQ_EVENT.                                    *)
Mapped(c) == c # Unmapped

(* Faulty: the end is reached one step early, before the last release.     *)
TickStrEnd_Early ==
  /\ keystr_active /\ keystr_idx + 1 >= 2 * Len(keystr_buf)
  /\ keystr_active' = FALSE
  /\ urcs' = urcs + 1
  /\ UNCHANGED <<timer, seq_buf, seq_idx, keystr_buf, keystr_idx, typed, sinkVars>>

(* Faulty: the timer is started again at the end of the text.              *)
TickStrEnd_Rearm ==
  /\ keystr_active /\ keystr_idx \div 2 >= Len(keystr_buf)
  /\ keystr_active' = FALSE
  /\ timer' = TRUE
  /\ urcs' = urcs + 1
  /\ UNCHANGED <<seq_buf, seq_idx, keystr_buf, keystr_idx, typed, sinkVars>>

(* The text is finished: +KEY_DONE, and the timer is not started again; if *)
(* a command has started it since this event was set, it keeps running.    *)
TickStrEnd ==
  /\ keystr_active /\ keystr_idx \div 2 >= Len(keystr_buf)
  /\ keystr_active' = FALSE
  /\ urcs' = urcs + 1
  /\ UNCHANGED <<timer, seq_buf, seq_idx, keystr_buf, keystr_idx, typed, sinkVars>>

TickStrRelease ==
  /\ keystr_active /\ keystr_idx \div 2 < Len(keystr_buf) /\ keystr_idx % 2 = 1
  /\ KbFlush(Release, FALSE)
  /\ keystr_idx' = keystr_idx + 1
  /\ timer' = TRUE
  /\ UNCHANGED <<seq_buf, seq_idx, keystr_buf, keystr_active, urcs, typed>>

(* Faulty: a character without a key returns before the timer is started.  *)
TickStrPress_NoRearm ==
  /\ keystr_active /\ keystr_idx \div 2 < Len(keystr_buf) /\ keystr_idx % 2 = 0
  /\ LET c == keystr_buf[keystr_idx \div 2 + 1] IN
       /\ IF Mapped(c) THEN KbFlush(c, FALSE) /\ typed' = Append(typed, c)
                       ELSE UNCHANGED <<sinkVars, typed>>
       /\ timer' = (timer \/ Mapped(c))
  /\ keystr_idx' = keystr_idx + 1
  /\ UNCHANGED <<seq_buf, seq_idx, keystr_buf, keystr_active, urcs>>

TickStrPress ==
  /\ keystr_active /\ keystr_idx \div 2 < Len(keystr_buf) /\ keystr_idx % 2 = 0
  /\ LET c == keystr_buf[keystr_idx \div 2 + 1] IN
       IF Mapped(c) THEN KbFlush(c, FALSE) /\ typed' = Append(typed, c)
                    ELSE UNCHANGED <<sinkVars, typed>>
  /\ keystr_idx' = keystr_idx + 1
  /\ timer' = TRUE
  /\ UNCHANGED <<seq_buf, seq_idx, keystr_buf, keystr_active, urcs>>

(* Faulty: +KEY_DONE for every report.                                     *)
TickSeq_DoneEach ==
  /\ ~keystr_active /\ seq_idx < Len(seq_buf)
  /\ KbFlush(seq_buf[seq_idx + 1], seq_idx + 1 = Len(seq_buf))
  /\ seq_idx' = seq_idx + 1
  /\ timer' = (timer \/ seq_idx + 1 < Len(seq_buf))
  /\ urcs' = urcs + 1
  /\ UNCHANGED <<seq_buf, keystr_buf, keystr_idx, keystr_active, typed>>

(* Faulty: the index is not advanced.                                      *)
TickSeq_NoStep ==
  /\ ~keystr_active /\ seq_idx < Len(seq_buf)
  /\ KbFlush(seq_buf[seq_idx + 1], seq_idx + 1 = Len(seq_buf))
  /\ seq_idx' = seq_idx
  /\ timer' = (timer \/ seq_idx + 1 < Len(seq_buf))
  /\ urcs' = IF seq_idx + 1 < Len(seq_buf) THEN urcs ELSE urcs + 1
  /\ UNCHANGED <<seq_buf, keystr_buf, keystr_idx, keystr_active, typed>>

TickSeq ==
  /\ ~keystr_active /\ seq_idx < Len(seq_buf)
  /\ KbFlush(seq_buf[seq_idx + 1], seq_idx + 1 = Len(seq_buf))
  /\ seq_idx' = seq_idx + 1
  /\ timer' = (timer \/ seq_idx + 1 < Len(seq_buf))
  /\ urcs' = IF seq_idx + 1 < Len(seq_buf) THEN urcs ELSE urcs + 1
  /\ UNCHANGED <<seq_buf, keystr_buf, keystr_idx, keystr_active, typed>>

(* Nothing left to play: the handler only takes the event.                 *)
TickIdle ==
  /\ ~keystr_active /\ seq_idx >= Len(seq_buf)
  /\ UNCHANGED <<seq_buf, seq_idx, keystr_buf, keystr_idx, keystr_active, timer, urcs,
                 typed, sinkVars>>

Tick ==
  /\ event
  /\ event' = FALSE                        \* return evt ^ SEQ_EVENT
  /\ TickStrEnd \/ TickStrRelease \/ TickStrPress \/ TickSeq \/ TickIdle
  /\ UNCHANGED <<kb_target, outVars, cmds, last>>

(* TMOS: the timer runs out and sets the event.                            *)
Expire ==
  /\ timer
  /\ timer' = FALSE /\ event' = TRUE
  /\ UNCHANGED <<kb_target, seq_buf, seq_idx, keystr_buf, keystr_idx, keystr_active,
                 outVars, sinkVars, countVars>>

-----------------------------------------------------------------------------
(* The hosts and the links.  A host that loses its keyboard lets every key *)
(* go.                                                                     *)
LinkUp(s) ==
  /\ link[s] = "down"
  /\ link' = [link EXCEPT ![s] = "insecure"]
  /\ UNCHANGED <<kb_target, playVars, usb_ready, closing, sinkVars, countVars>>

LinkSecure(s) ==
  /\ link[s] = "insecure"
  /\ link' = [link EXCEPT ![s] = "secure"]
  /\ UNCHANGED <<kb_target, playVars, usb_ready, closing, sinkVars, countVars>>

LinkDown(s) ==
  /\ link[s] # "down"
  /\ link' = [link EXCEPT ![s] = "down"]
  /\ closing' = closing \ {s}
  /\ host' = [host EXCEPT ![s] = Release]
  /\ excused' = excused \ {s}
  /\ switched' = switched \ {s}
  /\ UNCHANGED <<kb_target, playVars, usb_ready, ep2, countVars>>

(* SET_CONFIGURATION / the enumeration's control traffic sets Ready.       *)
UsbUp ==
  /\ ~usb_ready
  /\ usb_ready' = TRUE
  /\ UNCHANGED <<kb_target, playVars, link, closing, sinkVars, countVars>>

(* Bus reset: Ready is cleared and endpoint 2 answers NAK.                 *)
UsbReset ==
  /\ usb_ready
  /\ usb_ready' = FALSE
  /\ ep2' = Empty
  /\ host' = [host EXCEPT ![USB] = Release]
  /\ excused' = excused \ {USB}
  /\ switched' = switched \ {USB}
  /\ UNCHANGED <<kb_target, playVars, link, closing, countVars>>

(* The host polls endpoint 2; the IN handler sets it back to NAK.          *)
UsbPoll ==
  /\ ep2 # Empty
  /\ host' = [host EXCEPT ![USB] = ep2]
  /\ ep2' = Empty
  /\ UNCHANGED <<kb_target, playVars, outVars, excused, switched, countVars>>

(* SET_FEATURE or CLEAR_FEATURE (ENDPOINT_HALT) of endpoint 2: it answers  *)
(* STALL or NAK and the armed report is not sent; if that was a release,   *)
(* the host keeps its key.                                                 *)
UsbHalt ==
  /\ ep2 # Empty
  /\ ep2' = Empty
  /\ excused' = IF host[USB] = Release THEN excused \ {USB}
                ELSE IF ep2 = Release THEN excused \cup {USB} ELSE excused
  /\ switched' = IF host[USB] = Release THEN switched \ {USB} ELSE switched
  /\ UNCHANGED <<kb_target, playVars, outVars, host, countVars>>

Env ==
  \/ \E s \in Slots : LinkUp(s) \/ LinkSecure(s) \/ LinkDown(s)
  \/ UsbUp \/ UsbReset \/ UsbPoll \/ UsbHalt

Cmd ==
  \/ \E rep \in Report : Key(rep) \/ Tap(rep)
  \/ \E n \in 1..SEQ_MAX_REPORTS : \E reps \in [1..n -> Report] : KeySeq(reps)
  \/ \E n \in 1..(KEYSTR_MAX + 1) : \E text \in [1..n -> Char] : KeyStr(text)
  \/ \E t \in Outputs : Dev(t)

Next == Cmd \/ Expire \/ Tick \/ Env

(* TMOS lets a started timer run out and calls the handler of a set event, *)
(* and the controller always reports the end of a link it was asked to     *)
(* terminate.                                                              *)
Closed(s) == s \in closing /\ LinkDown(s)
Fairness == WF_vars(Expire) /\ WF_vars(Tick) /\ \A s \in Slots : WF_vars(Closed(s))

Spec == Init /\ [][Next]_vars /\ Fairness

-----------------------------------------------------------------------------
(* A SEQ_EVENT is still to come.                                           *)
Armed == timer \/ event

TypeOK ==
  /\ kb_target \in Outputs
  /\ link \in [Slots -> {"down", "insecure", "secure"}]
  /\ closing \in SUBSET Slots
  /\ usb_ready \in BOOLEAN
  /\ ep2 \in Report \cup {Empty}
  /\ host \in [Outputs -> Report]
  /\ seq_buf \in Seq(Report) /\ Len(seq_buf) <= SEQ_MAX_REPORTS
  /\ seq_idx \in 0..Len(seq_buf)
  /\ keystr_buf \in Seq(Char) /\ Len(keystr_buf) <= KEYSTR_MAX
  /\ keystr_idx \in 0..(2 * Len(keystr_buf))
  /\ keystr_active \in BOOLEAN
  /\ timer \in BOOLEAN /\ event \in BOOLEAN
  /\ cmds \in 0..MaxCmds
  /\ urcs \in Nat
  /\ last \in {"none", "seq", "str"}
  /\ typed \in Seq(Keys)
  /\ excused \in SUBSET Outputs
  /\ switched \in SUBSET Outputs

(* No stuck key: once the timer is idle, a key can be down at a host only  *)
(* because a command asked for it (AT+KEY, AT+MOD, an unfinished KEY_SEQ), *)
(* because the stack dropped the release and counted it or the USB host    *)
(* halted the endpoint on it, or because AT+DEV moved the output away      *)
(* mid-press.  TAP and KEY_STR release what they     *)
(* press, whatever commands, link losses and USB resets come in between    *)
(* (kb_seq_process_event, kb_flush).                                       *)
NoStuckKey ==
  ~Armed => \A h \in Outputs : Held(h) => h \in excused \cup switched

(* A string that is playing always has its timer: the handler re-arms it   *)
(* on every path but the one that ends the playback.                       *)
StringHasTimer == keystr_active => Armed

(* The agents that synchronize on +KEY_DONE (comment in                    *)
(* kb_seq_process_event, 2026-07-24): once every accepted playback command *)
(* has had its line, no text plays, no report is queued and no timer or    *)
(* event is left over that could still type one.                           *)
AnsweredMeansQuiet ==
  urcs = cmds => ~Armed /\ ~keystr_active /\ seq_idx = Len(seq_buf)

(* t is what keystr_map can type of the first n characters of s: their     *)
(* mapped characters, each once and in order (p: where they are in s).     *)
TypedOf(t, s, n) ==
  \E p \in [1..Len(t) -> 1..n] :
    /\ \A j \in 1..Len(t) : t[j] = s[p[j]]
    /\ \A i, j \in 1..Len(t) : i < j => p[i] < p[j]
    /\ {p[j] : j \in 1..Len(t)} = {i \in 1..n : Mapped(s[i])}

(* +KEY_DONE of a string means that every mapped character was flushed,    *)
(* in order and once, whatever TAP, KEY_SEQ, KEY or DEV commands arrived   *)
(* during the playback.                                                    *)
DoneMeansTyped ==
  [][keystr_active /\ ~keystr_active' => TypedOf(typed, keystr_buf, Len(keystr_buf))]_vars

(* No command is answered by two completions: there are never more         *)
(* +KEY_DONE lines than accepted playback commands.                        *)
OneDonePerCommand == urcs <= cmds

(* Playback ends: with finitely many commands the timer chain runs dry.    *)
PlaybackEnds == Armed ~> ~Armed

(* In the multi-host build the single-active-link policy is what frees a   *)
(* BLE host AT+DEV turned away from mid-press: its link is terminated.     *)
LeftHostFreed == Multi => \A s \in Slots : s \in switched ~> s \notin switched

-----------------------------------------------------------------------------
(* What the source's own words say and TLC refutes; see the README.        *)

(* What the comments of at_cmds.c promise of TAP and KEY_SEQ: the command  *)
(* replaces what is running, and its reports are played back by the timer. *)
(* So a queue that no later command replaced has a timer to play it.       *)
QueueHasTimer == last = "seq" /\ seq_idx < Len(seq_buf) => Armed

(* The same comment taken by itself, for an agent that does not wait:      *)
(* after a +KEY_DONE line nothing is typed.  A TAP or KEY_SEQ handled while *)
(* the event of a text's last tick is set starts a timer that tick does    *)
(* not stop, and the queue plays after the line.                           *)
DoneMeansQuiet == [][urcs' # urcs => ~Armed' /\ ~keystr_active']_vars
=============================================================================
