------------------------------ MODULE KbdSlots ------------------------------
(***************************************************************************)
(* Host slots of the multi-host keyboard (hidkbd_ble.c and the connection  *)
(* table of ble_hid_dev.c, KBD_MULTI build): which host holds which slot,  *)
(* the pairing window, the single-active-link policy, the advertising      *)
(* policy and the reservations in DataFlash.                               *)
(*                                                                         *)
(* A link is named by its host: a host has at most one link, and its       *)
(* connection handle is as good as its address.  AT commands, GAP events   *)
(* and timers are TMOS handlers, one action each; GAPRole_TerminateLink    *)
(* only asks, the end of the link is a later event.                        *)
(***************************************************************************)
EXTENDS Naturals, FiniteSets

CONSTANTS
  KBD_MAX_CONN,   \* slots, and links the controller carries at once
  Hosts,
  Public,         \* the hosts whose address type is public, not random
  None            \* no slot, no host; as a target: USB only

ASSUME ConnAssumption  == KBD_MAX_CONN \in Nat /\ KBD_MAX_CONN > 1
ASSUME HostsAssumption ==
  /\ IsFiniteSet(Hosts) /\ Public \subseteq Hosts
  /\ None \notin Hosts /\ None \notin Nat

Slots == 0..(KBD_MAX_CONN - 1)

VARIABLES
  kb_target,       \* the BLE slot AT+DEV selected, None for USB
  kbd_conns,       \* slot -> host whose link it routes to
  slotmap,         \* slot -> host it is reserved for
  flash,           \* the copy of slotmap in DataFlash (None everywhere: erased)
  pair_slot,       \* slot the pairing window is open for
  links,           \* hosts with a link
  closing,         \* of these, the links asked to terminate
  gapConnHandles,  \* ble_hid_dev's own table: index -> host
  hidDevConnSecure,\* index -> the link is encrypted
  bonded,          \* hosts in the bond manager's store
  adv_on,          \* GAPROLE_ADVERT_ENABLED
  adv_peer,        \* None: general advertising; a host: directed at it
  rearm,           \* ADV_REARM_EVT is pending
  paired,          \* history: hosts that completed pairing on their link
  forgotten        \* history: hosts removed by unbind, not seen since

gapVars  == <<links, closing>>
hidVars  == <<gapConnHandles, hidDevConnSecure>>
mapVars  == <<slotmap, flash>>
advVars  == <<adv_on, adv_peer, rearm>>
histVars == <<paired, forgotten>>
vars == <<kb_target, kbd_conns, pair_slot, bonded, gapVars, hidVars, mapVars,
          advVars, histVars>>

NoHosts == [s \in Slots |-> None]
Lowest(S) == CHOOSE s \in S : \A t \in S : s <= t

-----------------------------------------------------------------------------
(* kbd_adv_update, the last call of a handler: it reads the state the      *)
(* handler leaves.                                                         *)
Window   == pair_slot # None /\ kb_target # None

(* Faulty: directed advertising goes on during the pairing window.         *)
Waiting_InWindow ==
  /\ \A s \in Slots : kbd_conns[s] = None
  /\ kb_target # None /\ slotmap[kb_target] # None

Waiting  == /\ ~Window
            /\ \A s \in Slots : kbd_conns[s] = None
            /\ kb_target # None /\ slotmap[kb_target] # None

(* Faulty: the directed burst is not repeated by the timer.                *)
AdvUpdate_NoRearm ==
  /\ adv_on' = (Window' \/ Waiting')
  /\ adv_peer' = IF Waiting' THEN slotmap'[kb_target'] ELSE None
  /\ rearm' = FALSE

(* Faulty: the slot number instead of its host's address.                  *)
AdvUpdate_PeerIsSlot ==
  /\ adv_on' = (Window' \/ Waiting')
  /\ adv_peer' = IF Waiting' THEN kb_target' ELSE None
  /\ rearm' = (Waiting' /\ pair_slot' = None)

AdvUpdate ==
  /\ adv_on' = (Window' \/ Waiting')
  /\ adv_peer' = IF Waiting' THEN slotmap'[kb_target'] ELSE None
  /\ rearm' = (Waiting' /\ pair_slot' = None)

(* kb_ble_apply_addr: off, own address, on again - whatever the policy     *)
(* says, with the event type left from the last update.                    *)
ApplyAddr == adv_on' = TRUE /\ UNCHANGED <<adv_peer, rearm>>

(* GAPRole_TerminateLink for the links of a set of slots.                  *)
Terminate(S) == closing' = closing \cup {kbd_conns[s] : s \in {t \in S : kbd_conns[t] # None}}

-----------------------------------------------------------------------------
(* Faulty: selecting a slot leaves advertising as it was.                  *)
DevBle_NoAdv(t) ==
  /\ kb_target' = t
  /\ Terminate(Slots \ {t})
  /\ UNCHANGED <<kbd_conns, pair_slot, links, bonded, hidVars, mapVars, histVars, advVars>>

(* Faulty: selecting USB leaves the pairing window open.                   *)
DevUsb_KeepsWindow ==
  /\ kb_target' = None
  /\ Terminate(Slots)
  /\ UNCHANGED <<kbd_conns, pair_slot, links, bonded, hidVars, mapVars, histVars>>
  /\ AdvUpdate

(* AT+DEV and its kb_ble_activate_slot.                                    *)
DevBle(t) ==
  /\ kb_target' = t
  /\ Terminate(Slots \ {t})
  /\ UNCHANGED <<kbd_conns, pair_slot, links, bonded, hidVars, mapVars, histVars>>
  /\ ApplyAddr

DevUsb ==
  /\ kb_target' = None
  /\ Terminate(Slots)
  /\ pair_slot' = None
  /\ UNCHANGED <<kbd_conns, links, bonded, hidVars, mapVars, histVars>>
  /\ AdvUpdate

(* Faulty: the cleared reservation is not saved.                           *)
Unbind_NoSave(s) ==
  /\ slotmap' = [slotmap EXCEPT ![s] = None]
  /\ bonded' = IF slotmap[s] \in Public THEN bonded ELSE bonded \ {slotmap[s]}
  /\ forgotten' = forgotten \cup {slotmap[s]}
  /\ UNCHANGED flash

(* kb_ble_unbind_slot: reservation cleared and saved, link asked to end,   *)
(* bond erased - with the address type fixed to random.                    *)
Unbind(s) ==
  /\ slotmap' = [slotmap EXCEPT ![s] = None]
  /\ flash' = slotmap'
  /\ bonded' = IF slotmap[s] \in Public THEN bonded ELSE bonded \ {slotmap[s]}
  /\ forgotten' = forgotten \cup {slotmap[s]}

BtUnbind(s) ==
  /\ slotmap[s] # None
  /\ Unbind(s)
  /\ Terminate({s})
  /\ UNCHANGED <<kb_target, kbd_conns, pair_slot, links, paired, hidVars, advVars>>

(* AT+BT_PAIR=<slot>: unbind it (with its link's end) if it is reserved,   *)
(* point at it and open the window.                                        *)
BtPairSlot(s) ==
  /\ IF slotmap[s] # None
     THEN Unbind(s) /\ Terminate(Slots)
     ELSE UNCHANGED <<mapVars, bonded, forgotten>> /\ Terminate(Slots \ {s})
  /\ kb_target' = s
  /\ pair_slot' = s
  /\ UNCHANGED <<kbd_conns, links, paired, hidVars>>
  /\ AdvUpdate

(* AT+BT_PAIR without a slot: the active one, without unbinding.           *)
BtPairActive ==
  /\ kb_target # None
  /\ Terminate(Slots \ {kb_target})
  /\ pair_slot' = kb_target
  /\ UNCHANGED <<kb_target, kbd_conns, links, bonded, hidVars, mapVars, histVars>>
  /\ AdvUpdate

(* AT+BT_DISC[=<slot>].                                                    *)
BtDisc(S) ==
  /\ \E s \in S : kbd_conns[s] # None
  /\ Terminate(S)
  /\ UNCHANGED <<kb_target, kbd_conns, pair_slot, links, bonded, hidVars, mapVars,
                 advVars, histVars>>

-----------------------------------------------------------------------------
(* GAP_LINK_ESTABLISHED_EVENT: first ble_hid_dev, then the policy, then    *)
(* the slot table.                                                         *)
slotmap_find(h) == {s \in Slots : slotmap[s] = h}

(* A non-target slot's host, or an unknown host outside the window.        *)
PolicyDrop(h) ==
  IF slotmap_find(h) = {} THEN pair_slot = None
  ELSE kb_target = None \/ Lowest(slotmap_find(h)) # kb_target

Free(s) == s # None /\ kbd_conns[s] = None /\ slotmap[s] = None

kbd_next_pair_slot ==
  IF Free(pair_slot) THEN pair_slot
  ELSE IF Free(kb_target) THEN kb_target
  ELSE IF \E s \in Slots : Free(s) THEN Lowest({s \in Slots : Free(s)})
  ELSE None

HidAlloc(h) ==
  LET free == {i \in Slots : gapConnHandles[i] = None}
  IN  IF free = {} THEN UNCHANGED hidVars
      ELSE /\ gapConnHandles' = [gapConnHandles EXCEPT ![Lowest(free)] = h]
           /\ hidDevConnSecure' = [hidDevConnSecure EXCEPT ![Lowest(free)] = FALSE]

Established(h) ==
  /\ adv_on /\ adv_peer \in {None, h}
  /\ h \notin links /\ Cardinality(links) < KBD_MAX_CONN
  /\ links' = links \cup {h}
  /\ HidAlloc(h)
  /\ adv_on' = FALSE
  /\ forgotten' = forgotten \ {h}
  /\ UNCHANGED <<kb_target, pair_slot, bonded, adv_peer, rearm, paired>>

Rejected(h) ==
  /\ Established(h) /\ PolicyDrop(h)
  /\ closing' = closing \cup {h}
  /\ UNCHANGED <<kbd_conns, mapVars>>

KnownHost(h) ==
  /\ Established(h) /\ ~PolicyDrop(h)
  /\ \E s \in slotmap_find(h) :
       /\ kbd_conns[s] = None
       /\ kbd_conns' = [kbd_conns EXCEPT ![s] = h]
  /\ UNCHANGED <<closing, mapVars>>

(* Faulty: the window's slot is reserved, not the one allocated.           *)
NewHost_ReservesWindow(h) ==
  /\ Established(h) /\ ~PolicyDrop(h)
  /\ \A s \in slotmap_find(h) : kbd_conns[s] # None
  /\ kbd_next_pair_slot # None
  /\ kbd_conns' = [kbd_conns EXCEPT ![kbd_next_pair_slot] = h]
  /\ slotmap' = [slotmap EXCEPT ![pair_slot] = h]
  /\ flash' = slotmap'
  /\ UNCHANGED closing

(* A new host; also a known one whose slot still carries a link.           *)
NewHost(h) ==
  /\ Established(h) /\ ~PolicyDrop(h)
  /\ \A s \in slotmap_find(h) : kbd_conns[s] # None
  /\ kbd_next_pair_slot # None
  /\ kbd_conns' = [kbd_conns EXCEPT ![kbd_next_pair_slot] = h]
  /\ slotmap' = [slotmap EXCEPT ![kbd_next_pair_slot] = h]
  /\ flash' = slotmap'
  /\ UNCHANGED closing

TableFull(h) ==
  /\ Established(h) /\ ~PolicyDrop(h)
  /\ \A s \in slotmap_find(h) : kbd_conns[s] # None
  /\ kbd_next_pair_slot = None
  /\ closing' = closing \cup {h}
  /\ UNCHANGED <<kbd_conns, mapVars>>

(* Faulty: ble_hid_dev's table entry is not freed.                          *)
LinkTerminated_KeepsEntry(h) ==
  /\ h \in links
  /\ links' = links \ {h}
  /\ closing' = closing \ {h}
  /\ gapConnHandles' = gapConnHandles
  /\ hidDevConnSecure' = [i \in Slots |-> gapConnHandles[i] # h /\ hidDevConnSecure[i]]
  /\ kbd_conns' = [s \in Slots |-> IF kbd_conns[s] = h THEN None ELSE kbd_conns[s]]
  /\ paired' = paired \ {h}
  /\ UNCHANGED <<kb_target, pair_slot, bonded, mapVars, forgotten>>
  /\ AdvUpdate

(* Faulty: the entry's secure flag is not cleared.                          *)
LinkTerminated_KeepsFlag(h) ==
  /\ h \in links
  /\ links' = links \ {h}
  /\ closing' = closing \ {h}
  /\ gapConnHandles' = [i \in Slots |-> IF gapConnHandles[i] = h THEN None ELSE gapConnHandles[i]]
  /\ hidDevConnSecure' = hidDevConnSecure
  /\ kbd_conns' = [s \in Slots |-> IF kbd_conns[s] = h THEN None ELSE kbd_conns[s]]
  /\ paired' = paired \ {h}
  /\ UNCHANGED <<kb_target, pair_slot, bonded, mapVars, forgotten>>
  /\ AdvUpdate

(* Faulty: the slot is not freed.                                           *)
LinkTerminated_KeepsSlot(h) ==
  /\ h \in links
  /\ links' = links \ {h}
  /\ closing' = closing \ {h}
  /\ gapConnHandles' = [i \in Slots |-> IF gapConnHandles[i] = h THEN None ELSE gapConnHandles[i]]
  /\ hidDevConnSecure' = [i \in Slots |-> gapConnHandles[i] # h /\ hidDevConnSecure[i]]
  /\ kbd_conns' = kbd_conns
  /\ paired' = paired \ {h}
  /\ UNCHANGED <<kb_target, pair_slot, bonded, mapVars, forgotten>>
  /\ AdvUpdate

(* GAP_LINK_TERMINATED_EVENT: ble_hid_dev frees its entry, the slot is     *)
(* freed if the link had one, and advertising is decided anew.             *)
LinkTerminated(h) ==
  /\ h \in links
  /\ links' = links \ {h}
  /\ closing' = closing \ {h}
  /\ gapConnHandles' = [i \in Slots |-> IF gapConnHandles[i] = h THEN None ELSE gapConnHandles[i]]
  /\ hidDevConnSecure' = [i \in Slots |-> gapConnHandles[i] # h /\ hidDevConnSecure[i]]
  /\ kbd_conns' = [s \in Slots |-> IF kbd_conns[s] = h THEN None ELSE kbd_conns[s]]
  /\ paired' = paired \ {h}
  /\ UNCHANGED <<kb_target, pair_slot, bonded, mapVars, forgotten>>
  /\ AdvUpdate

(* hidDevPairStateCB: pairing (or re-encryption) succeeded.                *)
Paired(h) ==
  /\ h \in links
  /\ hidDevConnSecure' = [i \in Slots |-> gapConnHandles[i] = h \/ hidDevConnSecure[i]]
  /\ bonded' = bonded \cup {h}
  /\ paired' = paired \cup {h}
  /\ forgotten' = forgotten \ {h}
  /\ UNCHANGED <<kb_target, kbd_conns, pair_slot, gapVars, gapConnHandles, mapVars, advVars>>

-----------------------------------------------------------------------------
(* Timers of the HID task, and the controller's end of a directed burst.   *)
PairWindowEvt ==
  /\ pair_slot # None
  /\ pair_slot' = None
  /\ UNCHANGED <<kb_target, kbd_conns, bonded, gapVars, hidVars, mapVars, histVars>>
  /\ AdvUpdate

AdvRearmEvt ==
  /\ rearm
  /\ UNCHANGED <<kb_target, kbd_conns, pair_slot, bonded, gapVars, hidVars, mapVars, histVars>>
  /\ AdvUpdate

(* The 1.28 s burst is over; GAPROLE_WAITING may or may not be reported.   *)
BurstEnds ==
  /\ adv_on /\ adv_peer # None
  /\ adv_on' = FALSE
  /\ UNCHANGED <<kb_target, kbd_conns, pair_slot, bonded, gapVars, hidVars, mapVars,
                 adv_peer, rearm, histVars>>

GapWaiting ==
  /\ links = {}
  /\ UNCHANGED <<kb_target, kbd_conns, pair_slot, bonded, gapVars, hidVars, mapVars, histVars>>
  /\ AdvUpdate

(* Restart: RAM is initialised, slotmap_load reads the page, and at        *)
(* GAPROLE_STARTED slot 0's address goes on air.                           *)
Boot(page, bonds) ==
  /\ flash' = page
  /\ slotmap' = page
  /\ kb_target' = 0
  /\ kbd_conns' = NoHosts
  /\ pair_slot' = None
  /\ links' = {} /\ closing' = {}
  /\ gapConnHandles' = NoHosts
  /\ hidDevConnSecure' = [i \in Slots |-> FALSE]
  /\ bonded' = bonds
  /\ adv_on' = TRUE /\ adv_peer' = None /\ rearm' = FALSE
  /\ paired' = {}
  /\ forgotten' = {}

Reboot == Boot(flash, bonded)

(* Power is lost between EEPROM_ERASE and EEPROM_WRITE of a slotmap_save   *)
(* (AT+NAME, AT+PACE and AT+MAC save at any time).                         *)
CrashInSave == Boot(NoHosts, bonded)

(* AT+FACTORY ends in a reset.                                             *)
Factory == Boot(NoHosts, {})

Init ==
  /\ flash = NoHosts /\ slotmap = NoHosts
  /\ kb_target = 0
  /\ kbd_conns = NoHosts
  /\ pair_slot = None
  /\ links = {} /\ closing = {}
  /\ gapConnHandles = NoHosts
  /\ hidDevConnSecure = [i \in Slots |-> FALSE]
  /\ bonded = {}
  /\ adv_on = TRUE /\ adv_peer = None /\ rearm = FALSE
  /\ paired = {} /\ forgotten = {}

AtCmd ==
  \/ \E s \in Slots : DevBle(s) \/ BtUnbind(s) \/ BtPairSlot(s) \/ BtDisc({s})
  \/ DevUsb \/ BtPairActive \/ BtDisc(Slots)
  \/ Factory

GapEvent ==
  \E h \in Hosts : \/ Rejected(h) \/ KnownHost(h) \/ NewHost(h) \/ TableFull(h)
                   \/ LinkTerminated(h) \/ Paired(h)

Timer == PairWindowEvt \/ AdvRearmEvt \/ BurstEnds \/ GapWaiting

Next == AtCmd \/ GapEvent \/ Timer \/ Reboot \/ CrashInSave

(* A started TMOS timer fires; a link asked to end ends.                   *)
Fairness ==
  /\ WF_vars(AdvRearmEvt)
  /\ \A h \in Hosts : WF_vars(h \in closing /\ LinkTerminated(h))

Spec == Init /\ [][Next]_vars /\ Fairness

-----------------------------------------------------------------------------
SlotOrNone == Slots \cup {None}
HostOrNone == Hosts \cup {None}

TypeOK ==
  /\ kb_target \in SlotOrNone
  /\ kbd_conns \in [Slots -> HostOrNone]
  /\ slotmap \in [Slots -> HostOrNone]
  /\ flash \in [Slots -> HostOrNone]
  /\ pair_slot \in SlotOrNone
  /\ links \in SUBSET Hosts
  /\ closing \in SUBSET Hosts
  /\ gapConnHandles \in [Slots -> HostOrNone]
  /\ hidDevConnSecure \in [Slots -> BOOLEAN]
  /\ bonded \in SUBSET Hosts
  /\ adv_on \in BOOLEAN
  /\ adv_peer \in HostOrNone
  /\ rearm \in BOOLEAN
  /\ paired \in SUBSET Hosts
  /\ forgotten \in SUBSET Hosts

(* A slot never routes keystrokes to a host other than the one it is       *)
(* reserved for: AT+DEV=BLE2 types on the host AT+DEV? lists for BLE2      *)
(* (kbd_slot_alloc, kb_ble_unbind_slot, slotmap_load).                     *)
RoutedToOwner ==
  \A s \in Slots : kbd_conns[s] # None /\ slotmap[s] # None => kbd_conns[s] = slotmap[s]

(* A host has one identity: it is reserved in at most one slot and routed  *)
(* to from at most one, though kbd_slot_alloc falls back to a second slot  *)
(* when the recorded one is busy.                                          *)
OneSlotPerHost ==
  \A s, t \in Slots : s # t =>
    /\ slotmap[s] # None => slotmap[s] # slotmap[t]
    /\ kbd_conns[s] # None => kbd_conns[s] # kbd_conns[t]

(* Every link a slot routes to has an entry in ble_hid_dev's own table;    *)
(* without one the link can never become secure and its reports are        *)
(* answered bleNotReady for ever (hiddev_slot_alloc gives rejected links   *)
(* an entry too).                                                          *)
AcceptedIsTracked ==
  \A s \in Slots : kbd_conns[s] # None => \E i \in Slots : gapConnHandles[i] = kbd_conns[s]

(* Reports go out only on a link that was paired since it came up: no      *)
(* secure flag survives from the table entry's last occupant.              *)
SecureIsFresh ==
  \A i \in Slots : hidDevConnSecure[i] => gapConnHandles[i] \in paired

(* AT+DEV=USB silences BLE: no window, no advertising, and every link that *)
(* is still up has been asked to end (kb_ble_activate_slot, policy).       *)
UsbIsQuiet ==
  kb_target = None =>
    /\ pair_slot = None
    /\ ~adv_on
    /\ \A s \in Slots : kbd_conns[s] # None => kbd_conns[s] \in closing

(* The keyboard never goes deaf to the host it waits for: with no link and *)
(* the active slot reserved it advertises in a way that host can answer,   *)
(* or the timer that will do so is pending (ADV_REARM_EVT, field           *)
(* 2026-07-25).                                                            *)
HostInvited ==
  links = {} /\ kb_target # None /\ slotmap[kb_target] # None
    => (adv_on /\ adv_peer \in {None, slotmap[kb_target]}) \/ rearm

(* While the pairing window is open and no link is up, the keyboard is     *)
(* findable by everyone.                                                   *)
WindowFindable == pair_slot # None /\ links = {} => adv_on /\ adv_peer = None

(* What a restart would load is what is in force: every change of a        *)
(* reservation has reached DataFlash when its handler returns.             *)
FlashCurrent == flash = slotmap

(* A waiting keyboard advertises sooner or later, even when the end of a   *)
(* directed burst is not reported.                                         *)
InvitesAgain ==
  (links = {} /\ Waiting) ~> (adv_on \/ links # {} \/ ~Waiting)

-----------------------------------------------------------------------------
(* What the source's own words say and TLC refutes; see the README.        *)

(* The policy as hidkbd_ble.c states it: only the kb_target BLE slot may   *)
(* hold a link (a link already asked to end does not count).               *)
OnlyTargetLinked ==
  \A s \in Slots : kbd_conns[s] # None /\ kbd_conns[s] \notin closing => s = kb_target

(* AT+BT_UNBIND as at_cmds.c states it: the host's bond record is gone.    *)
UnbindForgets == forgotten \cap bonded = {}
=============================================================================
