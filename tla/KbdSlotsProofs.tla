--------------------------- MODULE KbdSlotsProofs ---------------------------
(***************************************************************************)
(* Machine-checked facts about KbdSlots, for any number of slots greater   *)
(* than one and any finite set of hosts.                                   *)
(***************************************************************************)
EXTENDS KbdSlots, FiniteSetTheorems, WellFoundedInduction, TLAPS

-----------------------------------------------------------------------------
(* The parts of the inductive invariant that no run lists.                 *)

(* A slot routes only to a host whose link is up.                          *)
ConnsLinked == \A s \in Slots : kbd_conns[s] # None => kbd_conns[s] \in links

(* ble_hid_dev's table lists every link once, and nothing else.            *)
HidTable ==
  /\ \A i \in Slots : gapConnHandles[i] # None => gapConnHandles[i] \in links
  /\ \A i, j \in Slots : i # j /\ gapConnHandles[i] # None
                           => gapConnHandles[i] # gapConnHandles[j]
  /\ \A h \in links : \E i \in Slots : gapConnHandles[i] = h

(* Directed advertising always has its timer; the window has none.         *)
AdvTimer ==
  /\ adv_peer # None => rearm
  /\ pair_slot # None => ~rearm

MapInv == RoutedToOwner /\ OneSlotPerHost /\ ConnsLinked /\ FlashCurrent
HidInv == HidTable /\ SecureIsFresh
AdvInv == UsbIsQuiet /\ AdvTimer /\ HostInvited /\ WindowFindable

IInv == TypeOK /\ MapInv /\ HidInv /\ AdvInv

-----------------------------------------------------------------------------
LEMMA SlotsFinite == IsFiniteSet(Slots) /\ Cardinality(Slots) = KBD_MAX_CONN /\ Slots \subseteq Nat
<1>1. 0 \in Int /\ KBD_MAX_CONN - 1 \in Int /\ 0 <= KBD_MAX_CONN - 1
  BY ConnAssumption
<1>2. IsFiniteSet(0..(KBD_MAX_CONN - 1)) /\ Cardinality(0..(KBD_MAX_CONN - 1)) = KBD_MAX_CONN
  BY <1>1, FS_Interval, ConnAssumption
<1> QED BY <1>2, ConnAssumption DEF Slots

(* The first free entry of a table is an entry of it.                      *)
LEMMA LowestIn ==
  ASSUME NEW S \in SUBSET Slots, S # {}
  PROVE  Lowest(S) \in S
<1>1. S \subseteq Nat
  BY SlotsFinite
<1>2. \E x \in S : \A y \in S : ~(<<y, x>> \in OpToRel(<, Nat))
  BY <1>1, NatLessThanWellFounded, WFMin
<1>3. PICK x \in S : \A y \in S : ~(<<y, x>> \in OpToRel(<, Nat))
  BY <1>2
<1>4. \A y \in S : ~(y < x)
  BY <1>1, <1>3 DEF OpToRel
<1>5. \A y \in S : x <= y
  BY <1>1, <1>4
<1> QED BY <1>5 DEF Lowest

(* kbd_adv_update establishes the advertising invariant from any state.    *)
LEMMA AdvUpdateInv ==
  ASSUME TypeOK', ConnsLinked', AdvUpdate,
         kb_target' = None => /\ pair_slot' = None
                              /\ \A s \in Slots : kbd_conns'[s] # None => kbd_conns'[s] \in closing'
  PROVE  AdvInv'
<1>1. links' = {} => \A s \in Slots : kbd_conns'[s] = None
  BY DEF ConnsLinked
<1>2. UsbIsQuiet'
  BY DEF UsbIsQuiet, AdvUpdate, Window, Waiting
<1>3. AdvTimer'
  BY DEF AdvTimer, AdvUpdate, Window, Waiting
<1>4. HostInvited'
  BY <1>1 DEF HostInvited, AdvUpdate, Window, Waiting
<1>5. WindowFindable'
  BY DEF WindowFindable, AdvUpdate, Window, Waiting
<1> QED BY <1>2, <1>3, <1>4, <1>5 DEF AdvInv

(* A controller with a link to spare finds a free entry in ble_hid_dev's   *)
(* table: the pigeonhole behind AcceptedIsTracked.                         *)
LEMMA HidFree ==
  ASSUME IInv, Cardinality(links) < KBD_MAX_CONN
  PROVE  {i \in Slots : gapConnHandles[i] = None} # {}
<1> SUFFICES ASSUME \A i \in Slots : gapConnHandles[i] # None
             PROVE  FALSE
  OBVIOUS
<1>1. gapConnHandles \in [Slots -> links]
  BY DEF IInv, TypeOK, HidInv, HidTable
<1>2. IsFiniteSet(links)
  BY HostsAssumption, FS_Subset DEF IInv, TypeOK
<1>3. \E i, j \in Slots : i # j /\ gapConnHandles[i] = gapConnHandles[j]
  BY <1>1, <1>2, SlotsFinite, FS_PigeonHole
<1> QED BY <1>3 DEF IInv, HidInv, HidTable

-----------------------------------------------------------------------------
(* The power-on state, and every restart, satisfies the invariant.         *)
LEMMA BootInv ==
  ASSUME NEW page \in [Slots -> HostOrNone], NEW bonds \in SUBSET Hosts,
         \A s, t \in Slots : s # t /\ page[s] # None => page[s] # page[t],
         Boot(page, bonds)
  PROVE  IInv'
<1>0. 0 \in Slots
  BY ConnAssumption DEF Slots
<1>1. TypeOK'
  BY <1>0 DEF Boot, TypeOK, SlotOrNone, HostOrNone, NoHosts
<1>2. MapInv'
  BY DEF Boot, MapInv, RoutedToOwner, OneSlotPerHost, ConnsLinked, FlashCurrent, NoHosts
<1>3. HidInv'
  BY DEF Boot, HidInv, HidTable, SecureIsFresh, NoHosts
<1>4. AdvInv'
  BY <1>0, HostsAssumption, SlotsFinite
     DEF Boot, AdvInv, UsbIsQuiet, AdvTimer, HostInvited, WindowFindable, NoHosts
<1> QED BY <1>1, <1>2, <1>3, <1>4 DEF IInv

LEMMA InitIInv == Init => IInv
<1> SUFFICES ASSUME Init PROVE IInv
  OBVIOUS
<1>0. 0 \in Slots
  BY ConnAssumption DEF Slots
<1>1. TypeOK
  BY <1>0 DEF Init, TypeOK, SlotOrNone, HostOrNone, NoHosts
<1>2. MapInv
  BY DEF Init, MapInv, RoutedToOwner, OneSlotPerHost, ConnsLinked, FlashCurrent, NoHosts
<1>3. HidInv
  BY DEF Init, HidInv, HidTable, SecureIsFresh, NoHosts
<1>4. AdvInv
  BY <1>0, HostsAssumption, SlotsFinite
     DEF Init, AdvInv, UsbIsQuiet, AdvTimer, HostInvited, WindowFindable, NoHosts
<1> QED BY <1>1, <1>2, <1>3, <1>4 DEF IInv

(* GAPRole_TerminateLink only adds to closing.                             *)
LEMMA TerminateType ==
  ASSUME TypeOK, NEW S \in SUBSET Slots, Terminate(S)
  PROVE  /\ closing' \in SUBSET Hosts
         /\ closing \subseteq closing'
         /\ \A s \in S : kbd_conns[s] # None => kbd_conns[s] \in closing'
<1>1. closing' = closing \cup {kbd_conns[s] : s \in {t \in S : kbd_conns[t] # None}}
  BY DEF Terminate
<1>2. \A s \in S : kbd_conns[s] \in HostOrNone
  BY DEF TypeOK
<1> QED BY <1>1, <1>2 DEF TypeOK, HostOrNone

(* Handlers that leave the tables alone keep their invariants.             *)
LEMMA TablesKept ==
  ASSUME IInv, UNCHANGED <<kbd_conns, links, hidVars, mapVars>>,
         paired \subseteq paired'
  PROVE  MapInv' /\ HidInv'
  BY DEF IInv, MapInv, HidInv, RoutedToOwner, OneSlotPerHost, ConnsLinked, FlashCurrent,
         HidTable, SecureIsFresh, hidVars, mapVars

(* Clearing one reservation keeps the rest of the map.                     *)
LEMMA UnbindKept ==
  ASSUME IInv, NEW s \in Slots, Unbind(s), slotmap[s] # None,
         UNCHANGED <<kbd_conns, links, paired, hidVars>>
  PROVE  /\ MapInv' /\ HidInv'
         /\ slotmap' \in [Slots -> HostOrNone] /\ flash' \in [Slots -> HostOrNone]
         /\ bonded' \in SUBSET Hosts /\ forgotten' \in SUBSET Hosts
<1>1. slotmap' \in [Slots -> HostOrNone] /\ flash' = slotmap'
  BY DEF Unbind, IInv, TypeOK, HostOrNone
<1>2. MapInv'
  BY DEF Unbind, IInv, TypeOK, MapInv, RoutedToOwner, OneSlotPerHost, ConnsLinked, FlashCurrent
<1>3. HidInv'
  BY DEF IInv, HidInv, HidTable, SecureIsFresh, hidVars
<1>4. bonded' \in SUBSET Hosts /\ forgotten' \in SUBSET Hosts
  BY DEF Unbind, IInv, TypeOK, HostOrNone
<1> QED BY <1>1, <1>2, <1>3, <1>4

-----------------------------------------------------------------------------
LEMMA DevStep ==
  ASSUME IInv, DevUsb \/ \E t \in Slots : DevBle(t)
  PROVE  IInv'
<1>1. ASSUME NEW t \in Slots, DevBle(t) PROVE IInv'
  <2>1. closing' \in SUBSET Hosts
    BY <1>1, TerminateType DEF DevBle, IInv
  <2>2. TypeOK'
    BY <1>1, <2>1 DEF DevBle, ApplyAddr, IInv, TypeOK, SlotOrNone, hidVars, mapVars, histVars
  <2>3. MapInv' /\ HidInv'
    BY <1>1, TablesKept DEF DevBle, histVars
  <2>4. AdvInv'
    BY <1>1, HostsAssumption, SlotsFinite
       DEF DevBle, ApplyAddr, IInv, AdvInv, UsbIsQuiet, AdvTimer, HostInvited,
           WindowFindable, mapVars
  <2> QED BY <2>2, <2>3, <2>4 DEF IInv
<1>2. ASSUME DevUsb PROVE IInv'
  <2>1. /\ closing' \in SUBSET Hosts
        /\ \A s \in Slots : kbd_conns[s] # None => kbd_conns[s] \in closing'
    BY <1>2, TerminateType DEF DevUsb, IInv
  <2>2. TypeOK'
    BY <1>2, <2>1 DEF DevUsb, AdvUpdate, Window, Waiting, IInv, TypeOK, SlotOrNone, HostOrNone,
       hidVars, mapVars, histVars
  <2>3. MapInv' /\ HidInv'
    BY <1>2, TablesKept DEF DevUsb, histVars
  <2>4. AdvInv'
    BY <1>2, <2>1, <2>2, <2>3, AdvUpdateInv DEF DevUsb, MapInv
  <2> QED BY <2>2, <2>3, <2>4 DEF IInv
<1> QED BY <1>1, <1>2

LEMMA UnbindStep ==
  ASSUME IInv, NEW s \in Slots, BtUnbind(s)
  PROVE  IInv'
<1>1. closing' \in SUBSET Hosts /\ closing \subseteq closing'
  BY TerminateType DEF BtUnbind, IInv
<1>2. /\ MapInv' /\ HidInv'
      /\ slotmap' \in [Slots -> HostOrNone] /\ flash' \in [Slots -> HostOrNone]
      /\ bonded' \in SUBSET Hosts /\ forgotten' \in SUBSET Hosts
  BY UnbindKept DEF BtUnbind
<1>3. TypeOK'
  BY <1>1, <1>2 DEF BtUnbind, IInv, TypeOK, hidVars, advVars
<1>4. AdvInv'
  BY <1>1 DEF BtUnbind, Unbind, IInv, TypeOK, AdvInv, UsbIsQuiet, AdvTimer, HostInvited,
     WindowFindable, advVars
<1> QED BY <1>2, <1>3, <1>4 DEF IInv

LEMMA PairStep ==
  ASSUME IInv, BtPairActive \/ \E s \in Slots : BtPairSlot(s)
  PROVE  IInv'
<1>1. ASSUME NEW s \in Slots, BtPairSlot(s) PROVE IInv'
  <2>1. closing' \in SUBSET Hosts
    BY <1>1, TerminateType DEF BtPairSlot, IInv
  <2>2. /\ MapInv' /\ HidInv'
        /\ slotmap' \in [Slots -> HostOrNone] /\ flash' \in [Slots -> HostOrNone]
        /\ bonded' \in SUBSET Hosts /\ forgotten' \in SUBSET Hosts
    <3>1. CASE slotmap[s] # None
      BY <1>1, <3>1, UnbindKept DEF BtPairSlot
    <3>2. CASE slotmap[s] = None
      BY <1>1, <3>2, TablesKept DEF BtPairSlot, IInv, TypeOK, mapVars
    <3> QED BY <3>1, <3>2
  <2>3. s # None
    BY SlotsFinite, HostsAssumption
  <2>4. TypeOK'
    BY <1>1, <2>1, <2>2 DEF BtPairSlot, AdvUpdate, Window, Waiting, IInv, TypeOK, SlotOrNone,
       HostOrNone, hidVars
  <2>5. AdvInv'
    BY <1>1, <2>2, <2>3, <2>4, AdvUpdateInv DEF BtPairSlot, MapInv
  <2> QED BY <2>2, <2>4, <2>5 DEF IInv
<1>2. ASSUME BtPairActive PROVE IInv'
  <2>1. closing' \in SUBSET Hosts
    BY <1>2, TerminateType DEF BtPairActive, IInv
  <2>2. MapInv' /\ HidInv'
    BY <1>2, TablesKept DEF BtPairActive, histVars
  <2>3. TypeOK'
    BY <1>2, <2>1 DEF BtPairActive, AdvUpdate, Window, Waiting, IInv, TypeOK, SlotOrNone,
       HostOrNone, hidVars, mapVars, histVars
  <2>4. AdvInv'
    BY <1>2, <2>2, <2>3, AdvUpdateInv DEF BtPairActive, MapInv
  <2> QED BY <2>2, <2>3, <2>4 DEF IInv
<1> QED BY <1>1, <1>2

LEMMA DiscStep ==
  ASSUME IInv, NEW S \in SUBSET Slots, BtDisc(S)
  PROVE  IInv'
<1>1. closing' \in SUBSET Hosts /\ closing \subseteq closing'
  BY TerminateType DEF BtDisc, IInv
<1>2. MapInv' /\ HidInv'
  BY TablesKept DEF BtDisc, histVars
<1>3. TypeOK'
  BY <1>1 DEF BtDisc, IInv, TypeOK, hidVars, mapVars, advVars, histVars
<1>4. AdvInv'
  BY <1>1 DEF BtDisc, IInv, AdvInv, UsbIsQuiet, AdvTimer, HostInvited, WindowFindable,
     mapVars, advVars
<1> QED BY <1>2, <1>3, <1>4 DEF IInv

-----------------------------------------------------------------------------
(* What every established link does: it is entered in ble_hid_dev's table  *)
(* with a cleared secure flag, and advertising stops.                      *)
LEMMA EstablishedKept ==
  ASSUME IInv, NEW h \in Hosts, Established(h)
  PROVE  /\ HidInv' /\ AdvInv'
         /\ gapConnHandles' \in [Slots -> HostOrNone]
         /\ hidDevConnSecure' \in [Slots -> BOOLEAN]
         /\ links' \in SUBSET Hosts /\ forgotten' \in SUBSET Hosts
<1> DEFINE free == {i \in Slots : gapConnHandles[i] = None}
<1>1. free # {}
  BY HidFree DEF Established
<1>2. PICK k \in Slots : /\ gapConnHandles[k] = None
                         /\ gapConnHandles' = [gapConnHandles EXCEPT ![k] = h]
                         /\ hidDevConnSecure' = [hidDevConnSecure EXCEPT ![k] = FALSE]
  <2>1. Lowest(free) \in free
    BY <1>1, LowestIn
  <2> QED BY <1>1, <2>1 DEF Established, HidAlloc
<1>3. h # None /\ h \notin links /\ links' = links \cup {h} /\ paired' = paired
  BY HostsAssumption DEF Established
<1>4. /\ gapConnHandles' \in [Slots -> HostOrNone]
      /\ hidDevConnSecure' \in [Slots -> BOOLEAN]
      /\ links' \in SUBSET Hosts /\ forgotten' \in SUBSET Hosts
  BY <1>2, <1>3 DEF IInv, TypeOK, HostOrNone, Established
<1>5. HidInv'
  <2>0. \A i \in Slots : gapConnHandles'[i] = IF i = k THEN h ELSE gapConnHandles[i]
    BY <1>2 DEF IInv, TypeOK
  <2>1. HidTable'
    <3>1. \A i \in Slots : gapConnHandles'[i] # None => gapConnHandles'[i] \in links'
      BY <1>3, <2>0 DEF IInv, HidInv, HidTable
    <3>2. \A i, j \in Slots : i # j /\ gapConnHandles'[i] # None
                              => gapConnHandles'[i] # gapConnHandles'[j]
      BY <1>3, <2>0 DEF IInv, HidInv, HidTable
    <3>3. \A g \in links' : \E i \in Slots : gapConnHandles'[i] = g
      <4> SUFFICES ASSUME NEW g \in links' PROVE \E i \in Slots : gapConnHandles'[i] = g
        OBVIOUS
      <4>1. CASE g = h
        BY <2>0, <4>1
      <4>2. CASE g # h
        <5>1. PICK i \in Slots : gapConnHandles[i] = g
          BY <1>3, <4>2 DEF IInv, HidInv, HidTable
        <5>2. g # None
          BY <4>2, <1>3, HostsAssumption DEF IInv, TypeOK
        <5> QED BY <1>2, <2>0, <5>1, <5>2
      <4> QED BY <4>1, <4>2
    <3> QED BY <3>1, <3>2, <3>3 DEF HidTable
  <2>2. SecureIsFresh'
    BY <1>2, <1>3 DEF IInv, TypeOK, HidInv, SecureIsFresh
  <2> QED BY <2>1, <2>2 DEF HidInv
<1>6. AdvInv'
  <2>1. kb_target' # None
    BY DEF Established, IInv, AdvInv, UsbIsQuiet
  <2>2. links' # {}
    BY <1>3
  <2> QED BY <2>1, <2>2 DEF Established, IInv, AdvInv, UsbIsQuiet, AdvTimer, HostInvited,
             WindowFindable
<1> QED BY <1>4, <1>5, <1>6

(* A host without a link has an idle slot: the busy-slot fallback of       *)
(* kbd_slot_alloc never meets a host that is recorded already.             *)
LEMMA RecordedIsIdle ==
  ASSUME IInv, NEW h \in Hosts, h \notin links, NEW s \in Slots, slotmap[s] = h
  PROVE  kbd_conns[s] = None
BY HostsAssumption DEF IInv, MapInv, RoutedToOwner, ConnsLinked

LEMMA RefusedStep ==
  ASSUME IInv, NEW h \in Hosts, Rejected(h) \/ TableFull(h)
  PROVE  IInv'
<1>1. Established(h) /\ closing' = closing \cup {h} /\ UNCHANGED <<kbd_conns, mapVars>>
  BY DEF Rejected, TableFull
<1>2. /\ HidInv' /\ AdvInv'
      /\ gapConnHandles' \in [Slots -> HostOrNone]
      /\ hidDevConnSecure' \in [Slots -> BOOLEAN]
      /\ links' \in SUBSET Hosts /\ forgotten' \in SUBSET Hosts
  BY <1>1, EstablishedKept
<1>3. TypeOK'
  BY <1>1, <1>2 DEF Established, IInv, TypeOK, mapVars
<1>4. MapInv'
  BY <1>1 DEF Established, IInv, MapInv, RoutedToOwner, OneSlotPerHost, ConnsLinked,
     FlashCurrent, mapVars
<1> QED BY <1>2, <1>3, <1>4 DEF IInv

(* A slot that is taken is an idle one: the recorded slot, or a free one.  *)
LEMMA NextPairSlotFree ==
  ASSUME TypeOK, kbd_next_pair_slot # None
  PROVE  kbd_next_pair_slot \in Slots /\ Free(kbd_next_pair_slot)
<1>1. \A s \in Slots : s # None
  BY SlotsFinite, HostsAssumption
<1>2. CASE Free(pair_slot)
  BY <1>2 DEF kbd_next_pair_slot, Free, TypeOK, SlotOrNone
<1>3. CASE ~Free(pair_slot) /\ Free(kb_target)
  BY <1>3 DEF kbd_next_pair_slot, Free, TypeOK, SlotOrNone
<1>4. CASE ~Free(pair_slot) /\ ~Free(kb_target)
  <2> DEFINE F == {s \in Slots : Free(s)}
  <2>1. F # {}
    BY <1>4 DEF kbd_next_pair_slot
  <2>2. Lowest(F) \in F
    BY <2>1, LowestIn
  <2> QED BY <1>4, <2>1, <2>2 DEF kbd_next_pair_slot
<1> QED BY <1>2, <1>3, <1>4

LEMMA AcceptedStep ==
  ASSUME IInv, NEW h \in Hosts, KnownHost(h) \/ NewHost(h)
  PROVE  IInv'
<1>1. Established(h) /\ closing' = closing /\ h \notin links /\ h # None
  BY HostsAssumption DEF KnownHost, NewHost, Established
<1>2. /\ HidInv' /\ AdvInv'
      /\ gapConnHandles' \in [Slots -> HostOrNone]
      /\ hidDevConnSecure' \in [Slots -> BOOLEAN]
      /\ links' \in SUBSET Hosts /\ forgotten' \in SUBSET Hosts
  BY <1>1, EstablishedKept
<1>3. PICK s \in Slots : /\ kbd_conns[s] = None
                         /\ kbd_conns' = [kbd_conns EXCEPT ![s] = h]
                         /\ flash' = slotmap'
                         /\ \/ slotmap[s] = h /\ slotmap' = slotmap
                            \/ /\ slotmap' = [slotmap EXCEPT ![s] = h]
                               /\ \A t \in Slots : slotmap[t] # h
  <2>1. CASE KnownHost(h)
    BY <2>1 DEF KnownHost, slotmap_find, mapVars, IInv, MapInv, FlashCurrent
  <2>2. CASE NewHost(h)
    <3>1. kbd_next_pair_slot \in Slots /\ Free(kbd_next_pair_slot)
      BY <2>2, NextPairSlotFree DEF NewHost, IInv
    <3>2. \A t \in Slots : slotmap[t] # h
      BY <1>1, <2>2, RecordedIsIdle DEF NewHost, slotmap_find
    <3> QED BY <2>2, <3>1, <3>2 DEF NewHost, Free
  <2> QED BY <2>1, <2>2
<1>4. TypeOK'
  BY <1>1, <1>2, <1>3 DEF Established, IInv, TypeOK, HostOrNone
<1>5. links' = links \cup {h}
  BY <1>1 DEF Established
<1>6. MapInv'
  <2>1. RoutedToOwner'
    BY <1>3 DEF IInv, TypeOK, MapInv, RoutedToOwner
  <2>2. OneSlotPerHost'
    BY <1>1, <1>3 DEF IInv, TypeOK, MapInv, OneSlotPerHost, ConnsLinked
  <2>3. ConnsLinked' /\ FlashCurrent'
    BY <1>3, <1>5 DEF IInv, TypeOK, MapInv, ConnsLinked, FlashCurrent
  <2> QED BY <2>1, <2>2, <2>3 DEF MapInv
<1> QED BY <1>2, <1>4, <1>6 DEF IInv

LEMMA TerminatedStep ==
  ASSUME IInv, NEW h \in Hosts, LinkTerminated(h)
  PROVE  IInv'
<1>0. h # None
  BY HostsAssumption
<1>1. TypeOK'
  BY DEF LinkTerminated, AdvUpdate, Window, Waiting, IInv, TypeOK, SlotOrNone, HostOrNone, mapVars
<1>2. MapInv'
  BY DEF LinkTerminated, IInv, TypeOK, MapInv, RoutedToOwner, OneSlotPerHost, ConnsLinked,
     FlashCurrent, mapVars
<1>3. HidInv'
  <2>1. HidTable'
    BY <1>0 DEF LinkTerminated, IInv, TypeOK, HidInv, HidTable
  <2>2. SecureIsFresh'
    BY DEF LinkTerminated, IInv, TypeOK, HidInv, SecureIsFresh
  <2> QED BY <2>1, <2>2 DEF HidInv
<1>4. AdvInv'
  <2>1. kb_target' = None => /\ pair_slot' = None
                             /\ \A s \in Slots : kbd_conns'[s] # None => kbd_conns'[s] \in closing'
    BY DEF LinkTerminated, IInv, TypeOK, AdvInv, UsbIsQuiet
  <2> QED BY <1>1, <1>2, <2>1, AdvUpdateInv DEF LinkTerminated, MapInv
<1> QED BY <1>1, <1>2, <1>3, <1>4 DEF IInv

LEMMA PairedStep ==
  ASSUME IInv, NEW h \in Hosts, Paired(h)
  PROVE  IInv'
<1>1. TypeOK'
  BY DEF Paired, IInv, TypeOK, gapVars, mapVars, advVars
<1>2. MapInv' /\ AdvInv'
  BY DEF Paired, IInv, MapInv, RoutedToOwner, OneSlotPerHost, ConnsLinked, FlashCurrent,
     AdvInv, UsbIsQuiet, AdvTimer, HostInvited, WindowFindable, gapVars, mapVars, advVars
<1>3. HidInv'
  BY DEF Paired, IInv, TypeOK, HidInv, HidTable, SecureIsFresh, gapVars
<1> QED BY <1>1, <1>2, <1>3 DEF IInv

LEMMA TimerStep ==
  ASSUME IInv, Timer
  PROVE  IInv'
<1>1. UNCHANGED <<kb_target, kbd_conns, bonded, gapVars, hidVars, mapVars, histVars>>
  BY DEF Timer, PairWindowEvt, AdvRearmEvt, BurstEnds, GapWaiting
<1>2. MapInv' /\ HidInv'
  BY <1>1, TablesKept DEF gapVars, histVars
<1>3. CASE AdvUpdate /\ pair_slot' \in {None, pair_slot}
  <2>1. TypeOK'
    BY <1>1, <1>3 DEF AdvUpdate, Window, Waiting, IInv, TypeOK, SlotOrNone, HostOrNone,
       gapVars, hidVars, mapVars, histVars
  <2>2. AdvInv'
    BY <1>1, <1>2, <1>3, <2>1, AdvUpdateInv DEF IInv, AdvInv, UsbIsQuiet, MapInv, gapVars
  <2> QED BY <1>2, <2>1, <2>2 DEF IInv
<1>4. CASE BurstEnds
  <2>1. TypeOK'
    BY <1>4 DEF BurstEnds, IInv, TypeOK, gapVars, hidVars, mapVars, histVars
  <2>2. AdvInv'
    BY <1>4 DEF BurstEnds, IInv, AdvInv, UsbIsQuiet, AdvTimer, HostInvited, WindowFindable,
       gapVars, mapVars
  <2> QED BY <1>2, <2>1, <2>2 DEF IInv
<1> QED BY <1>3, <1>4 DEF Timer, PairWindowEvt, AdvRearmEvt, GapWaiting

LEMMA RestartStep ==
  ASSUME IInv, Reboot \/ CrashInSave \/ Factory
  PROVE  IInv'
<1>1. NoHosts \in [Slots -> HostOrNone] /\ \A s \in Slots : NoHosts[s] = None
  BY DEF NoHosts, HostOrNone
<1>2. /\ flash \in [Slots -> HostOrNone] /\ bonded \in SUBSET Hosts
      /\ \A s, t \in Slots : s # t /\ flash[s] # None => flash[s] # flash[t]
  BY DEF IInv, TypeOK, MapInv, OneSlotPerHost, FlashCurrent
<1>3. CASE Reboot
  BY <1>2, <1>3, BootInv DEF Reboot
<1>4. CASE CrashInSave
  BY <1>1, <1>2, <1>4, BootInv DEF CrashInSave
<1>5. CASE Factory
  <2>1. {} \in SUBSET Hosts
    OBVIOUS
  <2> QED BY <1>1, <1>5, <2>1, BootInv DEF Factory
<1> QED BY <1>3, <1>4, <1>5

LEMMA NextIInv == IInv /\ [Next]_vars => IInv'
<1> SUFFICES ASSUME IInv, [Next]_vars PROVE IInv'
  OBVIOUS
<1>1. CASE AtCmd
  <2>1. \A s \in Slots : {s} \in SUBSET Slots
    OBVIOUS
  <2>2. ASSUME NEW s \in Slots, BtDisc({s}) PROVE IInv'
    BY <2>1, <2>2, DiscStep
  <2>3. CASE BtDisc(Slots)
    BY <2>3, DiscStep
  <2> QED BY <1>1, <2>2, <2>3, DevStep, UnbindStep, PairStep, RestartStep DEF AtCmd
<1>2. CASE GapEvent
  BY <1>2, RefusedStep, AcceptedStep, TerminatedStep, PairedStep DEF GapEvent
<1>3. CASE Timer
  BY <1>3, TimerStep
<1>4. CASE Reboot \/ CrashInSave
  BY <1>4, RestartStep
<1>5. CASE UNCHANGED vars
  BY <1>5 DEF vars, gapVars, hidVars, mapVars, advVars, histVars, IInv, TypeOK, MapInv, HidInv,
     AdvInv, RoutedToOwner, OneSlotPerHost, ConnsLinked, FlashCurrent, HidTable, SecureIsFresh,
     UsbIsQuiet, AdvTimer, HostInvited, WindowFindable
<1> QED BY <1>1, <1>2, <1>3, <1>4, <1>5 DEF Next

-----------------------------------------------------------------------------
(* IInv is an invariant of the slot policy.                                *)
THEOREM Inductive == Spec => []IInv
BY InitIInv, NextIInv, PTL DEF Spec

(* Every variable keeps its type, whatever the number of slots and hosts.  *)
THEOREM TypeCorrect == Spec => []TypeOK
<1>1. IInv => TypeOK
  BY DEF IInv
<1> QED BY <1>1, Inductive, PTL

(* kbd_conns[] and the slot map agree: keystrokes reach the slot's owner.  *)
THEOREM RoutedToOwnerHolds == Spec => []RoutedToOwner
<1>1. IInv => RoutedToOwner
  BY DEF IInv, MapInv
<1> QED BY <1>1, Inductive, PTL

(* kbd_slot_alloc and slotmap_load never give a host two identities.       *)
THEOREM OneSlotPerHostHolds == Spec => []OneSlotPerHost
<1>1. IInv => OneSlotPerHost
  BY DEF IInv, MapInv
<1> QED BY <1>1, Inductive, PTL

(* hiddev_slot_alloc never runs out under the controller's link limit.     *)
THEOREM AcceptedIsTrackedHolds == Spec => []AcceptedIsTracked
<1>1. IInv => AcceptedIsTracked
  BY DEF IInv, MapInv, ConnsLinked, HidInv, HidTable, AcceptedIsTracked
<1> QED BY <1>1, Inductive, PTL

(* A table entry's secure flag is its present occupant's.                  *)
THEOREM SecureIsFreshHolds == Spec => []SecureIsFresh
<1>1. IInv => SecureIsFresh
  BY DEF IInv, HidInv
<1> QED BY <1>1, Inductive, PTL

(* AT+DEV=USB silences BLE, and kbd_adv_update invites the host awaited    *)
(* and keeps an open pairing window findable.                              *)
THEOREM AdvertisingPolicy == Spec => [](UsbIsQuiet /\ HostInvited /\ WindowFindable)
<1>1. IInv => UsbIsQuiet /\ HostInvited /\ WindowFindable
  BY DEF IInv, AdvInv
<1> QED BY <1>1, Inductive, PTL

(* slotmap_save has run when a handler that changes the map returns.       *)
THEOREM FlashCurrentHolds == Spec => []FlashCurrent
<1>1. IInv => FlashCurrent
  BY DEF IInv, MapInv
<1> QED BY <1>1, Inductive, PTL
=============================================================================
