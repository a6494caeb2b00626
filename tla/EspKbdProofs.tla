---------------------------- MODULE EspKbdProofs ----------------------------
(***************************************************************************)
(* Machine-checked facts about EspKbd, for any sets of keys and hosts and  *)
(* any capacity of the queues: no key stays down unexplained, and a bond   *)
(* that lets a host in survives a restart.                                 *)
(***************************************************************************)
EXTENDS EspKbd, SequenceTheorems, TLAPS

-----------------------------------------------------------------------------
(* The inductive invariant: TypeOK and named parts.                        *)

Operation ==
  {Tap(r) : r \in Report} \cup {Hold(r) : r \in Report}
    \cup {Text(s) : s \in Texts} \cup {Seq_(rs) : rs \in Words(Report)}

(* What TypeOK leaves open: the elements of the queues, and that there is  *)
(* a link only while its peer is served.                                   *)
Shape ==
  /\ ops \in Seq(Operation) /\ asked \in BOOLEAN
  /\ stuck \in [to : {"usb", "ble"}, rep : Report] \cup {None}
  /\ usbq \in Seq(Report) /\ bleq \in Seq(Report)
  /\ linked \in BOOLEAN /\ (linked => connected)

(* The newest report on its way to an output, or the one its host acted on *)
(* last.                                                                   *)
StuckFor(t) == stuck # None /\ stuck.to = t

UsbLast ==
  IF StuckFor("usb") THEN stuck.rep
  ELSE IF usbq # <<>> THEN usbq[Len(usbq)]
  ELSE IF ep # None THEN ep ELSE host[USB]

BleLast ==
  IF StuckFor("ble") THEN stuck.rep
  ELSE IF bleq # <<>> THEN bleq[Len(bleq)] ELSE host[conn]

(* An operation that does not mean to leave keys down ends in a release,   *)
(* and is not over.                                                        *)
EndsReleased == ~asked /\ play # <<>> => play[Len(play)] = Release

Releasing(t) == target = t /\ ~asked /\ play # <<>>

(* A key that an output will end up with is excused, or its release is     *)
(* still to be played.                                                     *)
UsbHeld == UsbLast # Release => USB \in excused \/ Releasing("usb")
BleHeld == conn # None /\ BleLast # Release => conn \in excused \/ Releasing("ble")

(* A host without a link holds nothing down.                               *)
Unlinked == \A h \in Hosts : h # conn \/ ~linked => host[h] = Release

(* Reports that outlive their link may reach whoever connects next.        *)
StaleExcused == conn = None /\ (bleq # <<>> \/ StuckFor("ble")) => Hosts \subseteq excused

KeyInv == EndsReleased /\ UsbHeld /\ BleHeld /\ Unlinked /\ StaleExcused

(* The persisted bond and its RAM mirror never name two hosts, unless a    *)
(* command wrote the persisted one.                                        *)
BondInv ==
  /\ BondSurvivesRestart
  /\ bonded # None /\ flash # None /\ ~rewritten => bonded = flash

IInv == TypeOK /\ Shape /\ KeyInv /\ BondInv

-----------------------------------------------------------------------------
(* Operations are well formed, and so are the reports they expand to; an   *)
(* operation not meant to hold keys ends in a release.                     *)
LEMMA ArrayIsSeq ==
  ASSUME NEW S, NEW n \in Nat, NEW f \in [1..n -> S]
  PROVE  f \in Seq(S) /\ Len(f) = n
  OBVIOUS

LEMMA EmptyIsSeq ==
  ASSUME NEW S
  PROVE  <<>> \in Seq(S) /\ Len(<<>>) = 0
  OBVIOUS

(* A queue with room takes one more; taking the oldest keeps the newest.   *)
LEMMA AppendFacts ==
  ASSUME NEW S, NEW s \in Seq(S), NEW e \in S, NEW n \in Nat, Len(s) < n
  PROVE  /\ Append(s, e) \in Seq(S) /\ Len(Append(s, e)) <= n
         /\ Append(s, e) # <<>> /\ Append(s, e)[Len(Append(s, e))] = e
<1>1. Append(s, e) \in Seq(S) /\ Len(Append(s, e)) = Len(s) + 1
  BY AppendProperties
<1>2. Append(s, e)[Len(s) + 1] = e
  BY AppendProperties
<1> QED BY <1>1, <1>2

LEMMA TailFacts ==
  ASSUME NEW S, NEW s \in Seq(S), s # <<>>
  PROVE  /\ Head(s) \in S /\ Tail(s) \in Seq(S) /\ Len(Tail(s)) = Len(s) - 1
         /\ IF Tail(s) = <<>> THEN Head(s) = s[Len(s)]
                              ELSE Tail(s)[Len(Tail(s))] = s[Len(s)]
<1>1. /\ Head(s) \in S /\ Tail(s) \in Seq(S) /\ Len(Tail(s)) = Len(s) - 1
      /\ \A i \in 1..Len(Tail(s)) : Tail(s)[i] = s[i + 1]
  BY HeadTailProperties
<1>2. Len(s) \in Nat /\ Len(s) # 0 /\ Head(s) = s[1]
  OBVIOUS
<1>3. Tail(s) = <<>> => Head(s) = s[Len(s)]
  <2>1. Tail(s) = <<>> => Len(Tail(s)) = 0
    BY EmptySeq
  <2>2. Tail(s) = <<>> => Len(s) = 1
    BY <1>1, <1>2, <2>1
  <2> QED BY <1>2, <2>2
<1>4. Tail(s) # <<>> => Tail(s)[Len(Tail(s))] = s[Len(s)]
  <2>1. Tail(s) # <<>> => Len(Tail(s)) \in 1..Len(Tail(s))
    BY <1>1, EmptySeq
  <2> QED BY <1>1, <1>2, <2>1
<1> QED BY <1>1, <1>3, <1>4

LEMMA WordsAreSeqs ==
  ASSUME NEW S, NEW w \in Words(S)
  PROVE  w \in Seq(S) /\ Len(w) \in Nat \ {0}
<1>1. PICK n \in 1..SEQ_MAX : w \in [1..n -> S]
  BY DEF Words
<1>2. n \in Nat \ {0}
  BY EspKbdAssumption
<1> QED BY <1>1, <1>2, ArrayIsSeq

LEMMA ExpandFacts ==
  ASSUME NEW op \in Operation
  PROVE  /\ Expand(op) \in Seq(Report)
         /\ op.kind \notin {"hold", "seq"} /\ Expand(op) # <<>>
              => Expand(op)[Len(Expand(op))] = Release
<1>0. Release \in Report
  BY DEF Report
<1>1. CASE \E r \in Report : op = Tap(r)
  BY <1>0, <1>1 DEF Tap, Expand
<1>2. CASE \E r \in Report : op = Hold(r)
  BY <1>2 DEF Hold, Expand
<1>3. CASE \E s \in Texts : op = Text(s)
  <2>1. PICK s \in Texts : op = Text(s)
    BY <1>3
  <2>2. s \in Seq(Keys)
    <3>1. CASE s \in Words(Keys)
      BY <3>1, WordsAreSeqs
    <3>2. CASE s = <<>>
      BY <3>2
    <3> QED BY <3>1, <3>2 DEF Texts
  <2> DEFINE n == 2 * Len(s)
             e == [i \in 1..n |-> IF i % 2 = 1 THEN s[(i + 1) \div 2] ELSE Release]
  <2>3. op.kind = "text" /\ op.reps = s
    BY <2>1 DEF Text
  <2>4. Expand(op) = e
    BY <2>3 DEF Expand
  <2>5. \A i \in 1..n : e[i] \in Report
    <3> SUFFICES ASSUME NEW i \in 1..n, i % 2 = 1 PROVE s[(i + 1) \div 2] \in Keys
      BY <1>0 DEF Report
    <3>1. (i + 1) \div 2 \in 1..Len(s)
      BY <2>2
    <3> QED BY <2>2, <3>1
  <2>6. n \in Nat /\ n % 2 = 0
    BY <2>2
  <2>7. e \in Seq(Report) /\ Len(e) = n
    BY <2>5, <2>6, ArrayIsSeq
  <2>8. e # <<>> => e[n] = Release
    BY <2>6, <2>7
  <2> HIDE DEF e
  <2> QED BY <2>4, <2>7, <2>8
<1>4. CASE \E rs \in Words(Report) : op = Seq_(rs)
  BY <1>4, WordsAreSeqs DEF Seq_, Expand
<1> QED BY <1>1, <1>2, <1>3, <1>4 DEF Operation

-----------------------------------------------------------------------------
LEMMA InitIInv == Init => IInv
<1> SUFFICES ASSUME Init PROVE IInv
  OBVIOUS
<1>1. TypeOK
  <2>1. host \in [Outputs -> Report]
    BY DEF Init, Report
  <2>2. Len(ops) <= OPS_CAP /\ Len(usbq) <= REPORTS_CAP /\ Len(bleq) <= REPORTS_CAP
    BY EmptyIsSeq, EspKbdAssumption DEF Init
  <2>3. play \in Seq(Report)
    BY EmptyIsSeq DEF Init
  <2> QED BY <2>1, <2>2, <2>3 DEF Init, TypeOK
<1>2. Shape
  BY EmptyIsSeq DEF Init, Shape
<1>3. KeyInv
  BY DEF Init, KeyInv, EndsReleased, UsbHeld, BleHeld, Unlinked, StaleExcused, UsbLast,
         BleLast, StuckFor, Outputs
<1>4. BondInv
  BY DEF Init, BondInv, BondSurvivesRestart
<1> QED BY <1>1, <1>2, <1>3, <1>4 DEF IInv

(* What KeyInv and BondInv speak of.                                       *)
keyVars == <<target, play, asked, stuck, usbVars, bleq, conn, linked, host, excused>>

LEMMA KeyInvKept ==
  ASSUME KeyInv, UNCHANGED keyVars
  PROVE  KeyInv'
  BY DEF KeyInv, keyVars, usbVars, EndsReleased, UsbHeld, BleHeld, Unlinked, StaleExcused,
         UsbLast, BleLast, StuckFor, Releasing

LEMMA BondInvKept ==
  ASSUME BondInv, UNCHANGED bondVars
  PROVE  BondInv'
  BY DEF BondInv, BondSurvivesRestart, bondVars

(* A command is queued.                                                    *)
LEMMA PostStep ==
  ASSUME IInv, NEW op \in Operation, Post(op)
  PROVE  IInv'
<1> USE DEF IInv, Post
<1>1. TypeOK'
  BY EspKbdAssumption DEF TypeOK, Shape, usbVars, linkVars, bondVars
<1>2. Shape'
  BY DEF Shape, usbVars, linkVars, bondVars
<1>3. KeyInv' /\ BondInv'
  BY KeyInvKept, BondInvKept DEF keyVars, linkVars
<1> QED BY <1>1, <1>2, <1>3

LEMMA PostsAreOperations ==
  ASSUME CmdTap \/ CmdKey \/ CmdKeyStr \/ CmdKeySeq \/ HKeyboardPost \/ keyboard_exec
  PROVE  \E op \in Operation : Post(op)
  BY DEF CmdTap, CmdKey, CmdKeyStr, CmdKeySeq, HKeyboardPost, keyboard_exec, Operation

(* AT+DEV: what the old output may be left with is excused.                *)
LEMMA SetTargetStep ==
  ASSUME IInv, NEW t \in {"usb", "ble"}, SetTarget(t)
  PROVE  IInv'
<1> USE DEF IInv, SetTarget
<1>1. TypeOK'
  BY DEF TypeOK, usbVars, linkVars, bondVars, Outputs
<1>2. Shape'
  BY DEF Shape, usbVars, linkVars, bondVars
<1>3. KeyInv'
  <2>1. EndsReleased' /\ Unlinked' /\ StaleExcused'
    BY DEF KeyInv, EndsReleased, Unlinked, StaleExcused, StuckFor, linkVars
  <2>2. UsbLast' = UsbLast /\ BleLast' = BleLast
    BY DEF UsbLast, BleLast, StuckFor, linkVars, usbVars
  <2>3. UsbHeld' /\ BleHeld'
    BY <2>2 DEF KeyInv, UsbHeld, BleHeld, Releasing, linkVars, TypeOK, Shape
  <2> QED BY <2>1, <2>3 DEF KeyInv
<1>4. BondInv'
  BY BondInvKept
<1> QED BY <1>1, <1>2, <1>3, <1>4

-----------------------------------------------------------------------------
(* The engine.                                                             *)

LEMMA ReceiveStep ==
  ASSUME IInv, Receive
  PROVE  IInv'
<1> USE DEF IInv, Receive
<1>1. Head(ops) \in Operation /\ Tail(ops) \in Seq(Operation) /\ Len(Tail(ops)) <= Len(ops)
  BY DEF Shape
<1>2. TypeOK'
  BY <1>1, ExpandFacts, EspKbdAssumption
     DEF TypeOK, Shape, usbVars, linkVars, bondVars
<1>3. Shape'
  BY <1>1 DEF Shape, usbVars, linkVars, bondVars
<1>4. KeyInv'
  <2>1. EndsReleased'
    BY <1>1, ExpandFacts DEF EndsReleased
  <2>2. Unlinked' /\ StaleExcused'
    BY DEF KeyInv, Unlinked, StaleExcused, StuckFor, linkVars
  <2>3. UsbLast' = UsbLast /\ BleLast' = BleLast
    BY DEF UsbLast, BleLast, StuckFor, linkVars, usbVars
  <2>4. UsbHeld' /\ BleHeld'
    BY <2>3 DEF KeyInv, UsbHeld, BleHeld, Releasing, linkVars, Idle
  <2> QED BY <2>1, <2>2, <2>4 DEF KeyInv
<1>5. BondInv'
  BY BondInvKept
<1> QED BY <1>2, <1>3, <1>4, <1>5

(* What Emit leaves alone; TypeOK and Shape of what it does not.           *)
LEMMA EmitTypes ==
  ASSUME IInv, Emit
  PROVE  TypeOK' /\ Shape' /\ Head(play) \in Report /\ EndsReleased'
<1> USE DEF IInv
<1>1. Head(play) \in Report /\ Tail(play) \in Seq(Report) /\ Len(Tail(play)) = Len(play) - 1
  BY DEF TypeOK, Emit
<1>2. /\ usbq' \in Seq(Report) /\ Len(usbq') <= REPORTS_CAP
      /\ bleq' \in Seq(Report) /\ Len(bleq') <= REPORTS_CAP
      /\ stuck' \in [to : {"usb", "ble"}, rep : Report] \cup {None}
      /\ excused' \subseteq Outputs
  <2>0. REPORTS_CAP \in Nat
    BY EspKbdAssumption
  <2>1. usbq' \in Seq(Report) /\ Len(usbq') <= REPORTS_CAP
    <3>1. usbq' = usbq \/ (Len(usbq) < REPORTS_CAP /\ usbq' = Append(usbq, Head(play)))
      BY DEF Emit, EmitUsb, EmitBle
    <3>2. usbq \in Seq(Report) /\ Len(usbq) <= REPORTS_CAP
      BY DEF TypeOK, Shape
    <3> QED BY <1>1, <2>0, <3>1, <3>2, AppendFacts
  <2>2. bleq' \in Seq(Report) /\ Len(bleq') <= REPORTS_CAP
    <3>1. bleq' = bleq \/ (Len(bleq) < REPORTS_CAP /\ bleq' = Append(bleq, Head(play)))
      BY DEF Emit, EmitUsb, EmitBle
    <3>2. bleq \in Seq(Report) /\ Len(bleq) <= REPORTS_CAP
      BY DEF TypeOK, Shape
    <3> QED BY <1>1, <2>0, <3>1, <3>2, AppendFacts
  <2>3. stuck' \in [to : {"usb", "ble"}, rep : Report] \cup {None}
    BY <1>1 DEF Emit, EmitUsb, EmitBle, Shape
  <2>4. excused' \subseteq Outputs
    BY DEF Emit, EmitUsb, EmitBle, Note, TypeOK, Outputs
  <2> QED BY <2>1, <2>2, <2>3, <2>4
<1>3. TypeOK' /\ Shape'
  BY <1>1, <1>2 DEF Emit, TypeOK, Shape, linkVars, bondVars
<1>4. EndsReleased'
  BY <1>1 DEF KeyInv, EndsReleased, Emit, TypeOK
<1> QED BY <1>1, <1>3, <1>4

(* A report leaves the engine: a release settles the output, a key is to   *)
(* be held or has its release behind it.                                   *)
LEMMA EmitStep ==
  ASSUME IInv, Emit
  PROVE  IInv'
<1> USE DEF IInv
<1>1. TypeOK' /\ Shape' /\ Head(play) \in Report /\ EndsReleased'
  BY EmitTypes
<1>2. Head(play) # Release /\ ~asked => Tail(play) # <<>>
  BY DEF KeyInv, EndsReleased, Emit, TypeOK
<1>3. ASSUME EmitUsb PROVE KeyInv'
  <2>1. UsbLast' = Head(play)
    <3>1. CASE Len(usbq) < REPORTS_CAP
      BY <1>3, <3>1, <1>1 DEF EmitUsb, Emit, UsbLast, StuckFor, Shape
    <3>2. CASE ~(Len(usbq) < REPORTS_CAP)
      <4>1. stuck' # None
        BY <1>3, <3>2, <1>1, EspKbdAssumption DEF EmitUsb, Report
      <4> QED BY <1>3, <3>2, <4>1 DEF EmitUsb, UsbLast, StuckFor
    <3> QED BY <3>1, <3>2
  <2>2. UsbHeld'
    BY <2>1, <1>2, <1>3 DEF UsbHeld, EmitUsb, Emit, Note, Releasing
  <2>3. ~StuckFor("ble")' /\ ~StuckFor("ble")
    BY <1>3 DEF EmitUsb, Emit, StuckFor
  <2>4. BleHeld'
    <3>1. conn' = conn /\ host' = host /\ bleq' = bleq /\ BleLast' = BleLast
      BY <1>3, <2>3 DEF EmitUsb, Emit, BleLast, linkVars
    <3>2. conn # None /\ conn \in excused => conn \in excused'
      BY <1>3, EspKbdAssumption DEF EmitUsb, Note, TypeOK
    <3> QED BY <3>1, <3>2, <1>3 DEF EmitUsb, BleHeld, KeyInv, Releasing
  <2>5. Unlinked' /\ StaleExcused'
    BY <1>3, <2>3, EspKbdAssumption
       DEF KeyInv, Unlinked, StaleExcused, EmitUsb, Emit, Note, linkVars
  <2> QED BY <1>1, <2>2, <2>4, <2>5 DEF KeyInv
<1>4. ASSUME EmitBle PROVE KeyInv'
  <2>1. ~StuckFor("usb")' /\ ~StuckFor("usb")
    BY <1>4 DEF EmitBle, Emit, StuckFor
  <2>2. UsbHeld'
    <3>1. UsbLast' = UsbLast
      BY <1>4, <2>1 DEF EmitBle, Emit, UsbLast
    <3>2. USB \in excused => USB \in excused'
      BY <1>4, EspKbdAssumption DEF EmitBle, Note, TypeOK
    <3> QED BY <3>1, <3>2, <1>4 DEF EmitBle, UsbHeld, KeyInv, Releasing
  <2>3. Unlinked' /\ conn' = conn /\ host' = host
    BY DEF KeyInv, Unlinked, Emit, linkVars
  <2>4. CASE ~connected
    <3>1. conn = None /\ UNCHANGED <<stuck, bleq, excused>>
      BY <1>4, <2>4 DEF EmitBle, TypeOK
    <3>2. BleHeld' /\ StaleExcused'
      BY <3>1, <2>3 DEF BleHeld, StaleExcused, StuckFor, KeyInv
    <3> QED BY <1>1, <2>2, <2>3, <3>2 DEF KeyInv
  <2>5. CASE connected
    <3>1. conn # None /\ Note({conn}, Head(play))
      BY <1>4, <2>5 DEF EmitBle, TypeOK
    <3>2. BleLast' = Head(play)
      <4>1. CASE Len(bleq) < REPORTS_CAP
        BY <1>4, <2>5, <4>1, <1>1 DEF EmitBle, Emit, BleLast, StuckFor, Shape
      <4>2. CASE ~(Len(bleq) < REPORTS_CAP)
        <5>1. stuck' # None
          BY <1>4, <2>5, <4>2, <1>1, EspKbdAssumption DEF EmitBle, Report
        <5> QED BY <1>4, <2>5, <4>2, <5>1 DEF EmitBle, BleLast, StuckFor
      <4> QED BY <4>1, <4>2
    <3>3. BleHeld'
      BY <3>1, <3>2, <2>3, <1>2, <1>4 DEF BleHeld, EmitBle, Emit, Note, Releasing
    <3>4. StaleExcused'
      BY <3>1, <2>3 DEF StaleExcused
    <3> QED BY <1>1, <2>2, <2>3, <3>3, <3>4 DEF KeyInv
  <2> QED BY <2>4, <2>5 DEF TypeOK
<1>5. BondInv'
  BY BondInvKept DEF Emit
<1> QED BY <1>1, <1>3, <1>4, <1>5 DEF Emit

LEMMA UnblockStep ==
  ASSUME IInv, Unblock
  PROVE  IInv'
<1> USE DEF IInv, Unblock
<1>1. stuck \in [to : {"usb", "ble"}, rep : Report]
  BY DEF Shape
<1>2. TypeOK' /\ Shape'
  <2>0. REPORTS_CAP \in Nat /\ stuck.rep \in Report
    BY <1>1, EspKbdAssumption
  <2>1. usbq' \in Seq(Report) /\ Len(usbq') <= REPORTS_CAP
    <3>1. usbq' = usbq \/ (Len(usbq) < REPORTS_CAP /\ usbq' = Append(usbq, stuck.rep))
      OBVIOUS
    <3>2. usbq \in Seq(Report) /\ Len(usbq) <= REPORTS_CAP
      BY DEF TypeOK, Shape
    <3> HIDE DEF Unblock
    <3> QED BY <2>0, <3>1, <3>2, AppendFacts
  <2>2. bleq' \in Seq(Report) /\ Len(bleq') <= REPORTS_CAP
    <3>1. bleq' = bleq \/ (Len(bleq) < REPORTS_CAP /\ bleq' = Append(bleq, stuck.rep))
      OBVIOUS
    <3>2. bleq \in Seq(Report) /\ Len(bleq) <= REPORTS_CAP
      BY DEF TypeOK, Shape
    <3> HIDE DEF Unblock
    <3> QED BY <2>0, <3>1, <3>2, AppendFacts
  <2> QED BY <2>1, <2>2 DEF TypeOK, Shape, linkVars, bondVars
<1>3. KeyInv'
  <2>1. UsbLast' = UsbLast /\ BleLast' = BleLast
    BY <1>1 DEF UsbLast, BleLast, StuckFor, linkVars, Shape
  <2>2. UsbHeld' /\ BleHeld'
    BY <2>1 DEF KeyInv, UsbHeld, BleHeld, Releasing, linkVars
  <2>3. EndsReleased' /\ Unlinked' /\ StaleExcused'
    BY DEF KeyInv, EndsReleased, Unlinked, StaleExcused, StuckFor, linkVars
  <2> QED BY <2>2, <2>3 DEF KeyInv
<1>4. BondInv'
  BY BondInvKept
<1> QED BY <1>2, <1>3, <1>4

-----------------------------------------------------------------------------
(* The USB task and the USB host.                                          *)

LEMMA UsbPushStep ==
  ASSUME IInv, UsbPush
  PROVE  IInv'
<1> USE DEF IInv, UsbPush
<1>1. /\ Head(usbq) \in Report /\ Head(usbq) # None
      /\ Tail(usbq) \in Seq(Report) /\ Len(Tail(usbq)) = Len(usbq) - 1
  BY EspKbdAssumption DEF Shape, Report
<1>2. TypeOK' /\ Shape'
  BY <1>1, EspKbdAssumption DEF TypeOK, Shape, Outputs, engVars, linkVars, bondVars
<1>3. KeyInv'
  <2>1. BleHeld' /\ EndsReleased' /\ Unlinked' /\ StaleExcused'
    BY DEF KeyInv, BleHeld, BleLast, EndsReleased, Unlinked, StaleExcused, StuckFor,
           Releasing, engVars, linkVars
  <2>2. CASE ep # None
    BY <2>1, <2>2 DEF KeyInv, UsbHeld
  <2>3. CASE ep = None
    <3>1. UsbLast' = UsbLast
      BY <1>1, <2>3, TailFacts DEF UsbLast, StuckFor, engVars, Shape
    <3> QED BY <2>1, <2>3, <3>1 DEF KeyInv, UsbHeld, Releasing, engVars
  <2> QED BY <2>2, <2>3
<1>4. BondInv'
  BY BondInvKept
<1> QED BY <1>2, <1>3, <1>4

LEMMA UsbPollStep ==
  ASSUME IInv, UsbPoll
  PROVE  IInv'
<1> USE DEF IInv, UsbPoll
<1>1. TypeOK' /\ Shape'
  BY DEF TypeOK, Shape, Outputs, engVars, linkVars, bondVars
<1>2. KeyInv'
  <2>1. host'[USB] = ep /\ \A h \in Hosts : host'[h] = host[h]
    BY EspKbdAssumption DEF TypeOK, Outputs
  <2>2. UsbLast' = UsbLast
    BY <2>1 DEF UsbLast, StuckFor, engVars
  <2>3. conn # None => BleLast' = BleLast
    BY <2>1 DEF BleLast, StuckFor, engVars, linkVars, TypeOK
  <2> QED BY <2>1, <2>2, <2>3
       DEF KeyInv, UsbHeld, BleHeld, EndsReleased, Unlinked, StaleExcused, StuckFor,
           Releasing, engVars, linkVars
<1>3. BondInv'
  BY BondInvKept
<1> QED BY <1>1, <1>2, <1>3

-----------------------------------------------------------------------------
(* The BLE task.                                                           *)

(* Pairing window, bond and registry: nothing but bondVars changes.        *)
LEMMA BondCommandStep ==
  ASSUME IInv,
         \/ PairOpen \/ PairClose \/ NvsClear \/ AdvClear
         \/ \E ok \in BOOLEAN : ClearBond(ok)
         \/ \E bond \in Hosts \cup {None} : ConfigSet(bond)
  PROVE  IInv'
<1> USE DEF IInv
<1>1. UNCHANGED <<engVars, usbVars, bleq, linkVars, host, excused>>
  BY DEF PairOpen, PairClose, NvsClear, AdvClear, ClearBond, ConfigSet
<1>2. /\ bonded' \in Hosts \cup {None} /\ flash' \in Hosts \cup {None}
      /\ sm' \subseteq Hosts
  BY DEF PairOpen, PairClose, NvsClear, AdvClear, ClearBond, ConfigSet, HandleBondClear, TypeOK
<1>3. TypeOK' /\ Shape'
  BY <1>1, <1>2 DEF TypeOK, Shape, engVars, usbVars, linkVars
<1>4. KeyInv'
  BY <1>1, KeyInvKept DEF keyVars, engVars, linkVars
<1>5. BondInv'
  <2>1. CASE PairOpen \/ PairClose
    BY <2>1 DEF BondInv, BondSurvivesRestart, PairOpen, PairClose
  <2>2. CASE NvsClear
    BY <2>2 DEF BondInv, BondSurvivesRestart, NvsClear
  <2>3. CASE AdvClear
    BY <2>3 DEF BondInv, BondSurvivesRestart, AdvClear, HandleBondClear
  <2>4. CASE \E ok \in BOOLEAN : ClearBond(ok)
    BY <2>4 DEF BondInv, BondSurvivesRestart, ClearBond
  <2>5. CASE \E bond \in Hosts \cup {None} : ConfigSet(bond)
    BY <2>5 DEF BondInv, BondSurvivesRestart, ConfigSet
  <2> QED BY <2>1, <2>2, <2>3, <2>4, <2>5
<1> QED BY <1>3, <1>4, <1>5

(* Advertising fails, is refused or starts again: only phase changes.      *)
LEMMA AdvStep ==
  ASSUME IInv, AdvError \/ PauseOver \/ \E h \in Hosts : Reject(h)
  PROVE  IInv'
<1> USE DEF IInv
<1>1. /\ UNCHANGED <<engVars, usbVars, bleq, connected, conn, linked, bondVars, host, excused>>
      /\ phase' \in {"adv", "pause"} /\ phase # "serve"
  BY DEF AdvError, PauseOver, Reject
<1>2. TypeOK' /\ Shape'
  BY <1>1 DEF TypeOK, Shape, engVars, usbVars, bondVars
<1>3. KeyInv' /\ BondInv'
  BY <1>1, KeyInvKept, BondInvKept DEF keyVars, engVars
<1> QED BY <1>2, <1>3

(* A host is served: what it may find in the queue is excused.             *)
LEMMA AcceptStep ==
  ASSUME IInv, NEW h \in Hosts, Accept(h)
  PROVE  IInv'
<1> USE DEF IInv, Accept
<1>1. h # None /\ conn = None
  BY EspKbdAssumption DEF TypeOK
<1>2. TypeOK' /\ Shape'
  BY <1>1 DEF TypeOK, Shape, engVars, usbVars, bondVars
<1>3. KeyInv'
  <2>1. UsbHeld' /\ EndsReleased'
    BY DEF KeyInv, UsbHeld, EndsReleased, UsbLast, StuckFor, Releasing, engVars, usbVars
  <2>2. \A x \in Hosts : host[x] = Release
    BY <1>1, EspKbdAssumption DEF KeyInv, Unlinked
  <2>3. BleHeld'
    <3>1. CASE bleq # <<>> \/ StuckFor("ble")
      BY <1>1, <3>1 DEF KeyInv, StaleExcused, BleHeld
    <3>2. CASE ~(bleq # <<>> \/ StuckFor("ble"))
      BY <2>2, <3>2 DEF BleHeld, BleLast, StuckFor, engVars
    <3> QED BY <3>1, <3>2
  <2>4. StaleExcused'
    BY <1>1 DEF StaleExcused
  <2>5. Unlinked'
    BY <2>2 DEF Unlinked
  <2> QED BY <2>1, <2>3, <2>4, <2>5 DEF KeyInv
<1>4. BondInv'
  BY BondInvKept
<1> QED BY <1>2, <1>3, <1>4

(* The host lets its keys go, or is told to by the end of the link.        *)
LEMMA LetGo ==
  ASSUME IInv, conn # None, host' = [host EXCEPT ![conn] = Release]
  PROVE  /\ host' \in [Outputs -> Report] /\ host'[USB] = host[USB]
         /\ \A h \in Hosts : host'[h] = Release
  BY EspKbdAssumption DEF IInv, TypeOK, KeyInv, Unlinked, Outputs, Report

LEMMA LinkLostStep ==
  ASSUME IInv, LinkLost
  PROVE  IInv'
<1> USE DEF IInv, LinkLost
<1>1. conn # None /\ conn \in Hosts
  BY DEF TypeOK, Shape
<1>2. /\ host' \in [Outputs -> Report] /\ host'[USB] = host[USB]
      /\ \A h \in Hosts : host'[h] = Release
  BY <1>1, LetGo
<1>3. TypeOK' /\ Shape'
  BY <1>2 DEF TypeOK, Shape, engVars, usbVars, bondVars
<1>4. KeyInv'
  <2>1. EndsReleased' /\ Unlinked' /\ StaleExcused'
    BY <1>2 DEF KeyInv, EndsReleased, Unlinked, StaleExcused, StuckFor, engVars
  <2>2. UsbHeld'
    BY <1>2 DEF KeyInv, UsbHeld, UsbLast, StuckFor, Releasing, engVars, usbVars
  <2>3. BleHeld'
    BY <1>1, <1>2 DEF KeyInv, BleHeld, BleLast, StuckFor, Releasing, engVars
  <2> QED BY <2>1, <2>2, <2>3 DEF KeyInv
<1>5. BondInv'
  BY BondInvKept
<1> QED BY <1>3, <1>4, <1>5

(* The end of a connection, whoever ended it.                              *)
LEMMA EndServeFacts ==
  ASSUME IInv, EndServe, UNCHANGED <<engVars, usbVars>>,
         host' \in [Outputs -> Report], host'[USB] = host[USB],
         \A h \in Hosts : host'[h] = Release
  PROVE  KeyInv'
<1> USE DEF IInv, EndServe
<1>1. EndsReleased' /\ BleHeld' /\ Unlinked'
  BY DEF KeyInv, EndsReleased, BleHeld, Unlinked, engVars
<1>2. StaleExcused'
  BY DEF StaleExcused, StuckFor, engVars
<1>3. UsbHeld'
  <2>1. UsbLast' = UsbLast
    BY DEF UsbLast, StuckFor, engVars, usbVars
  <2> QED BY <2>1 DEF KeyInv, UsbHeld, Releasing, engVars
<1> QED BY <1>1, <1>2, <1>3 DEF KeyInv

LEMMA DisconnectedStep ==
  ASSUME IInv, Disconnected
  PROVE  IInv'
<1> USE DEF IInv, Disconnected
<1>1. bleq' \in Seq(Report) /\ Len(bleq') <= REPORTS_CAP /\ excused' \subseteq Outputs
  BY EmptyIsSeq, EspKbdAssumption DEF EndServe, TypeOK, Outputs
<1>2. TypeOK' /\ Shape'
  BY <1>1 DEF EndServe, TypeOK, Shape, engVars, usbVars, bondVars
<1>3. KeyInv'
  BY EndServeFacts DEF KeyInv, Unlinked, TypeOK
<1>4. BondInv'
  BY BondInvKept
<1> QED BY <1>2, <1>3, <1>4

LEMMA ServeClearStep ==
  ASSUME IInv, ServeClear
  PROVE  IInv'
<1> USE DEF IInv, ServeClear
<1>1. /\ host' \in [Outputs -> Report] /\ host'[USB] = host[USB]
      /\ \A h \in Hosts : host'[h] = Release
  BY LetGo DEF TypeOK
<1>2. TypeOK' /\ Shape'
  BY <1>1, EmptyIsSeq, EspKbdAssumption
     DEF EndServe, HandleBondClear, TypeOK, Shape, Outputs, engVars, usbVars
<1>3. KeyInv'
  BY <1>1, EndServeFacts
<1>4. BondInv'
  BY DEF HandleBondClear, BondInv, BondSurvivesRestart
<1> QED BY <1>2, <1>3, <1>4

(* A new bond: the flash names whom the RAM names.                         *)
LEMMA PairingCompleteStep ==
  ASSUME IInv, PairingComplete
  PROVE  IInv'
<1> USE DEF IInv, PairingComplete
<1>1. conn \in Hosts /\ conn # None
  BY DEF TypeOK
<1>2. TypeOK' /\ Shape'
  BY <1>1 DEF OnNewBond, TypeOK, Shape, engVars, usbVars, linkVars
<1>3. KeyInv'
  BY KeyInvKept DEF keyVars, engVars, linkVars
<1>4. BondInv'
  BY <1>1 DEF OnNewBond, BondInv, BondSurvivesRestart
<1> QED BY <1>2, <1>3, <1>4

LEMMA NotifyStep ==
  ASSUME IInv, NEW delivered \in BOOLEAN, Notify(delivered)
  PROVE  IInv'
<1> USE DEF IInv, Notify
<1>1. conn \in Hosts /\ conn # None
  BY DEF TypeOK
<1>2. /\ Head(bleq) \in Report /\ Tail(bleq) \in Seq(Report)
      /\ Len(Tail(bleq)) = Len(bleq) - 1
      /\ IF Tail(bleq) = <<>> THEN Head(bleq) = bleq[Len(bleq)]
                              ELSE Tail(bleq)[Len(Tail(bleq))] = bleq[Len(bleq)]
  BY TailFacts DEF Shape
<1>3. /\ host' \in [Outputs -> Report] /\ host'[USB] = host[USB]
      /\ \A h \in Hosts : h # conn => host'[h] = host[h]
      /\ delivered => host'[conn] = Head(bleq)
      /\ ~delivered => conn \in excused'
      /\ excused \subseteq excused' /\ excused' \subseteq Outputs
  BY <1>1, <1>2, EspKbdAssumption DEF TypeOK, Outputs
<1>4. Len(bleq) \in Nat /\ REPORTS_CAP \in Nat
  BY EspKbdAssumption DEF Shape
<1>5. TypeOK' /\ Shape'
  BY <1>2, <1>3, <1>4 DEF TypeOK, Shape, engVars, usbVars, linkVars, bondVars
<1>6. KeyInv'
  <2>1. UsbHeld'
    BY <1>3 DEF KeyInv, UsbHeld, UsbLast, StuckFor, Releasing, engVars, usbVars
  <2>2. BleHeld'
    <3>1. CASE delivered
      <4>1. BleLast' = BleLast
        BY <1>2, <1>3, <3>1 DEF BleLast, StuckFor, engVars, linkVars
      <4> QED BY <1>3, <4>1 DEF KeyInv, BleHeld, Releasing, engVars, linkVars
    <3>2. CASE ~delivered
      BY <1>3, <3>2 DEF BleHeld, linkVars
    <3> QED BY <3>1, <3>2
  <2>3. EndsReleased' /\ Unlinked' /\ StaleExcused'
    BY <1>1, <1>3 DEF KeyInv, EndsReleased, Unlinked, StaleExcused, engVars, linkVars
  <2> QED BY <2>1, <2>2, <2>3 DEF KeyInv
<1>7. BondInv'
  BY BondInvKept
<1> QED BY <1>5, <1>6, <1>7

(* A restart: nothing is down, the bond is what the flash holds.           *)
LEMMA RebootStep ==
  ASSUME IInv, Reboot
  PROVE  IInv'
<1> USE DEF IInv, Reboot
<1>1. TypeOK'
  <2>1. host' \in [Outputs -> Report]
    BY DEF Report
  <2>2. Len(ops') <= OPS_CAP /\ Len(usbq') <= REPORTS_CAP /\ Len(bleq') <= REPORTS_CAP
    BY EmptyIsSeq, EspKbdAssumption
  <2>3. play' \in Seq(Report) /\ sm' \subseteq Hosts
    BY EmptyIsSeq DEF TypeOK
  <2> QED BY <2>1, <2>2, <2>3 DEF TypeOK
<1>2. Shape'
  BY EmptyIsSeq DEF Shape
<1>3. KeyInv'
  BY DEF KeyInv, EndsReleased, UsbHeld, BleHeld, Unlinked, StaleExcused, UsbLast, BleLast,
         StuckFor, Outputs
<1>4. BondInv'
  BY DEF BondInv, BondSurvivesRestart
<1> QED BY <1>1, <1>2, <1>3, <1>4

-----------------------------------------------------------------------------
LEMMA StutterStep ==
  ASSUME IInv, UNCHANGED vars
  PROVE  IInv'
<1> USE DEF IInv, vars
<1>1. TypeOK' /\ Shape'
  BY DEF TypeOK, Shape, engVars, usbVars, linkVars, bondVars
<1>2. KeyInv' /\ BondInv'
  BY KeyInvKept, BondInvKept DEF keyVars, engVars, linkVars
<1> QED BY <1>1, <1>2

LEMMA NextIInv == IInv /\ [Next]_vars => IInv'
<1> SUFFICES ASSUME IInv, [Next]_vars PROVE IInv'
  OBVIOUS
<1>1. CASE Engine
  BY <1>1, ReceiveStep, EmitStep, UnblockStep DEF Engine
<1>2. CASE UsbTask
  BY <1>2, UsbPushStep DEF UsbTask
<1>3. CASE HostTask
  BY <1>3, BondCommandStep, AdvStep, DisconnectedStep, ServeClearStep, NotifyStep
     DEF HostTask
<1>4. CASE Commands
  <2>1. ble_exec => \/ PairOpen \/ PairClose \/ \E ok \in BOOLEAN : ClearBond(ok)
    BY DEF ble_exec, HBondsDelete
  <2>2. HBondsDelete => \E ok \in BOOLEAN : ClearBond(ok)
    BY DEF HBondsDelete
  <2> QED BY <1>4, <2>1, <2>2, PostsAreOperations, PostStep, SetTargetStep, BondCommandStep
          DEF Commands
<1>5. CASE World
  BY <1>5, UsbPollStep, LinkLostStep, AdvStep, PairingCompleteStep, RebootStep, AcceptStep
     DEF World
<1>6. CASE UNCHANGED vars
  BY <1>6, StutterStep
<1> QED BY <1>1, <1>2, <1>3, <1>4, <1>5, <1>6 DEF Next

LEMMA IInvHolds == Spec => []IInv
<1> QED BY InitIInv, NextIInv, PTL DEF Spec

-----------------------------------------------------------------------------
(* The state of the firmware keeps its types: queues within their          *)
(* capacity, CONNECTED exactly while a peer is served.                     *)
THEOREM TypeCorrect == Spec => []TypeOK
<1>1. IInv => TypeOK
  BY DEF IInv
<1> QED BY <1>1, IInvHolds, PTL

(* kb.rs "press/release paired automatically", for every sequence of       *)
(* operations, lost links, output changes and restarts.                    *)
THEOREM NoStuckKeyHolds == Spec => []NoStuckKey
<1>1. IInv => NoStuckKey
  <2> SUFFICES ASSUME IInv, Idle, usbq = <<>>, ep = None, bleq = <<>>,
                      NEW x \in Outputs, host[x] # Release
               PROVE  x \in excused
    BY DEF NoStuckKey
  <2>1. ~Releasing("usb") /\ ~Releasing("ble") /\ ~StuckFor("usb") /\ ~StuckFor("ble")
    BY DEF Idle, Releasing, StuckFor
  <2>2. CASE x = USB
    BY <2>1, <2>2 DEF IInv, KeyInv, UsbHeld, UsbLast
  <2>3. CASE x \in Hosts
    <3>1. conn = x /\ conn # None
      BY <2>3, EspKbdAssumption DEF IInv, KeyInv, Unlinked
    <3> QED BY <2>1, <3>1 DEF IInv, KeyInv, BleHeld, BleLast
  <2> QED BY <2>2, <2>3 DEF Outputs
<1> QED BY <1>1, IInvHolds, PTL

(* A host let in for its bond would be let in after a restart: RAM mirror, *)
(* flash and security manager agree, whatever write or restart came        *)
(* between.                                                                *)
THEOREM BondSurvivesRestartHolds == Spec => []BondSurvivesRestart
<1>1. IInv => BondSurvivesRestart
  BY DEF IInv, BondInv
<1> QED BY <1>1, IInvHolds, PTL
=============================================================================
