------------------------- MODULE KbdPlaybackProofs -------------------------
(***************************************************************************)
(* Machine-checked facts about KbdPlayback, for any number of slots and    *)
(* keys and any capacity of the queues.                                    *)
(***************************************************************************)
EXTENDS KbdPlayback, SequenceTheorems, TLAPS

-----------------------------------------------------------------------------
(* The inductive invariant: TypeOK and three named parts.                  *)

(* Only an encrypted link, or an enumerated USB port, has keys down.       *)
SinksIdle ==
  /\ \A s \in Slots : link[s] # "secure" => host[s] = Release
  /\ ~usb_ready => host[USB] = Release /\ ep2 = Empty

(* The timer will still flush a report: the running text has a release to  *)
(* come, or the queue has a next report.                                   *)
ReportPending ==
  \/ keystr_active /\ keystr_idx < 2 * Len(keystr_buf)
  \/ ~keystr_active /\ Armed /\ seq_idx < Len(seq_buf)

(* A key that is down without excuse is down at the selected output, and   *)
(* the playback has not come to its release yet.                           *)
HeldIsPending ==
  \A h \in Outputs : Held(h) /\ h \notin excused \cup switched
                       => h = kb_target /\ ReportPending

One(b) == IF b THEN 1 ELSE 0

(* The running timer and the set event belong to two different commands,   *)
(* and neither has been answered by +KEY_DONE yet.                         *)
DoneCounted == urcs + One(timer) + One(event) <= cmds

(* So do the text that plays and the queue that is not finished.           *)
PlayCounted == urcs + One(keystr_active) + One(seq_idx < Len(seq_buf)) <= cmds

IInv == /\ TypeOK /\ SinksIdle /\ HeldIsPending /\ StringHasTimer
        /\ DoneCounted /\ PlayCounted

-----------------------------------------------------------------------------
(* Arrays of the AT handlers are sequences.                                *)
LEMMA ArrayIsSeq ==
  ASSUME NEW S, NEW n \in Nat, NEW f \in [1..n -> S]
  PROVE  f \in Seq(S) /\ Len(f) = n
  OBVIOUS

LEMMA EmptyIsSeq ==
  ASSUME NEW S
  PROVE  <<>> \in Seq(S) /\ Len(<<>>) = 0
  OBVIOUS

(* kb_flush keeps the types of what it writes.                             *)
LEMMA FlushType ==
  ASSUME TypeOK, NEW rep \in Report, NEW hold \in BOOLEAN, KbFlush(rep, hold)
  PROVE  /\ ep2' \in Report \cup {Empty}
         /\ host' \in [Outputs -> Report]
         /\ excused' \in SUBSET Outputs
         /\ switched' \in SUBSET Outputs
  BY DEF TypeOK, KbFlush, FlushBle, DropBle, FlushUsb, FlushNowhere, Note,
         sinkVars, Outputs

(* kb_flush writes only to an output that can hold keys.                   *)
LEMMA FlushSinks ==
  ASSUME TypeOK, SinksIdle, NEW rep \in Report, NEW hold \in BOOLEAN,
         KbFlush(rep, hold), UNCHANGED outVars
  PROVE  SinksIdle'
  BY SlotsAssumption DEF TypeOK, SinksIdle, KbFlush, FlushBle, DropBle, FlushUsb,
         FlushNowhere, sinkVars, outVars, Outputs

(* After kb_flush the selected output holds an unexcused key only if the   *)
(* report was a key that the command did not mean to leave down; the other *)
(* outputs are as before.                                                  *)
LEMMA FlushHeld ==
  ASSUME TypeOK, SinksIdle, NEW rep \in Report, NEW hold \in BOOLEAN,
         KbFlush(rep, hold), NEW h \in Outputs,
         Held(h)', h \notin excused' \cup switched'
  PROVE  \/ h = kb_target /\ rep # Release /\ ~hold
         \/ h # kb_target /\ Held(h) /\ h \notin excused \cup switched
  BY SlotsAssumption, ReportsAssumption
     DEF TypeOK, SinksIdle, KbFlush, FlushBle, DropBle, FlushUsb, FlushNowhere, Note,
         sinkVars, Outputs, Report, Held, Effective

-----------------------------------------------------------------------------
LEMMA InitIInv == Init => IInv
<1> SUFFICES ASSUME Init PROVE IInv
  OBVIOUS
<1>1. TypeOK
  <2>1. /\ seq_buf \in Seq(Report) /\ Len(seq_buf) = 0
        /\ keystr_buf \in Seq(Char) /\ Len(keystr_buf) = 0
        /\ typed \in Seq(Keys)
    BY EmptyIsSeq DEF Init
  <2>2. host \in [Outputs -> Report]
    BY DEF Init, Report
  <2>3. /\ seq_idx \in 0..Len(seq_buf) /\ Len(seq_buf) <= SEQ_MAX_REPORTS
        /\ keystr_idx \in 0..(2 * Len(keystr_buf)) /\ Len(keystr_buf) <= KEYSTR_MAX
        /\ cmds \in 0..MaxCmds /\ urcs \in Nat
    BY <2>1, BoundsAssumption DEF Init
  <2>4. /\ kb_target \in Outputs /\ link \in [Slots -> {"down", "insecure", "secure"}]
        /\ closing \in SUBSET Slots /\ usb_ready \in BOOLEAN
        /\ ep2 \in Report \cup {Empty}
        /\ keystr_active \in BOOLEAN /\ timer \in BOOLEAN /\ event \in BOOLEAN
        /\ last \in {"none", "seq", "str"}
        /\ excused \in SUBSET Outputs /\ switched \in SUBSET Outputs
    BY SlotsAssumption DEF Init, Outputs
  <2> QED BY <2>1, <2>2, <2>3, <2>4 DEF TypeOK
<1>2. SinksIdle /\ HeldIsPending
  BY SlotsAssumption DEF Init, SinksIdle, HeldIsPending, Held, Effective, Outputs
<1>3. StringHasTimer /\ DoneCounted /\ PlayCounted
  BY DEF Init, StringHasTimer, DoneCounted, PlayCounted, One, Armed, TypeOK
<1> QED BY <1>1, <1>2, <1>3 DEF IInv

(* AT+KEY, AT+MOD.                                                         *)
LEMMA KeyStep ==
  ASSUME IInv, NEW rep \in Report, Key(rep)
  PROVE  IInv'
<1> USE DEF IInv
<1>1. KbFlush(rep, TRUE) /\ UNCHANGED <<kb_target, playVars, outVars, countVars>>
  BY DEF Key
<1>2. TypeOK'
  BY <1>1, FlushType DEF TypeOK, playVars, outVars, countVars
<1>3. SinksIdle'
  BY <1>1, FlushSinks
<1>4. HeldIsPending'
  BY <1>1, FlushHeld DEF HeldIsPending, ReportPending, Armed, playVars, TypeOK
<1>5. StringHasTimer' /\ DoneCounted' /\ PlayCounted'
  BY <1>1 DEF StringHasTimer, DoneCounted, PlayCounted, One, Armed, TypeOK, playVars,
     countVars
<1> QED BY <1>2, <1>3, <1>4, <1>5

(* AT+TAP and AT+KEY_SEQ.                                                  *)
LEMMA EnqueueStep ==
  ASSUME IInv, NEW reps \in Seq(Report), Len(reps) \in 1..SEQ_MAX_REPORTS,
         Enqueue(reps)
  PROVE  IInv'
<1> USE DEF IInv
<1>1. TypeOK'
  BY BoundsAssumption DEF Enqueue, TypeOK, outVars, sinkVars
<1>2. SinksIdle' /\ HeldIsPending'
  BY DEF Enqueue, SinksIdle, HeldIsPending, ReportPending, Armed, Held, Effective, outVars,
         sinkVars, TypeOK
<1>3. StringHasTimer' /\ DoneCounted' /\ PlayCounted'
  BY DEF Enqueue, StringHasTimer, DoneCounted, PlayCounted, One, Armed, TypeOK
<1> QED BY <1>1, <1>2, <1>3

LEMMA KeyStrStep ==
  ASSUME IInv, NEW text \in Seq(Char), KeyStr(text)
  PROVE  IInv'
<1> USE DEF IInv
<1> DEFINE n == IF Len(text) > KEYSTR_MAX THEN KEYSTR_MAX ELSE Len(text)
<1>1. n \in 1..KEYSTR_MAX /\ n \in 0..Len(text)
  BY BoundsAssumption, Len(text) \in Nat DEF KeyStr
<1>2. keystr_buf' \in Seq(Char) /\ Len(keystr_buf') = n
  <2>1. keystr_buf' = SubSeq(text, 1, n)
    BY DEF KeyStr
  <2> QED BY <1>1, <2>1, SubSeqProperties
<1>3. TypeOK'
  <2>1. typed' \in Seq(Keys)
    BY EmptyIsSeq DEF KeyStr
  <2>2. keystr_idx' \in 0..(2 * Len(keystr_buf')) /\ Len(keystr_buf') <= KEYSTR_MAX
    BY <1>1, <1>2 DEF KeyStr
  <2>3. cmds' \in 0..MaxCmds
    BY BoundsAssumption DEF KeyStr, TypeOK
  <2> QED BY <1>2, <2>1, <2>2, <2>3 DEF KeyStr, TypeOK, outVars, sinkVars
<1>4. SinksIdle' /\ HeldIsPending'
  BY <1>1, <1>2 DEF KeyStr, SinksIdle, HeldIsPending, ReportPending, Armed, Held, Effective,
         outVars, sinkVars, TypeOK
<1>5. StringHasTimer' /\ DoneCounted' /\ PlayCounted'
  BY DEF KeyStr, StringHasTimer, DoneCounted, PlayCounted, One, Armed, TypeOK
<1> QED BY <1>3, <1>4, <1>5

LEMMA DevStep ==
  ASSUME IInv, NEW t \in Outputs, Dev(t)
  PROVE  IInv'
<1> USE DEF IInv
<1>1. TypeOK'
  BY DEF Dev, TypeOK, playVars, countVars
<1>2. SinksIdle' /\ HeldIsPending'
  BY DEF Dev, SinksIdle, HeldIsPending, ReportPending, Armed, Held, Effective, playVars
<1>3. StringHasTimer' /\ DoneCounted' /\ PlayCounted'
  BY DEF Dev, StringHasTimer, DoneCounted, PlayCounted, One, Armed, TypeOK, playVars,
     countVars
<1> QED BY <1>1, <1>2, <1>3

(* One SEQ_EVENT.                                                          *)
LEMMA TickStep ==
  ASSUME IInv, Tick
  PROVE  IInv'
<1> USE DEF IInv
<1>0. event /\ event' = FALSE /\ UNCHANGED <<kb_target, outVars, cmds, last>>
  BY DEF Tick
<1>1. CASE TickStrEnd
  <2>1. TypeOK'
    <3>1. urcs' \in Nat /\ keystr_active' = FALSE
      BY <1>1 DEF TickStrEnd, TypeOK
    <3>2. UNCHANGED <<timer, seq_buf, seq_idx, keystr_buf, keystr_idx, typed, sinkVars>>
      BY <1>1 DEF TickStrEnd
    <3> QED BY <1>0, <3>1, <3>2 DEF TypeOK, outVars, sinkVars
  <2>2. ~ReportPending
    BY <1>1 DEF TickStrEnd, ReportPending, Armed, TypeOK
  <2>3. SinksIdle' /\ HeldIsPending'
    BY <1>0, <1>1, <2>2 DEF TickStrEnd, SinksIdle, HeldIsPending, Held, Effective,
       outVars, sinkVars
  <2>4. StringHasTimer' /\ DoneCounted' /\ PlayCounted'
    BY <1>0, <1>1 DEF TickStrEnd, StringHasTimer, DoneCounted, PlayCounted, One, Armed,
       TypeOK
  <2> QED BY <2>1, <2>3, <2>4
<1>2. CASE TickStrRelease
  <2>1. KbFlush(Release, FALSE) /\ Release \in Report
    BY <1>2 DEF TickStrRelease, Report
  <2>2. keystr_idx' \in 0..(2 * Len(keystr_buf))
    BY <1>2 DEF TickStrRelease, TypeOK
  <2>3. TypeOK'
    BY <1>0, <1>2, <2>1, <2>2, FlushType DEF TickStrRelease, TypeOK, outVars
  <2>4. SinksIdle'
    BY <1>0, <2>1, FlushSinks
  <2>5. HeldIsPending'
    BY <1>0, <1>2, <2>1, FlushHeld DEF HeldIsPending
  <2>6. StringHasTimer' /\ DoneCounted' /\ PlayCounted'
    BY <1>0, <1>2 DEF TickStrRelease, StringHasTimer, DoneCounted, PlayCounted, One,
       Armed, TypeOK
  <2> QED BY <2>3, <2>4, <2>5, <2>6
<1>3. CASE TickStrPress
  <2> DEFINE c == keystr_buf[keystr_idx \div 2 + 1]
  <2>1. keystr_idx' \in 0..(2 * Len(keystr_buf)) /\ keystr_idx' < 2 * Len(keystr_buf)
    BY <1>3 DEF TickStrPress, TypeOK
  <2>2. c \in Char
    BY <1>3 DEF TickStrPress, TypeOK
  <2>3. ReportPending'
    BY <1>3, <2>1 DEF TickStrPress, ReportPending
  <2>4. StringHasTimer' /\ DoneCounted' /\ PlayCounted'
    BY <1>0, <1>3 DEF TickStrPress, StringHasTimer, DoneCounted, PlayCounted, One, Armed,
       TypeOK
  <2>5. CASE Mapped(c)
    <3>1. KbFlush(c, FALSE) /\ typed' = Append(typed, c) /\ c \in Keys /\ c \in Report
      BY <1>3, <2>2, <2>5 DEF TickStrPress, Mapped, Char, Report
    <3>2. TypeOK'
      <4>1. typed' \in Seq(Keys)
        BY <3>1, AppendProperties DEF TypeOK
      <4>2. /\ keystr_active' = keystr_active /\ timer' = TRUE
            /\ UNCHANGED <<seq_buf, seq_idx, keystr_buf, urcs>>
        BY <1>3 DEF TickStrPress
      <4> QED BY <1>0, <2>1, <3>1, <4>1, <4>2, FlushType DEF TypeOK, outVars
    <3>3. SinksIdle'
      BY <1>0, <3>1, FlushSinks
    <3>4. HeldIsPending'
      BY <1>0, <2>3, <3>1, FlushHeld DEF HeldIsPending
    <3> QED BY <2>4, <3>2, <3>3, <3>4
  <2>6. CASE ~Mapped(c)
    <3>1. UNCHANGED <<sinkVars, typed>>
      BY <1>3, <2>6 DEF TickStrPress
    <3>2. TypeOK'
      BY <1>0, <1>3, <2>1, <3>1 DEF TickStrPress, TypeOK, outVars, sinkVars
    <3>3. SinksIdle' /\ HeldIsPending'
      BY <1>0, <2>3, <3>1 DEF SinksIdle, HeldIsPending, Held, Effective, outVars, sinkVars
    <3> QED BY <2>4, <3>2, <3>3
  <2> QED BY <2>5, <2>6
<1>4. CASE TickSeq
  <2> DEFINE rep == seq_buf[seq_idx + 1]
             final == (seq_idx + 1 = Len(seq_buf))
  <2>1. KbFlush(rep, final) /\ rep \in Report /\ final \in BOOLEAN
    BY <1>4 DEF TickSeq, TypeOK
  <2>2. TypeOK'
    <3>1. /\ urcs' \in Nat /\ timer' \in BOOLEAN
          /\ seq_idx' \in 0..Len(seq_buf)
      BY <1>4 DEF TickSeq, TypeOK
    <3>2. UNCHANGED <<seq_buf, keystr_buf, keystr_idx, keystr_active, typed>>
      BY <1>4 DEF TickSeq
    <3> QED BY <1>0, <2>1, <3>1, <3>2, FlushType DEF TypeOK, outVars
  <2>3. SinksIdle'
    BY <1>0, <2>1, FlushSinks
  <2>4. ~final => ReportPending'
    <3>1. seq_idx < Len(seq_buf) /\ seq_idx \in Nat /\ Len(seq_buf) \in Nat
      BY <1>4 DEF TickSeq, TypeOK
    <3>2. ~final => seq_idx + 1 < Len(seq_buf)
      BY <3>1
    <3> QED BY <1>4, <3>2 DEF TickSeq, ReportPending, Armed
  <2>5. HeldIsPending'
    BY <1>0, <2>1, <2>4, FlushHeld DEF HeldIsPending
  <2>6. StringHasTimer' /\ DoneCounted' /\ PlayCounted'
    BY <1>0, <1>4 DEF TickSeq, StringHasTimer, DoneCounted, PlayCounted, One, Armed, TypeOK
  <2> QED BY <2>2, <2>3, <2>5, <2>6
<1>5. CASE TickIdle
  <2>1. TypeOK'
    BY <1>0, <1>5 DEF TickIdle, TypeOK, outVars, sinkVars
  <2>2. SinksIdle' /\ HeldIsPending'
    BY <1>0, <1>5 DEF TickIdle, SinksIdle, HeldIsPending, ReportPending, Armed, TypeOK,
       Held, Effective, outVars, sinkVars
  <2>3. StringHasTimer' /\ DoneCounted' /\ PlayCounted'
    BY <1>0, <1>5 DEF TickIdle, StringHasTimer, DoneCounted, PlayCounted, One, Armed, TypeOK
  <2> QED BY <2>1, <2>2, <2>3
<1> QED BY <1>1, <1>2, <1>3, <1>4, <1>5 DEF Tick

(* The timer runs out.                                                     *)
LEMMA ExpireStep ==
  ASSUME IInv, Expire
  PROVE  IInv'
<1> USE DEF IInv
<1>1. TypeOK'
  BY DEF Expire, TypeOK, outVars, sinkVars, countVars
<1>2. SinksIdle' /\ HeldIsPending'
  BY DEF Expire, SinksIdle, HeldIsPending, ReportPending, Armed, Held, Effective, outVars,
     sinkVars
<1>3. StringHasTimer' /\ DoneCounted' /\ PlayCounted'
  BY DEF Expire, StringHasTimer, DoneCounted, PlayCounted, One, Armed, TypeOK, countVars
<1> QED BY <1>1, <1>2, <1>3

(* The links, the USB port and the hosts.                                  *)
LEMMA EnvStep ==
  ASSUME IInv, Env
  PROVE  IInv'
<1> USE DEF IInv
<1>1. ASSUME NEW s \in Slots, LinkUp(s) \/ LinkSecure(s) PROVE IInv'
  <2>1. TypeOK'
    BY <1>1 DEF LinkUp, LinkSecure, TypeOK, playVars, sinkVars, countVars
  <2>2. SinksIdle' /\ HeldIsPending'
    BY <1>1 DEF LinkUp, LinkSecure, TypeOK, SinksIdle, HeldIsPending, ReportPending, Armed,
       Held, Effective, playVars, sinkVars
  <2>3. StringHasTimer' /\ DoneCounted' /\ PlayCounted'
    BY <1>1 DEF LinkUp, LinkSecure, StringHasTimer, DoneCounted, PlayCounted, One, Armed,
       TypeOK, playVars, countVars
  <2> QED BY <2>1, <2>2, <2>3
<1>2. ASSUME NEW s \in Slots, LinkDown(s) PROVE IInv'
  <2>1. TypeOK'
    BY <1>2 DEF LinkDown, TypeOK, playVars, countVars, Report, Outputs
  <2>2. SinksIdle' /\ HeldIsPending'
    BY <1>2, SlotsAssumption DEF LinkDown, TypeOK, SinksIdle, HeldIsPending,
       ReportPending, Armed, Held, Effective, playVars, Outputs
  <2>3. StringHasTimer' /\ DoneCounted' /\ PlayCounted'
    BY <1>2 DEF LinkDown, StringHasTimer, DoneCounted, PlayCounted, One, Armed, TypeOK,
       playVars, countVars
  <2> QED BY <2>1, <2>2, <2>3
<1>3. CASE UsbUp \/ UsbPoll \/ UsbHalt
  <2>1. TypeOK'
    BY <1>3 DEF UsbUp, UsbPoll, UsbHalt, TypeOK, playVars, outVars, sinkVars, countVars,
       Outputs
  <2>2. SinksIdle' /\ HeldIsPending'
    <3>1. UNCHANGED ReportPending /\ UNCHANGED kb_target
      BY <1>3 DEF UsbUp, UsbPoll, UsbHalt, ReportPending, Armed, playVars
    <3>2. SinksIdle'
      BY <1>3, SlotsAssumption, ReportsAssumption DEF UsbUp, UsbPoll, UsbHalt, TypeOK,
         SinksIdle, outVars, sinkVars, Outputs
    <3>3. \A h \in Outputs : Held(h)' /\ h \notin (excused \cup switched)'
                              => Held(h) /\ h \notin excused \cup switched
      BY <1>3, SlotsAssumption, ReportsAssumption DEF UsbUp, UsbPoll, UsbHalt, TypeOK,
         Held, Effective, outVars, sinkVars, Outputs
    <3> QED BY <3>1, <3>2, <3>3 DEF HeldIsPending
  <2>3. StringHasTimer' /\ DoneCounted' /\ PlayCounted'
    BY <1>3 DEF UsbUp, UsbPoll, UsbHalt, StringHasTimer, DoneCounted, PlayCounted, One,
       Armed, TypeOK, playVars, countVars
  <2> QED BY <2>1, <2>2, <2>3
<1>4. CASE UsbReset
  <2>1. TypeOK'
    BY <1>4 DEF UsbReset, TypeOK, playVars, countVars, Report, Outputs
  <2>2. SinksIdle' /\ HeldIsPending'
    BY <1>4, SlotsAssumption DEF UsbReset, TypeOK, SinksIdle, HeldIsPending,
       ReportPending, Armed, Held, Effective, playVars, Outputs
  <2>3. StringHasTimer' /\ DoneCounted' /\ PlayCounted'
    BY <1>4 DEF UsbReset, StringHasTimer, DoneCounted, PlayCounted, One, Armed, TypeOK,
       playVars, countVars
  <2> QED BY <2>1, <2>2, <2>3
<1> QED BY <1>1, <1>2, <1>3, <1>4 DEF Env

LEMMA CmdStep ==
  ASSUME IInv, Cmd
  PROVE  IInv'
<1>1. ASSUME NEW rep \in Report, Key(rep) PROVE IInv'
  BY <1>1, KeyStep
<1>2. ASSUME NEW rep \in Report, Tap(rep) PROVE IInv'
  <2>1. <<rep, Release>> \in Seq(Report) /\ Len(<<rep, Release>>) = 2
    BY <1>2 DEF Report
  <2>2. Enqueue(<<rep, Release>>) /\ Len(<<rep, Release>>) \in 1..SEQ_MAX_REPORTS
    BY <1>2, <2>1, BoundsAssumption DEF Tap
  <2> QED BY <2>1, <2>2, EnqueueStep
<1>3. ASSUME NEW n \in 1..SEQ_MAX_REPORTS, NEW reps \in [1..n -> Report], KeySeq(reps)
      PROVE  IInv'
  <2>1. reps \in Seq(Report)
    BY <1>3, ArrayIsSeq, BoundsAssumption
  <2> QED BY <1>3, <2>1, EnqueueStep DEF KeySeq
<1>4. ASSUME NEW n \in 1..(KEYSTR_MAX + 1), NEW text \in [1..n -> Char], KeyStr(text)
      PROVE  IInv'
  <2>1. text \in Seq(Char)
    BY <1>4, ArrayIsSeq, BoundsAssumption
  <2> QED BY <1>4, <2>1, KeyStrStep
<1>5. ASSUME NEW t \in Outputs, Dev(t) PROVE IInv'
  BY <1>5, DevStep
<1> QED BY <1>1, <1>2, <1>3, <1>4, <1>5 DEF Cmd

LEMMA NextIInv == IInv /\ [Next]_vars => IInv'
<1> SUFFICES ASSUME IInv, [Next]_vars PROVE IInv'
  OBVIOUS
<1>1. CASE Cmd  BY <1>1, CmdStep
<1>2. CASE Tick BY <1>2, TickStep
<1>3. CASE Env  BY <1>3, EnvStep
<1>5. CASE Expire BY <1>5, ExpireStep
<1>4. CASE UNCHANGED vars
  BY <1>4 DEF IInv, TypeOK, SinksIdle, HeldIsPending, ReportPending, Armed, Held, Effective,
     StringHasTimer, DoneCounted, PlayCounted, One, Armed, TypeOK, vars, playVars,
     outVars, sinkVars, countVars
<1> QED BY <1>1, <1>2, <1>3, <1>4, <1>5 DEF Next

(* The inductive invariant holds in every reachable state.                 *)
THEOREM Inductive == Spec => []IInv
  BY InitIInv, NextIInv, PTL DEF Spec

(* Every variable of the keyboard engine keeps its type; the indices stay  *)
(* inside seq_buf and keystr_buf.                                          *)
THEOREM TypeCorrect == Spec => []TypeOK
<1>1. IInv => TypeOK
  BY DEF IInv
<1> QED BY <1>1, Inductive, PTL

(* TAP and KEY_STR never leave a key stuck, whatever interleaves with the  *)
(* timer: with the timer idle, a key that is down was meant to be, lost    *)
(* its release to a counted drop, or was left behind by AT+DEV.            *)
THEOREM NoStuckKeyHolds == Spec => []NoStuckKey
<1>1. IInv => NoStuckKey
  BY DEF IInv, NoStuckKey, HeldIsPending, ReportPending, Armed, StringHasTimer
<1> QED BY <1>1, Inductive, PTL

(* The text that is playing always has its timer.                          *)
THEOREM StringHasTimerHolds == Spec => []StringHasTimer
<1>1. IInv => StringHasTimer
  BY DEF IInv
<1> QED BY <1>1, Inductive, PTL

(* There is at most one +KEY_DONE per accepted playback command.           *)
THEOREM OneDonePerCommandHolds == Spec => []OneDonePerCommand
<1>1. IInv => OneDonePerCommand
  BY DEF IInv, DoneCounted, OneDonePerCommand, One, TypeOK
<1> QED BY <1>1, Inductive, PTL

(* With every accepted playback command answered by +KEY_DONE nothing is   *)
(* playing, queued or scheduled any more.                                  *)
THEOREM AnsweredMeansQuietHolds == Spec => []AnsweredMeansQuiet
<1>1. IInv => AnsweredMeansQuiet
  BY DEF IInv, DoneCounted, PlayCounted, AnsweredMeansQuiet, One, Armed, TypeOK
<1> QED BY <1>1, Inductive, PTL

-----------------------------------------------------------------------------
(* What a playing string has typed so far: the mapped ones of the          *)
(* characters whose press has been played.                                 *)
Pressed  == (keystr_idx + 1) \div 2
TypedInv == keystr_active => TypedOf(typed, keystr_buf, Pressed)

LEMMA TypedNone ==
  ASSUME NEW s
  PROVE  TypedOf(<<>>, s, 0)
<1> DEFINE e == <<>>
           p == [j \in 1..Len(e) |-> 0]
<1>1. 1..Len(e) = {} /\ 1..0 = {}
  BY EmptySeq
<1> HIDE DEF e
<1>2. p \in [1..Len(e) -> 1..0]
  BY <1>1
<1> HIDE DEF p
<1>3. {p[j] : j \in 1..Len(e)} = {} /\ {i \in 1..0 : Mapped(s[i])} = {}
  BY <1>1
<1>4. TypedOf(e, s, 0)
  BY <1>1, <1>2, <1>3 DEF TypedOf
<1> QED BY <1>4 DEF e

LEMMA TypedNext ==
  ASSUME NEW t \in Seq(Keys), NEW s, NEW n \in Nat, TypedOf(t, s, n)
  PROVE  /\ ~Mapped(s[n + 1]) => TypedOf(t, s, n + 1)
         /\ Mapped(s[n + 1]) /\ s[n + 1] \in Keys => TypedOf(Append(t, s[n + 1]), s, n + 1)
<1>1. PICK p \in [1..Len(t) -> 1..n] :
        /\ \A j \in 1..Len(t) : t[j] = s[p[j]]
        /\ \A i, j \in 1..Len(t) : i < j => p[i] < p[j]
        /\ {p[j] : j \in 1..Len(t)} = {i \in 1..n : Mapped(s[i])}
  BY DEF TypedOf
<1>2. Len(t) \in Nat /\ 1..(n + 1) = (1..n) \cup {n + 1} /\ n + 1 \notin 1..n
  OBVIOUS
<1>3. ASSUME ~Mapped(s[n + 1]) PROVE TypedOf(t, s, n + 1)
  <2>1. p \in [1..Len(t) -> 1..(n + 1)]
    BY <1>2
  <2>2. {i \in 1..(n + 1) : Mapped(s[i])} = {i \in 1..n : Mapped(s[i])}
    BY <1>2, <1>3
  <2> QED BY <1>1, <2>1, <2>2 DEF TypedOf
<1>4. ASSUME Mapped(s[n + 1]), s[n + 1] \in Keys
      PROVE  TypedOf(Append(t, s[n + 1]), s, n + 1)
  <2> DEFINE u == Append(t, s[n + 1])
             q == [j \in 1..(Len(t) + 1) |-> IF j <= Len(t) THEN p[j] ELSE n + 1]
  <2>1. /\ Len(u) = Len(t) + 1 /\ u[Len(t) + 1] = s[n + 1]
        /\ \A j \in 1..Len(t) : u[j] = t[j]
    BY <1>4, AppendProperties
  <2>2. /\ q \in [1..(Len(t) + 1) -> 1..(n + 1)] /\ q[Len(t) + 1] = n + 1
        /\ \A j \in 1..Len(t) : q[j] = p[j]
    BY <1>2
  <2>3. 1..(Len(t) + 1) = (1..Len(t)) \cup {Len(t) + 1} /\ Len(t) + 1 \notin 1..Len(t)
    BY <1>2
  <2> HIDE DEF u, q
  <2>4. \A j \in 1..(Len(t) + 1) : u[j] = s[q[j]]
    BY <1>1, <2>1, <2>2, <2>3
  <2>5. ASSUME NEW i \in 1..(Len(t) + 1), NEW j \in 1..(Len(t) + 1), i < j PROVE q[i] < q[j]
    <3>1. i \in 1..Len(t)
      BY <1>2, <2>5
    <3>2. CASE j \in 1..Len(t)
      BY <1>1, <2>2, <2>5, <3>1, <3>2
    <3>3. CASE j = Len(t) + 1
      <4>1. p[i] \in 1..n
        BY <1>1, <3>1
      <4> QED BY <2>2, <3>1, <3>3, <4>1
    <3> QED BY <2>3, <3>2, <3>3
  <2>6. {q[j] : j \in 1..(Len(t) + 1)} = {p[j] : j \in 1..Len(t)} \cup {n + 1}
    BY <2>2, <2>3
  <2>7. {i \in 1..(n + 1) : Mapped(s[i])} = {i \in 1..n : Mapped(s[i])} \cup {n + 1}
    BY <1>2, <1>4
  <2>8. {q[j] : j \in 1..(Len(t) + 1)} = {i \in 1..(n + 1) : Mapped(s[i])}
    BY <1>1, <2>6, <2>7
  <2>9. TypedOf(u, s, n + 1)
    <3> DEFINE m == Len(t) + 1
    <3>1. /\ Len(u) = m /\ q \in [1..m -> 1..(n + 1)]
          /\ \A j \in 1..m : u[j] = s[q[j]]
          /\ \A i, j \in 1..m : i < j => q[i] < q[j]
          /\ {q[j] : j \in 1..m} = {i \in 1..(n + 1) : Mapped(s[i])}
      BY <2>1, <2>2, <2>4, <2>5, <2>8
    <3> HIDE DEF m
    <3> QED BY <3>1 DEF TypedOf
  <2> QED BY <2>9 DEF u
<1> QED BY <1>3, <1>4

LEMMA InitTyped == Init => TypedInv
BY DEF Init, TypedInv

LEMMA NextTyped ==
  ASSUME IInv, TypedInv, [Next]_vars
  PROVE  TypedInv'
<1>1. TypeOK
  BY DEF IInv
<1>2. CASE UNCHANGED <<keystr_buf, keystr_idx, keystr_active, typed>>
  BY <1>2 DEF TypedInv, Pressed
<1>3. CASE keystr_active' = FALSE
  BY <1>3 DEF TypedInv
<1>4. ASSUME NEW text, KeyStr(text) PROVE TypedInv'
  <2>1. typed' = <<>> /\ Pressed' = 0
    BY <1>4 DEF KeyStr, Pressed
  <2> QED BY <2>1, TypedNone DEF TypedInv
<1>5. CASE TickStrRelease
  <2>1. UNCHANGED <<keystr_buf, keystr_active, typed>>
    BY <1>5 DEF TickStrRelease
  <2>2. Pressed' = Pressed
    BY <1>1, <1>5 DEF TickStrRelease, Pressed, TypeOK
  <2> QED BY <2>1, <2>2 DEF TypedInv
<1>6. CASE TickStrPress
  <2> DEFINE n == keystr_idx \div 2
  <2>1. /\ keystr_active /\ UNCHANGED <<keystr_buf, keystr_active>>
        /\ ~Mapped(keystr_buf[n + 1]) => typed' = typed
        /\ Mapped(keystr_buf[n + 1]) => typed' = Append(typed, keystr_buf[n + 1])
    BY <1>6 DEF TickStrPress
  <2>2. n \in Nat /\ n + 1 \in 1..Len(keystr_buf) /\ Pressed = n /\ Pressed' = n + 1
    BY <1>1, <1>6 DEF TickStrPress, Pressed, TypeOK
  <2>3. typed \in Seq(Keys) /\ keystr_buf[n + 1] \in Char
    BY <1>1, <2>2 DEF TypeOK
  <2> HIDE DEF n
  <2>4. TypedOf(typed, keystr_buf, n)
    BY <2>1, <2>2 DEF TypedInv
  <2>5. TypedOf(typed', keystr_buf, n + 1)
    <3>1. CASE Mapped(keystr_buf[n + 1])
      <4>1. keystr_buf[n + 1] \in Keys
        BY <2>3, <3>1 DEF Char, Mapped
      <4> QED BY <2>1, <2>2, <2>3, <2>4, <3>1, <4>1, TypedNext
    <3>2. CASE ~Mapped(keystr_buf[n + 1])
      BY <2>1, <2>2, <2>3, <2>4, <3>2, TypedNext
    <3> QED BY <3>1, <3>2
  <2> QED BY <2>1, <2>2, <2>5 DEF TypedInv
<1>7. Cmd => \/ UNCHANGED <<keystr_buf, keystr_idx, keystr_active, typed>>
             \/ \E text : KeyStr(text)
  BY DEF Cmd, Key, Tap, KeySeq, Enqueue, Dev, playVars, countVars
<1>8. Env \/ Expire => UNCHANGED <<keystr_buf, keystr_idx, keystr_active, typed>>
  BY DEF Env, LinkUp, LinkSecure, LinkDown, UsbUp, UsbReset, UsbPoll, UsbHalt, Expire,
     playVars, countVars
<1>9. Tick => \/ TickStrPress \/ TickStrRelease \/ keystr_active' = FALSE
              \/ UNCHANGED <<keystr_buf, keystr_idx, keystr_active, typed>>
  BY DEF Tick, TickStrEnd, TickSeq, TickIdle
<1>10. UNCHANGED vars => UNCHANGED <<keystr_buf, keystr_idx, keystr_active, typed>>
  BY DEF vars, playVars, countVars
<1> QED BY <1>2, <1>3, <1>4, <1>5, <1>6, <1>7, <1>8, <1>9, <1>10 DEF Next

(* +KEY_DONE of a text is sent when every character keystr_map knows has   *)
(* been pressed once and in order, whatever commands arrived meanwhile.    *)
THEOREM DoneMeansTypedHolds == Spec => DoneMeansTyped
<1>1. Spec => []TypedInv
  BY Inductive, InitTyped, NextTyped, PTL DEF Spec
<1>2. ASSUME IInv, TypedInv, [Next]_vars, keystr_active, ~keystr_active'
      PROVE  TypedOf(typed, keystr_buf, Len(keystr_buf))
  <2>1. TickStrEnd
    BY <1>2 DEF Next, Cmd, Key, Tap, KeySeq, Enqueue, KeyStr, Dev, Tick, TickStrRelease,
       TickStrPress, TickSeq, TickIdle, Expire, Env, LinkUp, LinkSecure, LinkDown, UsbUp,
       UsbReset, UsbPoll, UsbHalt,
       vars, playVars
  <2>2. Pressed = Len(keystr_buf)
    BY <1>2, <2>1 DEF TickStrEnd, Pressed, IInv, TypeOK
  <2> QED BY <1>2, <2>2 DEF TypedInv
<1>3. IInv /\ TypedInv /\ [Next]_vars
        => [keystr_active /\ ~keystr_active' => TypedOf(typed, keystr_buf,
        Len(keystr_buf))]_vars
  BY <1>2
<1> QED BY <1>1, <1>3, Inductive, PTL DEF Spec, DoneMeansTyped
=============================================================================
