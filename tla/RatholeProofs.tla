---------------------------- MODULE RatholeProofs ----------------------------
(***************************************************************************)
(* Machine-checked facts about Rathole, for any number of socket slots,    *)
(* any configurations and any capacity of CHANGED: every slot that is      *)
(* taken has one owner, a channel on an old configuration is about to be   *)
(* torn down, and a session both ends have finished loses nothing.         *)
(***************************************************************************)
EXTENDS Rathole, SequenceTheorems, FiniteSetTheorems, TLAPS

-----------------------------------------------------------------------------
(* The inductive invariant.                                                *)

(* The slots whose data channel is connected.                              *)
Serving == ({pool, fwd} \ {None}) \cup Queued

(* A slot is taken by the manager for the channel it is connecting or for  *)
(* its standby, by FWD_CH or by the forwarder, by one of them only; the    *)
(* manager's place says which of the first two it has.                     *)
OwnerInv ==
  /\ (mgr = "fill" <=> filling # None) /\ (pool # None => mgr = "select")
  /\ slots = Held \cup Queued \cup leaked
  /\ leaked \cap (Held \cup Queued) = {} /\ Held \cap Queued = {}
  /\ fwd # None => fwd \notin {pool, filling}
  /\ \A i, j \in DOMAIN fwd_ch : fwd_ch[i] = fwd_ch[j] => i = j
  /\ data_ch = Cardinality(Serving)

(* TunnelConf from the start of the handshake on.                          *)
ConfInv ==
  mgr # "wait" /\ snap # conf => reconfig \/ unread # <<>> \/ untold

(* Between sessions the pump is at rest; an end that is closed for reading *)
(* has had the other one flushed, or is waiting for that.                  *)
PumpInv ==
  /\ fwd = None => pump = Idle
  /\ ~cut
  /\ \A e \in Ends : Other(e) \in pump.dirty => e \in pump.open \/ pump.flush = Other(e)

IInv == TypeOK /\ OwnerInv /\ ConfInv /\ PumpInv

-----------------------------------------------------------------------------
(* Queues and the sets of what they hold.                                  *)

LEMMA EmptyIsSeq ==
  ASSUME NEW S
  PROVE  <<>> \in Seq(S) /\ Len(<<>>) = 0
  OBVIOUS

(* Taking the head of a queue without repetitions.                         *)
LEMMA TailOfQueue ==
  ASSUME NEW S, NEW s \in Seq(S), s # <<>>,
         \A i, j \in DOMAIN s : s[i] = s[j] => i = j
  PROVE  /\ Head(s) \in S /\ Tail(s) \in Seq(S)
         /\ \A i, j \in DOMAIN Tail(s) : Tail(s)[i] = Tail(s)[j] => i = j
         /\ Head(s) \in {s[i] : i \in DOMAIN s}
         /\ {Tail(s)[i] : i \in DOMAIN Tail(s)} = {s[i] : i \in DOMAIN s} \ {Head(s)}
<1>1. /\ Head(s) \in S /\ Tail(s) \in Seq(S) /\ Len(Tail(s)) = Len(s) - 1
      /\ \A i \in 1..Len(s) - 1 : Tail(s)[i] = s[i + 1]
  BY HeadTailProperties
<1>2. Len(s) \in Nat /\ Len(s) # 0 /\ Head(s) = s[1] /\ DOMAIN s = 1..Len(s)
  BY EmptySeq
<1>3. DOMAIN Tail(s) = 1..Len(s) - 1
  BY <1>1
<1>4. \A i \in 1..Len(s) - 1 : i + 1 \in 1..Len(s) /\ i + 1 # 1
  BY <1>2
<1>5. ASSUME NEW i \in DOMAIN Tail(s), NEW j \in DOMAIN Tail(s), Tail(s)[i] = Tail(s)[j]
      PROVE  i = j
  <2>1. i + 1 = j + 1
    BY <1>1, <1>2, <1>3, <1>4, <1>5
  <2> QED BY <1>2, <1>3, <2>1
<1>6. 1 \in DOMAIN s
  BY <1>2
<1>7. ASSUME NEW i \in DOMAIN Tail(s) PROVE Tail(s)[i] \in {s[k] : k \in DOMAIN s} \ {Head(s)}
  BY <1>1, <1>2, <1>3, <1>4, <1>6
<1>8. ASSUME NEW i \in DOMAIN s, s[i] # Head(s)
      PROVE  s[i] \in {Tail(s)[k] : k \in DOMAIN Tail(s)}
  <2>1. i - 1 \in 1..Len(s) - 1 /\ (i - 1) + 1 = i
    BY <1>2, <1>8
  <2>2. Tail(s)[i - 1] = s[i]
    BY <1>1, <2>1
  <2> QED BY <1>3, <2>1, <2>2
<1> QED BY <1>1, <1>2, <1>5, <1>6, <1>7, <1>8

(* Appending something new to one.                                         *)
LEMMA AppendToQueue ==
  ASSUME NEW S, NEW s \in Seq(S), NEW x \in S, x \notin {s[i] : i \in DOMAIN s},
         \A i, j \in DOMAIN s : s[i] = s[j] => i = j
  PROVE  /\ Append(s, x) \in Seq(S)
         /\ \A i, j \in DOMAIN Append(s, x) : Append(s, x)[i] = Append(s, x)[j] => i = j
         /\ {Append(s, x)[i] : i \in DOMAIN Append(s, x)} = {s[i] : i \in DOMAIN s} \cup {x}
<1>1. /\ Append(s, x) \in Seq(S) /\ Len(Append(s, x)) = Len(s) + 1
      /\ \A i \in 1..Len(s) : Append(s, x)[i] = s[i]
      /\ Append(s, x)[Len(s) + 1] = x
  BY AppendProperties
<1>2. Len(s) \in Nat /\ DOMAIN s = 1..Len(s)
  OBVIOUS
<1>3. DOMAIN Append(s, x) = 1..Len(s) \cup {Len(s) + 1}
  BY <1>1, <1>2
<1>4. \A i \in 1..Len(s) : s[i] # x
  BY <1>2
<1> QED BY <1>1, <1>2, <1>3, <1>4

(* A queue without repetitions is as long as the set it holds.             *)
LEMMA LengthOfQueue ==
  ASSUME NEW S, NEW s \in Seq(S), \A i, j \in DOMAIN s : s[i] = s[j] => i = j
  PROVE  /\ IsFiniteSet({s[i] : i \in DOMAIN s})
         /\ Cardinality({s[i] : i \in DOMAIN s}) = Len(s)
<1> DEFINE T == {s[i] : i \in DOMAIN s}
<1>1. Len(s) \in Nat /\ DOMAIN s = 1..Len(s)
  OBVIOUS
<1>2. s \in Bijection(1..Len(s), T)
  BY <1>1 DEF Bijection, Injection, Surjection, IsInjective
<1>3. ExistsBijection(1..Len(s), T)
  BY <1>2 DEF ExistsBijection
<1> HIDE DEF T
<1>4. Cardinality(T) = Len(s)
  BY <1>1, <1>3, FS_CountingElements
<1>5. IsFiniteSet(T)
  BY <1>1, <1>3, FS_NatBijection
<1> QED BY <1>4, <1>5 DEF T

-----------------------------------------------------------------------------
(* Slots.                                                                  *)

(* The connected ones are finitely many, and data_ch counts up to Slots.   *)
LEMMA ServingFinite ==
  ASSUME NEW p \in Slots \cup {None}, NEW f \in Slots \cup {None}, NEW q \in Seq(Slots)
  PROVE  LET S == ({p, f} \ {None}) \cup {q[i] : i \in DOMAIN q}
         IN /\ S \subseteq Slots /\ IsFiniteSet(S)
            /\ Cardinality(S) \in 0..Cardinality(Slots)
<1> DEFINE S == ({p, f} \ {None}) \cup {q[i] : i \in DOMAIN q}
<1>1. S \subseteq Slots
  OBVIOUS
<1>2. IsFiniteSet(Slots)
  BY RatholeAssumption
<1> HIDE DEF S
<1>3. IsFiniteSet(S) /\ Cardinality(S) <= Cardinality(Slots)
  BY <1>1, <1>2, FS_Subset
<1>4. Cardinality(S) \in Nat /\ Cardinality(Slots) \in Nat
  BY <1>2, <1>3, FS_CardinalityType
<1> QED BY <1>1, <1>3, <1>4 DEF S

LEMMA ServingIsFinite ==
  ASSUME TypeOK
  PROVE  IsFiniteSet(Serving) /\ Cardinality(Serving) \in Nat
<1>1. pool \in Slots \cup {None} /\ fwd \in Slots \cup {None} /\ fwd_ch \in Seq(Slots)
  BY DEF TypeOK
<1>2. IsFiniteSet(Serving)
  BY <1>1, ServingFinite DEF Serving, Queued
<1> QED BY <1>2, FS_CardinalityType

(* data_ch stays in its range as long as it counts.                        *)
LEMMA DataChRange ==
  ASSUME OwnerInv', pool' \in Slots \cup {None}, fwd' \in Slots \cup {None},
         fwd_ch' \in Seq(Slots)
  PROVE  data_ch' \in 0..Cardinality(Slots)
<1>1. data_ch' = Cardinality(Serving')
  BY DEF OwnerInv
<1>2. Cardinality(Serving') \in 0..Cardinality(Slots)
  BY ServingFinite DEF Serving, Queued
<1> QED BY <1>1, <1>2

LEMMA OwnersKept ==
  ASSUME OwnerInv, UNCHANGED <<slots, data_ch, leaked, pool, fwd, filling, fwd_ch>>,
         mgr' = "fill" <=> filling # None, pool # None => mgr' = "select"
  PROVE  OwnerInv'
<1>1. Queued' = Queued /\ Held' = Held
  BY DEF Queued, Held
<1>2. Serving' = Serving
  BY <1>1 DEF Serving
<1> QED BY <1>1, <1>2 DEF OwnerInv

(* The standby is dropped.                                                 *)
LEMMA PoolReleased ==
  ASSUME TypeOK, OwnerInv, pool # None, Release(pool), pool' = None, mgr' # "fill",
         UNCHANGED <<fwd, filling, fwd_ch>>
  PROVE  OwnerInv'
<1>0. filling = None /\ pool \notin Queued /\ pool # fwd /\ pool \in Held
  BY DEF OwnerInv, Held
<1>1. Queued' = Queued /\ Held' = Held \ {pool}
  BY <1>0 DEF Queued, Held
<1>2. Serving' = Serving \ {pool} /\ pool \in Serving
  BY <1>0, <1>1 DEF Serving
<1>3. data_ch' = Cardinality(Serving')
  BY <1>2, ServingIsFinite, FS_RemoveElement DEF OwnerInv, Release
<1>4. slots' = Held' \cup Queued' \cup leaked' /\ leaked' \cap (Held' \cup Queued') = {}
  BY <1>0, <1>1 DEF OwnerInv, Release
<1> QED BY <1>0, <1>1, <1>3, <1>4 DEF OwnerInv

(* The forwarder is done with its slot.                                    *)
LEMMA FwdReleased ==
  ASSUME TypeOK, OwnerInv, fwd # None, Release(fwd), fwd' = None,
         UNCHANGED <<mgr, pool, filling, fwd_ch>>
  PROVE  OwnerInv'
<1>0. fwd \notin Queued /\ fwd # pool /\ fwd # filling /\ fwd \in Held
  BY DEF OwnerInv, Held
<1>1. Queued' = Queued /\ Held' = Held \ {fwd}
  BY <1>0 DEF Queued, Held
<1>2. Serving' = Serving \ {fwd} /\ fwd \in Serving
  BY <1>0, <1>1 DEF Serving
<1>3. data_ch' = Cardinality(Serving')
  BY <1>2, ServingIsFinite, FS_RemoveElement DEF OwnerInv, Release
<1>4. slots' = Held' \cup Queued' \cup leaked' /\ leaked' \cap (Held' \cup Queued') = {}
  BY <1>0, <1>1 DEF OwnerInv, Release
<1> QED BY <1>0, <1>1, <1>3, <1>4 DEF OwnerInv

(* The end of the connected phase.                                         *)
LEMMA EndConnectedOwners ==
  ASSUME TypeOK, OwnerInv, mgr = "select", EndConnected, UNCHANGED <<fwd, filling, fwd_ch>>
  PROVE  OwnerInv'
<1>1. CASE pool = None
  BY <1>1, OwnersKept DEF EndConnected, slotVars, OwnerInv
<1>2. CASE pool # None
  BY <1>2, PoolReleased DEF EndConnected
<1> QED BY <1>1, <1>2

LEMMA TurnOwners ==
  ASSUME TypeOK, OwnerInv, mgr = "select", Turn, UNCHANGED <<fwd, filling, fwd_ch>>
  PROVE  OwnerInv'
<1>1. CASE Stays
  BY <1>1, OwnersKept DEF Turn, slotVars, OwnerInv
<1>2. CASE ~Stays
  BY <1>2, EndConnectedOwners DEF Turn
<1> QED BY <1>1, <1>2

LEMMA CreateOwners ==
  ASSUME TypeOK, OwnerInv, CreateDataChannel
  PROVE  OwnerInv'
<1> USE DEF CreateDataChannel
<1>1. PICK s \in Slots \ slots : filling' = s /\ slots' = slots \cup {s}
  OBVIOUS
<1>2. UNCHANGED <<fwd, fwd_ch, pool, data_ch, leaked>> /\ s # None /\ mgr = "select"
  BY RatholeAssumption DEF fwdVars
<1>3. filling = None /\ pool = None
  BY <1>2 DEF OwnerInv
<1>4. Queued' = Queued /\ Held' = Held \cup {s}
  BY <1>1, <1>2, <1>3 DEF Queued, Held
<1>5. Serving' = Serving
  BY <1>2, <1>4 DEF Serving
<1>6. s \notin Held \cup Queued \cup leaked
  BY DEF OwnerInv
<1>7. fwd' # None => fwd' \notin {pool', filling'}
  BY <1>1, <1>2, <1>3, <1>6 DEF Held
<1> QED BY <1>1, <1>2, <1>3, <1>4, <1>5, <1>6, <1>7 DEF OwnerInv

LEMMA FillOwners ==
  ASSUME TypeOK, OwnerInv, FillOk \/ \E resolved \in BOOLEAN : FillFails(resolved)
  PROVE  OwnerInv'
<1>1. /\ UNCHANGED <<fwd, fwd_ch>> /\ mgr = "fill" /\ filling' = None
      /\ mgr' # "fill"
  BY DEF FillOk, FillFails, fwdVars, TurnBare
<1>2. pool = None /\ filling # None /\ filling # fwd /\ filling \in Held
  BY <1>1 DEF OwnerInv, Held
<1>3. filling \notin Queued /\ filling \notin leaked /\ filling \notin Serving
  BY <1>2 DEF OwnerInv, Serving
<1>4. Queued' = Queued
  BY <1>1 DEF Queued
<1>5. CASE FillOk /\ Stays
  <2>1. /\ pool' = filling /\ data_ch' = data_ch + 1 /\ UNCHANGED <<slots, leaked>>
        /\ mgr' = "select"
    BY <1>5 DEF FillOk, TurnBare
  <2>2. Held' = Held
    BY <1>1, <1>2, <2>1 DEF Held
  <2>3. Serving' = Serving \cup {filling}
    BY <1>1, <1>2, <1>4, <2>1 DEF Serving
  <2>4. data_ch' = Cardinality(Serving')
    BY <1>3, <2>1, <2>3, ServingIsFinite, FS_AddElement DEF OwnerInv
  <2> QED BY <1>1, <1>2, <1>4, <2>1, <2>2, <2>4 DEF OwnerInv
<1>6. CASE (FillOk /\ ~Stays) \/ \E resolved \in BOOLEAN : FillFails(resolved)
  <2>1. UNCHANGED <<pool, data_ch>>
    BY <1>6 DEF FillOk, FillFails
  <2>2. \/ slots' = slots \ {filling} /\ leaked' = leaked
        \/ slots' = slots /\ leaked' = leaked \cup {filling}
    BY <1>6 DEF FillOk, FillFails
  <2>3. Held' = Held \ {filling}
    BY <1>1, <1>2, <2>1 DEF Held
  <2>4. Serving' = Serving
    BY <1>1, <1>4, <2>1 DEF Serving
  <2>5. slots' = Held' \cup Queued' \cup leaked' /\ leaked' \cap (Held' \cup Queued') = {}
    BY <1>2, <1>3, <1>4, <2>2, <2>3 DEF OwnerInv
  <2> QED BY <1>1, <1>2, <1>4, <2>1, <2>3, <2>4, <2>5 DEF OwnerInv
<1> QED BY <1>5, <1>6

(* The standby is handed to the forwarder.                                 *)
LEMMA StartForwardOwners ==
  ASSUME TypeOK, OwnerInv, NEW ok \in BOOLEAN, StartForward(ok)
  PROVE  OwnerInv' /\ fwd_ch' \in Seq(Slots)
<1> USE DEF StartForward
<1>1. /\ mgr = "select" /\ pool # None /\ pool' = None /\ mgr' # "fill"
      /\ UNCHANGED <<fwd, filling>>
  BY DEF TurnBare
<1>2. fwd_ch \in Seq(Slots) /\ pool \in Slots
  BY <1>1 DEF TypeOK
<1>3. CASE ok /\ Len(fwd_ch) < Cardinality(Slots)
  <2>1. fwd_ch' = Append(fwd_ch, pool) /\ UNCHANGED slotVars
    BY <1>3
  <2>2. filling = None /\ pool \notin Queued /\ pool # fwd /\ pool \in Held
    BY <1>1 DEF OwnerInv, Held
  <2>3. /\ fwd_ch' \in Seq(Slots) /\ Queued' = Queued \cup {pool}
        /\ \A i, j \in DOMAIN fwd_ch' : fwd_ch'[i] = fwd_ch'[j] => i = j
    BY <1>2, <2>1, <2>2, AppendToQueue DEF OwnerInv, Queued
  <2>4. Held' = Held \ {pool}
    BY <1>1, <2>2 DEF Held
  <2>5. Serving' = Serving
    BY <1>1, <2>3 DEF Serving
  <2>6. slots' = Held' \cup Queued' \cup leaked' /\ leaked' \cap (Held' \cup Queued') = {}
    BY <2>1, <2>2, <2>3, <2>4 DEF OwnerInv, slotVars
  <2>7. Held' \cap Queued' = {}
    BY <2>3, <2>4 DEF OwnerInv
  <2> QED BY <1>1, <2>1, <2>2, <2>3, <2>5, <2>6, <2>7 DEF OwnerInv, slotVars
<1>4. CASE ~(ok /\ Len(fwd_ch) < Cardinality(Slots))
  <2>1. Release(pool) /\ UNCHANGED fwd_ch
    BY <1>4
  <2> QED BY <1>1, <1>2, <2>1, PoolReleased
<1> QED BY <1>3, <1>4

LEMMA FwdTakeOwners ==
  ASSUME TypeOK, OwnerInv, FwdTake
  PROVE  OwnerInv' /\ fwd_ch' \in Seq(Slots) /\ fwd' \in Slots
<1> USE DEF FwdTake
<1>1. /\ fwd = None /\ fwd_ch # <<>> /\ fwd' = Head(fwd_ch) /\ fwd_ch' = Tail(fwd_ch)
      /\ UNCHANGED <<mgr, pool, filling, slotVars>>
  BY DEF FwdRest, mgrVars
<1>2. /\ Head(fwd_ch) \in Slots /\ fwd_ch' \in Seq(Slots)
      /\ \A i, j \in DOMAIN fwd_ch' : fwd_ch'[i] = fwd_ch'[j] => i = j
      /\ Head(fwd_ch) \in Queued /\ Queued' = Queued \ {Head(fwd_ch)}
  <2>1. fwd_ch \in Seq(Slots) /\ \A i, j \in DOMAIN fwd_ch : fwd_ch[i] = fwd_ch[j] => i = j
    BY DEF TypeOK, OwnerInv
  <2>2. /\ Head(fwd_ch) \in Slots /\ Tail(fwd_ch) \in Seq(Slots)
        /\ \A i, j \in DOMAIN Tail(fwd_ch) : Tail(fwd_ch)[i] = Tail(fwd_ch)[j] => i = j
        /\ Head(fwd_ch) \in {fwd_ch[i] : i \in DOMAIN fwd_ch}
        /\ {Tail(fwd_ch)[i] : i \in DOMAIN Tail(fwd_ch)}
             = {fwd_ch[i] : i \in DOMAIN fwd_ch} \ {Head(fwd_ch)}
    BY <1>1, <2>1, TailOfQueue
  <2> QED BY <1>1, <2>2 DEF Queued
<1>3. Head(fwd_ch) # None /\ Head(fwd_ch) \notin Held
  BY <1>2, RatholeAssumption DEF OwnerInv
<1>4. Held' = Held \cup {Head(fwd_ch)}
  BY <1>1, <1>3 DEF Held
<1>5. Serving' = Serving
  BY <1>1, <1>2, <1>3 DEF Serving
<1>6. slots' = Held' \cup Queued' \cup leaked' /\ leaked' \cap (Held' \cup Queued') = {}
  BY <1>1, <1>2, <1>4 DEF OwnerInv, slotVars
<1>7. Held' \cap Queued' = {}
  BY <1>2, <1>4 DEF OwnerInv
<1>8. fwd' \notin {pool', filling'}
  BY <1>1, <1>3 DEF Held
<1> QED BY <1>1, <1>2, <1>5, <1>6, <1>7, <1>8 DEF OwnerInv, slotVars

-----------------------------------------------------------------------------
(* Commands and the watcher: flags and configuration.                      *)

LEMMA PublishFacts ==
  ASSUME TypeOK, NEW topics \in Seq(Keys), topics # <<>>, Publish(topics)
  PROVE  /\ unread' \in Seq(Keys) /\ Len(unread') <= CAP /\ untold' \in BOOLEAN
         /\ unread' # <<>> \/ untold'
<1>1. PICK n \in 0..Len(topics) :
        /\ Len(unread) + n <= CAP /\ unread' = unread \o SubSeq(topics, 1, n)
        /\ untold' = (untold \/ n < Len(topics))
  BY DEF Publish
<1>2. SubSeq(topics, 1, n) \in Seq(Keys) /\ Len(SubSeq(topics, 1, n)) = n
  BY SubSeqProperties
<1>3. unread \in Seq(Keys) /\ Len(unread) \in Nat /\ Len(topics) \in Nat /\ Len(topics) # 0
  BY EmptySeq DEF TypeOK
<1>4. unread' \in Seq(Keys) /\ Len(unread') = Len(unread) + n
  BY <1>1, <1>2, <1>3, ConcatProperties
<1>5. n = Len(topics) => unread' # <<>>
  <2>1. n = Len(topics) => Len(unread') # 0
    BY <1>3, <1>4
  <2> QED BY <2>1, EmptySeq
<1>6. untold' \in BOOLEAN /\ (n < Len(topics) => untold')
  BY <1>1 DEF TypeOK
<1>7. unread' # <<>> \/ untold'
  <2>1. n = Len(topics) \/ n < Len(topics)
    BY <1>3
  <2> QED BY <1>5, <1>6, <2>1
<1>8. Len(unread') <= CAP
  BY <1>1, <1>4
<1> QED BY <1>4, <1>6, <1>7, <1>8

(* The manager, its slots and the forwarder are left alone.                *)
LEMMA FlagStep ==
  ASSUME IInv, UNCHANGED <<mgrVars, fwdVars, slotVars>>, cmds' \in 0..MaxCmds,
         conf' \in Confs \cup {None}, master' \in BOOLEAN, enab' \in BOOLEAN,
         auto' \in BOOLEAN, untold' \in BOOLEAN, want' \in BOOLEAN,
         reconfig' \in BOOLEAN, kick' \in BOOLEAN,
         unread' \in Seq(Keys), Len(unread') <= CAP,
         \/ unread' # <<>> \/ untold' \/ reconfig'
         \/ UNCHANGED <<conf, unread, untold, reconfig>>
  PROVE  IInv'
<1> USE DEF IInv, mgrVars, fwdVars, slotVars
<1>1. TypeOK'
  BY DEF TypeOK
<1>2. OwnerInv'
  BY OwnersKept DEF OwnerInv
<1>3. ConfInv'
  BY DEF ConfInv, TypeOK
<1>4. PumpInv'
  BY DEF PumpInv, Idle, TypeOK
<1> QED BY <1>1, <1>2, <1>3, <1>4

LEMMA CommandCount ==
  ASSUME TypeOK, Command
  PROVE  cmds' \in 0..MaxCmds
  BY RatholeAssumption DEF TypeOK, Command

LEMMA CommandsStep ==
  ASSUME IInv, Commands
  PROVE  IInv'
<1>0. TypeOK
  BY DEF IInv
<1>1. CASE Connect
  <2>1. cmds' \in 0..MaxCmds
    BY <1>0, <1>1, CommandCount DEF Connect
  <2> QED BY <1>0, <1>1, <2>1, FlagStep DEF Connect, cfgVars, TypeOK
<1>2. CASE Disconnect
  <2>1. cmds' \in 0..MaxCmds
    BY <1>0, <1>2, CommandCount DEF Disconnect
  <2> QED BY <1>0, <1>2, <2>1, FlagStep DEF Disconnect, StopFlags, cfgVars, TypeOK
<1>3. CASE Clear
  <2>1. cmds' \in 0..MaxCmds
    BY <1>0, <1>3, CommandCount DEF Clear
  <2> DEFINE topics == [i \in 1..7 |-> IF i = 7 THEN "tunnel.1.enable" ELSE "tunnel.1"]
  <2>2. topics \in [1..7 -> Keys]
    BY DEF Keys
  <2>3. topics \in Seq(Keys) /\ Len(topics) = 7
    BY <2>2
  <2>4. Publish(topics)
    BY <1>3 DEF Clear
  <2> HIDE DEF topics
  <2>5. topics # <<>>
    BY <2>3, EmptySeq
  <2>6. unread' \in Seq(Keys) /\ Len(unread') <= CAP /\ untold' \in BOOLEAN
    BY <1>0, <2>3, <2>4, <2>5, PublishFacts
  <2>7. /\ conf' \in Confs \cup {None} /\ auto' \in BOOLEAN /\ enab' \in BOOLEAN
        /\ master' \in BOOLEAN /\ want' \in BOOLEAN /\ reconfig' \in BOOLEAN /\ kick' \in BOOLEAN
        /\ reconfig'
    BY <1>0, <1>3 DEF Clear, StopFlags, TypeOK
  <2>8. UNCHANGED <<mgrVars, fwdVars, slotVars>>
    BY <1>3 DEF Clear
  <2> QED BY <2>1, <2>6, <2>7, <2>8, FlagStep
<1>4. CASE SetConf \/ SetAuto \/ SetEnable \/ SetMaster
  <2>1. cmds' \in 0..MaxCmds
    BY <1>0, <1>4, CommandCount DEF SetConf, SetAuto, SetEnable, SetMaster
  <2>2. PICK k \in Keys : Publish(<<k>>)
    BY <1>4 DEF SetConf, SetAuto, SetEnable, SetMaster, Keys
  <2>3. <<k>> \in Seq(Keys) /\ <<k>> # <<>>
    OBVIOUS
  <2>4. /\ unread' \in Seq(Keys) /\ Len(unread') <= CAP /\ untold' \in BOOLEAN
        /\ unread' # <<>> \/ untold'
    BY <1>0, <2>2, <2>3, PublishFacts
  <2>5. /\ conf' \in Confs \cup {None} /\ auto' \in BOOLEAN /\ enab' \in BOOLEAN
        /\ master' \in BOOLEAN /\ want' \in BOOLEAN /\ reconfig' \in BOOLEAN /\ kick' \in BOOLEAN
    BY <1>0, <1>4 DEF SetConf, SetAuto, SetEnable, SetMaster, flagVars, TypeOK
  <2>6. UNCHANGED <<mgrVars, fwdVars, slotVars>>
    BY <1>4 DEF SetConf, SetAuto, SetEnable, SetMaster
  <2> QED BY <2>1, <2>4, <2>5, <2>6, FlagStep
<1> QED BY <1>1, <1>2, <1>3, <1>4 DEF Commands

LEMMA WatchStep ==
  ASSUME IInv, Watch
  PROVE  IInv'
<1>0. TypeOK
  BY DEF IInv
<1>1. unread \in Seq(Keys) /\ unread # <<>> /\ unread' = Tail(unread) /\ Len(unread) <= CAP
  BY <1>0 DEF Watch, TypeOK
<1>2. Tail(unread) \in Seq(Keys) /\ Len(Tail(unread)) = Len(unread) - 1 /\ Len(unread) \in Nat
  BY <1>1, HeadTailProperties
<1>3. CAP \in Nat
  BY RatholeAssumption
<1>4. unread' \in Seq(Keys) /\ Len(unread') <= CAP
  BY <1>1, <1>2, <1>3
<1>5. want' \in BOOLEAN
  BY <1>0 DEF Watch, WantAfter, TypeOK
<1>6. /\ conf' \in Confs \cup {None} /\ auto' \in BOOLEAN /\ enab' \in BOOLEAN
      /\ master' \in BOOLEAN /\ untold' \in BOOLEAN /\ cmds' \in 0..MaxCmds
  BY <1>0 DEF Watch, TypeOK
<1>7. reconfig' \in BOOLEAN /\ kick' \in BOOLEAN /\ reconfig' /\ UNCHANGED <<mgrVars, fwdVars, slotVars>>
  BY DEF Watch
<1> QED BY <1>4, <1>5, <1>6, <1>7, FlagStep

-----------------------------------------------------------------------------
(* The manager and what the server does.                                   *)

(* A step keeps ConfInv when it begins no phase and forgets no request.    *)
LEMMA ConfKept ==
  ASSUME ConfInv, UNCHANGED <<cfgVars, snap>>, reconfig => reconfig', mgr' # "wait" => mgr # "wait"
  PROVE  ConfInv'
  BY DEF ConfInv, cfgVars

LEMMA PumpKept ==
  ASSUME PumpInv, UNCHANGED <<fwd, pump, cut>>
  PROVE  PumpInv'
  BY DEF PumpInv, Idle

(* Steps of the manager that leave the configuration and the forwarder's   *)
(* session alone.                                                          *)
LEMMA MgrType ==
  ASSUME TypeOK, OwnerInv', UNCHANGED <<cfgVars, fwd, pump, cut, cmds>>,
         want' \in BOOLEAN, reconfig' \in BOOLEAN, kick' \in BOOLEAN,
         snap' \in Confs \cup {None}, mgr' \in {"wait", "handshake", "select", "fill"},
         connected' \in BOOLEAN, connected' <=> mgr' \in {"select", "fill"},
         filling' \in Slots \cup {None}, pool' \in Slots \cup {None}, fwd_ch' \in Seq(Slots),
         slots' \subseteq Slots
  PROVE  TypeOK'
<1>1. fwd' \in Slots \cup {None}
  BY DEF TypeOK
<1>2. data_ch' \in 0..Cardinality(Slots)
  BY <1>1, DataChRange
<1>3. leaked' \subseteq slots'
  BY DEF OwnerInv
<1> QED BY <1>1, <1>2, <1>3 DEF TypeOK, cfgVars

LEMMA ManagerStep ==
  ASSUME IInv, Kicked \/ Dial \/ HandshakeFails \/ HandshakeOk
  PROVE  IInv'
<1> USE DEF IInv
<1>1. /\ UNCHANGED <<cfgVars, fwdVars, slotVars, filling, pool, cmds>>
      /\ mgr \in {"wait", "handshake"} /\ mgr' \in {"wait", "handshake", "select"}
  BY DEF Kicked, Dial, HandshakeFails, HandshakeOk, mgrVars
<1>2. OwnerInv'
  BY <1>1, OwnersKept DEF slotVars, fwdVars, OwnerInv
<1>3. /\ want' \in BOOLEAN /\ reconfig' \in BOOLEAN /\ kick' \in BOOLEAN
      /\ snap' \in Confs \cup {None}
  BY DEF Kicked, Dial, HandshakeFails, HandshakeOk, mgrVars, flagVars, TypeOK
<1>7. connected' \in BOOLEAN /\ (connected' <=> mgr' \in {"select", "fill"})
  <2>1. CASE Kicked
    BY <2>1 DEF Kicked, mgrVars, TypeOK
  <2>2. CASE Dial \/ HandshakeFails
    BY <2>2 DEF Dial, HandshakeFails, TypeOK
  <2>3. CASE HandshakeOk
    BY <2>3 DEF HandshakeOk
  <2> QED BY <2>1, <2>2, <2>3
<1>4. TypeOK'
  <2>1. filling' \in Slots \cup {None} /\ pool' \in Slots \cup {None} /\ fwd_ch' \in Seq(Slots)
        /\ slots' \subseteq Slots
    BY <1>1 DEF TypeOK, fwdVars, slotVars
  <2> QED BY <1>1, <1>2, <1>3, <1>7, <2>1, MgrType DEF fwdVars
<1>5. ConfInv'
  <2>1. CASE Kicked \/ HandshakeFails
    BY <1>1, <2>1, ConfKept DEF Kicked, HandshakeFails, mgrVars, flagVars
  <2>2. CASE HandshakeOk
    BY <1>1, <2>2, ConfKept DEF HandshakeOk, flagVars
  <2>3. CASE Dial
    BY <1>1, <2>3 DEF Dial, ConfInv, cfgVars
  <2> QED BY <2>1, <2>2, <2>3
<1>6. PumpInv'
  BY <1>1, PumpKept DEF fwdVars
<1> QED BY <1>2, <1>4, <1>5, <1>6

(* The connected phase, by what becomes of the slots.                      *)
LEMMA ConnectedStep ==
  ASSUME IInv,
         \/ CreateDataChannel \/ CtlOther \/ FillOk \/ (\E resolved \in BOOLEAN : FillFails(resolved))
         \/ StandbyGone \/ (\E ok \in BOOLEAN : StartForward(ok)) \/ CtlDown \/ SelectKick
  PROVE  IInv'
<1> USE DEF IInv
<1>1. /\ UNCHANGED <<cfgVars, want, reconfig, snap, fwd, pump, cut, cmds>> /\ kick' \in BOOLEAN
      /\ mgr \in {"select", "fill"}
  BY DEF CreateDataChannel, CtlOther, FillOk, FillFails, StandbyGone, StartForward, CtlDown,
         SelectKick, fwdVars, flagVars, TypeOK
<1>2. /\ mgr' \in {"wait", "select", "fill"} /\ connected' \in BOOLEAN
      /\ connected' <=> mgr' \in {"select", "fill"}
  BY DEF CreateDataChannel, CtlOther, FillOk, FillFails, StandbyGone, StartForward, CtlDown,
         SelectKick, Turn, TurnBare, EndConnected, TypeOK
<1>3. pool' \in Slots \cup {None} /\ filling' \in Slots \cup {None}
  BY DEF CreateDataChannel, CtlOther, FillOk, FillFails, StandbyGone, StartForward, CtlDown,
         SelectKick, Turn, TurnBare, EndConnected, TypeOK
<1>4. slots' \subseteq Slots
  BY DEF CreateDataChannel, CtlOther, FillOk, FillFails, StandbyGone, StartForward, CtlDown,
         SelectKick, Turn, TurnBare, EndConnected, Release, slotVars, TypeOK
<1>5. OwnerInv' /\ fwd_ch' \in Seq(Slots)
  <2>0. fwd_ch \in Seq(Slots)
    BY DEF TypeOK
  <2>1. CASE CreateDataChannel
    BY <2>0, <2>1, CreateOwners DEF CreateDataChannel, fwdVars
  <2>2. CASE CtlOther \/ SelectKick
    BY <2>0, <2>2, TurnOwners DEF CtlOther, SelectKick, fwdVars
  <2>3. CASE FillOk \/ \E resolved \in BOOLEAN : FillFails(resolved)
    BY <2>0, <2>3, FillOwners DEF FillOk, FillFails, fwdVars
  <2>4. CASE StandbyGone
    BY <2>0, <2>4, PoolReleased DEF StandbyGone, TurnBare, fwdVars
  <2>5. CASE \E ok \in BOOLEAN : StartForward(ok)
    BY <2>5, StartForwardOwners
  <2>6. CASE CtlDown
    BY <2>0, <2>6, EndConnectedOwners DEF CtlDown, fwdVars
  <2> QED BY <2>1, <2>2, <2>3, <2>4, <2>5, <2>6
<1>6. TypeOK'
  <2>1. want' \in BOOLEAN /\ reconfig' \in BOOLEAN /\ snap' \in Confs \cup {None}
    BY <1>1 DEF TypeOK
  <2> QED BY <1>1, <1>2, <1>3, <1>4, <1>5, <2>1, MgrType
<1>7. ConfInv'
  BY <1>1, ConfKept
<1>8. PumpInv'
  BY <1>1, PumpKept
<1> QED BY <1>5, <1>6, <1>7, <1>8

-----------------------------------------------------------------------------
(* The forwarder.                                                          *)

LEMMA FwdType ==
  ASSUME TypeOK, OwnerInv', FwdRest, fwd' \in Slots \cup {None}, fwd_ch' \in Seq(Slots),
         slots' \subseteq Slots, cut' \in BOOLEAN,
         pump' \in [open : SUBSET Ends, dirty : SUBSET Ends,
                    flush : Ends \cup {None}, dialled : BOOLEAN]
  PROVE  TypeOK'
<1>1. pool' \in Slots \cup {None}
  BY DEF TypeOK, FwdRest, mgrVars
<1>2. data_ch' \in 0..Cardinality(Slots)
  BY <1>1, DataChRange
<1>3. leaked' \subseteq slots'
  BY DEF OwnerInv
<1> QED BY <1>1, <1>2, <1>3 DEF TypeOK, FwdRest, cfgVars, flagVars, mgrVars

LEMMA FwdConf ==
  ASSUME ConfInv, FwdRest
  PROVE  ConfInv'
  BY ConfKept DEF FwdRest, mgrVars, flagVars

LEMMA IdleFacts ==
  /\ Idle \in [open : SUBSET Ends, dirty : SUBSET Ends, flush : Ends \cup {None}, dialled : BOOLEAN]
  /\ Idle.open = {} /\ Idle.dirty = {} /\ Idle.flush = None /\ ~Idle.dialled
  BY DEF Idle

LEMMA EndsFacts ==
  /\ None \notin Ends
  /\ \A e \in Ends : Other(e) \in Ends /\ Other(e) # e /\ Other(Other(e)) = e
  BY RatholeAssumption DEF Ends, Other

(* A session ends.                                                         *)
LEMMA FwdEndStep ==
  ASSUME IInv, fwd # None, FwdEnd, FwdRest, cut' = FALSE
  PROVE  IInv'
<1> USE DEF IInv
<1>1. OwnerInv'
  BY FwdReleased DEF FwdEnd, FwdRest, mgrVars
<1>2. TypeOK'
  <2>1. cut' \in BOOLEAN
    OBVIOUS
  <2>2. slots' \subseteq Slots /\ fwd_ch' \in Seq(Slots)
    BY DEF FwdEnd, Release, TypeOK
  <2> QED BY <1>1, <2>1, <2>2, FwdType, IdleFacts DEF FwdEnd
<1>3. ConfInv'
  BY FwdConf
<1>4. PumpInv'
  BY IdleFacts DEF FwdEnd, PumpInv
<1> QED BY <1>1, <1>2, <1>3, <1>4

(* The session goes on.                                                    *)
LEMMA PumpStep ==
  ASSUME IInv, UNCHANGED <<fwd, fwd_ch, cut, slotVars>>, FwdRest, fwd # None,
         pump' \in [open : SUBSET Ends, dirty : SUBSET Ends,
                    flush : Ends \cup {None}, dialled : BOOLEAN],
         \A e \in Ends : Other(e) \in pump'.dirty => e \in pump'.open \/ pump'.flush = Other(e)
  PROVE  IInv'
<1> USE DEF IInv
<1>1. OwnerInv'
  BY OwnersKept DEF slotVars, FwdRest, mgrVars, OwnerInv
<1>2. TypeOK'
  BY <1>1, FwdType DEF slotVars, TypeOK
<1>3. ConfInv'
  BY FwdConf
<1>4. PumpInv'
  BY DEF PumpInv
<1> QED BY <1>1, <1>2, <1>3, <1>4

LEMMA ForwarderStep ==
  ASSUME IInv, Forwarder
  PROVE  IInv'
<1> USE DEF IInv
<1>0. /\ cut = FALSE /\ pump.flush \in Ends \cup {None} /\ FwdRest
      /\ pump \in [open : SUBSET Ends, dirty : SUBSET Ends,
                   flush : Ends \cup {None}, dialled : BOOLEAN]
      /\ \A e \in Ends : Other(e) \in pump.dirty => e \in pump.open \/ pump.flush = Other(e)
  BY DEF TypeOK, PumpInv, Forwarder, FwdTake, FwdDialFails, FwdDial, PumpFlushed, PumpError,
         PumpBytes, PumpEof, Acked
<1>1. CASE FwdTake
  <2>1. OwnerInv' /\ fwd_ch' \in Seq(Slots) /\ fwd' \in Slots
    BY <1>1, FwdTakeOwners
  <2>2. UNCHANGED <<pump, cut, slotVars>>
    BY <1>1 DEF FwdTake
  <2>3. TypeOK'
    BY <1>0, <2>1, <2>2, FwdType DEF slotVars, TypeOK
  <2>4. PumpInv'
    BY <2>1, <2>2, RatholeAssumption DEF PumpInv
  <2> QED BY <1>0, <2>1, <2>3, <2>4, FwdConf
<1>2. CASE FwdDialFails \/ PumpError
  <2>1. fwd # None
    BY <1>2, IdleFacts DEF FwdDialFails, PumpError, PumpInv
  <2>2. FwdEnd /\ cut' = FALSE
    BY <1>0, <1>2 DEF FwdDialFails, PumpError
  <2> QED BY <1>0, <2>1, <2>2, FwdEndStep
<1>3. CASE FwdDial
  <2>1. /\ pump' = [open |-> Ends, dirty |-> {}, flush |-> None, dialled |-> TRUE]
        /\ UNCHANGED <<fwd, fwd_ch, cut, slotVars>> /\ fwd # None
    BY <1>3 DEF FwdDial, Idle
  <2> QED BY <1>0, <2>1, PumpStep
<1>4. ASSUME NEW e \in Ends, PumpBytes(e) PROVE IInv'
  <2>1. fwd # None /\ UNCHANGED <<fwd, fwd_ch, cut, slotVars>>
    BY <1>4, IdleFacts DEF PumpBytes, PumpInv
  <2>2. e \in pump.open /\ pump' = [pump EXCEPT !.dirty = @ \cup {Other(e)}]
    BY <1>4 DEF PumpBytes
  <2>3. pump' \in [open : SUBSET Ends, dirty : SUBSET Ends,
                   flush : Ends \cup {None}, dialled : BOOLEAN]
    BY <1>0, <2>2, EndsFacts
  <2>4. ASSUME NEW f \in Ends, Other(f) \in pump'.dirty
        PROVE  f \in pump'.open \/ pump'.flush = Other(f)
    <3>1. pump'.open = pump.open /\ pump'.flush = pump.flush
          /\ pump'.dirty = pump.dirty \cup {Other(e)}
      BY <1>0, <2>2
    <3>2. CASE Other(f) \in pump.dirty
      BY <1>0, <3>1, <3>2
    <3>3. CASE Other(f) = Other(e)
      BY <2>2, <3>1, <3>3, EndsFacts
    <3> QED BY <2>4, <3>1, <3>2, <3>3
  <2> QED BY <1>0, <2>1, <2>3, <2>4, PumpStep
<1>5. ASSUME NEW e \in Ends, PumpEof(e) PROVE IInv'
  <2>1. fwd # None /\ UNCHANGED <<fwd, fwd_ch, cut, slotVars>>
    BY <1>5, IdleFacts DEF PumpEof, PumpInv
  <2>2. pump.flush = None /\ pump' = [pump EXCEPT !.open = @ \ {e}, !.flush = Other(e)]
    BY <1>5 DEF PumpEof
  <2>3. pump' \in [open : SUBSET Ends, dirty : SUBSET Ends,
                   flush : Ends \cup {None}, dialled : BOOLEAN]
    BY <1>0, <2>2, EndsFacts
  <2>4. ASSUME NEW f \in Ends, Other(f) \in pump'.dirty
        PROVE  f \in pump'.open \/ pump'.flush = Other(f)
    <3>1. pump'.open = pump.open \ {e} /\ pump'.flush = Other(e) /\ pump'.dirty = pump.dirty
      BY <1>0, <2>2
    <3>2. f \in pump.open
      <4>1. Other(f) # None
        BY EndsFacts
      <4> QED BY <1>0, <2>2, <2>4, <3>1, <4>1
    <3> QED BY <3>1, <3>2
  <2> QED BY <1>0, <2>1, <2>3, <2>4, PumpStep
<1>6. ASSUME NEW e \in Ends, Acked(e) PROVE IInv'
  <2>1. fwd # None /\ UNCHANGED <<fwd, fwd_ch, cut, slotVars>>
    BY <1>6, IdleFacts DEF Acked, PumpInv
  <2>2. pump' = [pump EXCEPT !.dirty = @ \ {e}]
    BY <1>6 DEF Acked
  <2>3. pump' \in [open : SUBSET Ends, dirty : SUBSET Ends,
                   flush : Ends \cup {None}, dialled : BOOLEAN]
    BY <1>0, <2>2
  <2>4. pump'.open = pump.open /\ pump'.flush = pump.flush /\ pump'.dirty \subseteq pump.dirty
    BY <1>0, <2>2
  <2> QED BY <1>0, <2>1, <2>3, <2>4, PumpStep
<1>7. CASE PumpFlushed
  <2>1. fwd # None
    BY <1>7, IdleFacts DEF PumpFlushed, PumpInv
  <2>2. pump.flush \in Ends /\ pump.flush \notin pump.dirty
    BY <1>0, <1>7 DEF PumpFlushed
  <2>3. CASE pump.open = {}
    <3>1. Other(pump.flush) \notin pump.dirty
      <4>1. Other(pump.flush) # pump.flush
        BY <2>2, EndsFacts
      <4> QED BY <1>0, <2>2, <2>3, <4>1
    <3>2. \A e \in Ends : e = pump.flush \/ e = Other(pump.flush)
      BY <2>2 DEF Ends, Other
    <3>3. pump.dirty = {}
      BY <1>0, <2>2, <3>1, <3>2
    <3>4. FwdEnd /\ cut' = FALSE
      BY <1>0, <1>7, <2>3, <3>3 DEF PumpFlushed
    <3> QED BY <1>0, <2>1, <3>4, FwdEndStep
  <2>4. CASE pump.open # {}
    <3>1. pump' = [pump EXCEPT !.flush = None] /\ UNCHANGED <<fwd, fwd_ch, cut, slotVars>>
      BY <1>7, <2>4 DEF PumpFlushed
    <3>2. pump' \in [open : SUBSET Ends, dirty : SUBSET Ends,
                     flush : Ends \cup {None}, dialled : BOOLEAN]
      BY <1>0, <3>1
    <3>3. pump'.open = pump.open /\ pump'.dirty = pump.dirty
      BY <1>0, <3>1
    <3>4. \A e \in Ends : Other(e) \in pump'.dirty => e \in pump'.open
      BY <1>0, <2>2, <3>3
    <3> QED BY <1>0, <2>1, <3>1, <3>2, <3>4, PumpStep
  <2> QED BY <2>3, <2>4
<1> QED BY <1>1, <1>2, <1>3, <1>4, <1>5, <1>6, <1>7 DEF Forwarder

-----------------------------------------------------------------------------
(* Every step, and the theorems.                                           *)

LEMMA InitIInv == Init => IInv
<1> SUFFICES ASSUME Init PROVE IInv
  OBVIOUS
<1> USE DEF Init
<1>1. Queued = {} /\ Held = {} /\ Serving = {}
  BY DEF Queued, Held, Serving
<1>2. Cardinality({}) = 0 /\ Cardinality(Slots) \in Nat
  BY FS_EmptySet, FS_CardinalityType, RatholeAssumption
<1>3. TypeOK
  <2>1. unread \in Seq(Keys) /\ Len(unread) <= CAP /\ fwd_ch \in Seq(Slots)
    BY EmptyIsSeq, RatholeAssumption
  <2>2. data_ch \in 0..Cardinality(Slots) /\ cmds \in 0..MaxCmds
    BY <1>2, RatholeAssumption
  <2>3. want \in BOOLEAN
    OBVIOUS
  <2> QED BY <2>1, <2>2, <2>3, IdleFacts DEF TypeOK
<1>4. OwnerInv
  BY <1>1, <1>2 DEF OwnerInv
<1>5. ConfInv /\ PumpInv
  BY IdleFacts DEF ConfInv, PumpInv
<1> QED BY <1>3, <1>4, <1>5 DEF IInv

LEMMA NextIInv ==
  ASSUME IInv, [Next]_vars
  PROVE  IInv'
<1>1. CASE Manager
  BY <1>1, ManagerStep, ConnectedStep DEF Manager
<1>2. CASE Watch
  BY <1>2, WatchStep
<1>3. CASE Server
  BY <1>3, ManagerStep, ConnectedStep DEF Server
<1>4. CASE Forwarder
  BY <1>4, ForwarderStep
<1>5. CASE Commands
  BY <1>5, CommandsStep
<1>6. CASE UNCHANGED vars
  BY <1>6, FlagStep DEF vars, cfgVars, flagVars, IInv, TypeOK
<1> QED BY <1>1, <1>2, <1>3, <1>4, <1>5, <1>6 DEF Next

(* What manager, forwarder, watcher and server of rathole.rs keep          *)
(* together: the types, one owner per slot, a word ahead of a channel on   *)
(* an old configuration, and a pump that closes only what it has flushed.  *)
THEOREM IInvHolds == Spec => []IInv
<1> QED BY InitIInv, NextIInv, PTL DEF Spec

(* Flags, queues, slots and the pump stay in their ranges; the channel is  *)
(* connected in the two places of the manager that say so.                 *)
THEOREM TypeCorrect == Spec => []TypeOK
<1>1. IInv => TypeOK
  BY DEF IInv
<1> QED BY <1>1, IInvHolds, PTL

(* The slots taken are as many as their owners, counted one by one.        *)
LEMMA OwnersCounted ==
  ASSUME IInv
  PROVE  Cardinality(slots) = Len(fwd_ch) + Cardinality(leaked)
           + Cardinality({x \in {<<1, pool>>, <<2, fwd>>, <<3, filling>>} : x[2] # None})
<1> USE DEF IInv
<1> DEFINE Places == {x \in {<<1, pool>>, <<2, fwd>>, <<3, filling>>} : x[2] # None}
<1>1. IsFiniteSet(Slots)
  BY RatholeAssumption
<1>2. Held \subseteq Slots /\ leaked \subseteq Slots
  BY DEF TypeOK, Held
<1>3. /\ IsFiniteSet(Held) /\ IsFiniteSet(leaked)
      /\ Cardinality(Held) \in Nat /\ Cardinality(leaked) \in Nat
  BY <1>1, <1>2, FS_Subset, FS_CardinalityType
<1>4. IsFiniteSet(Queued) /\ Cardinality(Queued) = Len(fwd_ch) /\ Len(fwd_ch) \in Nat
  <2>1. fwd_ch \in Seq(Slots) /\ \A i, j \in DOMAIN fwd_ch : fwd_ch[i] = fwd_ch[j] => i = j
    BY DEF TypeOK, OwnerInv
  <2>2. IsFiniteSet(Queued) /\ Cardinality(Queued) = Len(fwd_ch)
    BY <2>1, LengthOfQueue DEF Queued
  <2> QED BY <2>1, <2>2
<1>5. Cardinality(Places) = Cardinality(Held)
  <2> DEFINE f == [x \in Places |-> x[2]]
  <2>1. pool = None \/ filling = None
    BY DEF OwnerInv
  <2>2. \A x \in Places : f[x] \in Held
    BY DEF Held
  <2>3. \A x, y \in Places : f[x] = f[y] => x = y
    BY <2>1 DEF OwnerInv
  <2>4. \A h \in Held : \E x \in Places : f[x] = h
    <3> SUFFICES ASSUME NEW h \in Held PROVE \E x \in Places : x[2] = h
      OBVIOUS
    <3>0. h # None
      BY DEF Held
    <3>1. CASE h = pool
      <4>1. <<1, pool>> \in Places /\ <<1, pool>>[2] = h
        BY <3>0, <3>1
      <4> QED BY <4>1
    <3>2. CASE h = fwd
      <4>1. <<2, fwd>> \in Places /\ <<2, fwd>>[2] = h
        BY <3>0, <3>2
      <4> QED BY <4>1
    <3>3. CASE h = filling
      <4>1. <<3, filling>> \in Places /\ <<3, filling>>[2] = h
        BY <3>0, <3>3
      <4> QED BY <4>1
    <3> QED BY <3>1, <3>2, <3>3 DEF Held
  <2>5. f \in Bijection(Places, Held)
    BY <2>2, <2>3, <2>4 DEF Bijection, Injection, Surjection, IsInjective
  <2>6. IsFiniteSet(Places)
    <3>1. IsFiniteSet({<<1, pool>>, <<2, fwd>>, <<3, filling>>})
      <4>1. IsFiniteSet({<<1, pool>>})
        BY FS_Singleton
      <4>2. IsFiniteSet({<<1, pool>>} \cup {<<2, fwd>>})
        BY <4>1, FS_AddElement
      <4>3. IsFiniteSet(({<<1, pool>>} \cup {<<2, fwd>>}) \cup {<<3, filling>>})
        BY <4>2, FS_AddElement
      <4>4. ({<<1, pool>>} \cup {<<2, fwd>>}) \cup {<<3, filling>>}
              = {<<1, pool>>, <<2, fwd>>, <<3, filling>>}
        OBVIOUS
      <4> QED BY <4>3, <4>4
    <3>2. Places \in SUBSET {<<1, pool>>, <<2, fwd>>, <<3, filling>>}
      OBVIOUS
    <3> HIDE DEF Places
    <3> QED BY <3>1, <3>2, FS_Subset
  <2>7. ExistsBijection(Places, Held)
    BY <2>5 DEF ExistsBijection
  <2> HIDE DEF Places
  <2> QED BY <2>6, <2>7, FS_Bijection
<1>6. /\ IsFiniteSet(Held \cup Queued)
      /\ Cardinality(Held \cup Queued) = Cardinality(Held) + Cardinality(Queued)
  <2>1. Cardinality(Held \cap Queued) = 0
    BY FS_EmptySet DEF OwnerInv
  <2>2. /\ IsFiniteSet(Held \cup Queued)
        /\ Cardinality(Held \cup Queued)
             = Cardinality(Held) + Cardinality(Queued) - Cardinality(Held \cap Queued)
    BY <1>3, <1>4, FS_Union
  <2> QED BY <1>3, <1>4, <2>1, <2>2
<1>7. Cardinality((Held \cup Queued) \cup leaked)
        = Cardinality(Held \cup Queued) + Cardinality(leaked)
  <2>1. (Held \cup Queued) \cap leaked = {}
    BY DEF OwnerInv
  <2>2. Cardinality((Held \cup Queued) \cap leaked) = 0
    BY <2>1, FS_EmptySet
  <2>3. Cardinality(Held \cup Queued) \in Nat
    BY <1>6, FS_CardinalityType
  <2>4. Cardinality((Held \cup Queued) \cup leaked)
          = Cardinality(Held \cup Queued) + Cardinality(leaked)
              - Cardinality((Held \cup Queued) \cap leaked)
    BY <1>3, <1>6, FS_Union
  <2> QED BY <1>3, <2>2, <2>3, <2>4
<1>8. slots = (Held \cup Queued) \cup leaked
  BY DEF OwnerInv
<1> HIDE DEF Places
<1>9. Cardinality(slots) = Len(fwd_ch) + Cardinality(leaked) + Cardinality(Places)
  BY <1>3, <1>4, <1>5, <1>6, <1>7, <1>8
<1> QED BY <1>9 DEF Places

(* rathole.rs SLOTS, FWD_CH: a slot that is taken has one owner unless it  *)
(* is lost for good, and data_channels counts the connected ones.          *)
THEOREM SlotOwnedHolds == Spec => []SlotOwned
<1>1. IInv => SlotOwned
  <2> SUFFICES ASSUME IInv PROVE SlotOwned
    OBVIOUS
  <2>1. slots = Held \cup Queued \cup leaked
    BY DEF IInv, OwnerInv
  <2>2. Serving = (Held \cup Queued) \ {filling}
    <3>1. Held \cap Queued = {} /\ (fwd # None => fwd \notin {pool, filling})
          /\ (pool = None \/ filling = None)
      BY DEF IInv, OwnerInv
    <3>2. filling \notin Queued
      <4>1. Queued \subseteq Slots
        BY DEF IInv, TypeOK, Queued
      <4> QED BY <3>1, <4>1, RatholeAssumption DEF Held
    <3> QED BY <3>1, <3>2 DEF Serving, Held
  <2>3. data_ch = Cardinality((Held \cup Queued) \ {filling})
    BY <2>2 DEF IInv, OwnerInv
  <2> QED BY <2>1, <2>3, OwnersCounted DEF SlotOwned
<1> QED BY <1>1, IInvHolds, PTL

(* rathole.rs "Config changed while running: tear down and reconnect": a   *)
(* channel on an old configuration is about to be torn down.               *)
THEOREM TunnelConfHolds == Spec => []TunnelConf
<1>1. IInv => TunnelConf
  BY DEF IInv, TypeOK, ConfInv, TunnelConf
<1> QED BY <1>1, IInvHolds, PTL

(* rathole.rs "proper half-close": a session both ends have finished loses *)
(* nothing.                                                                *)
THEOREM NothingCutHolds == Spec => []NothingCut
<1>1. IInv => NothingCut
  BY DEF IInv, PumpInv, NothingCut
<1> QED BY <1>1, IInvHolds, PTL
=============================================================================
