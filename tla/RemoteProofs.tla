---------------------------- MODULE RemoteProofs ----------------------------
(***************************************************************************)
(* Machine-checked invariants of Remote, for any set of configurations and *)
(* requests, any capacity and any number of commands and faults.           *)
(***************************************************************************)
EXTENDS Remote, SequenceTheorems, TLAPS

-----------------------------------------------------------------------------
(* The parts of TypeOK, by who owns them.                                  *)
States == {"online", "offline"}
Msgs   == States \cup Reqs

CfgOK ==
  /\ conf \in Confs \cup {None} /\ enable \in BOOLEAN /\ untold \in BOOLEAN
  /\ cmds \in 0..MaxCmds /\ unread \in Seq(Keys) /\ Len(unread) <= CAP

DevOK ==
  /\ snap \in Confs \cup {None}
  /\ running \in BOOLEAN /\ connected \in BOOLEAN /\ kick \in BOOLEAN /\ wifi \in BOOLEAN
  /\ phase \in {"idle", "pause", "connecting", "session"}
  /\ connected <=> phase = "session"

BrkOK ==
  /\ up \in Seq(Packets) /\ down \in Seq(Reqs)
  /\ sess \in {"none", "live", "zombie"} /\ retained \in {"none", "online", "offline"}
  /\ devsub \in BOOLEAN /\ key \in BOOLEAN

BridgeOK ==
  /\ blink \in {"down", "connack", "up"} /\ subscribed \in BOOLEAN
  /\ mids \subseteq SubTopics /\ subs \subseteq SubTopics
  /\ inbox \in Seq(Msgs) /\ Len(inbox) <= BOX
  /\ seen \in {"none", "online", "offline"}
  /\ rpcs \in [Reqs -> {"new", "pending", "set", "ok", "failed"}]

FaultsOK == faults \in 0..MaxFaults

-----------------------------------------------------------------------------
(* The inductive invariant.                                                *)

(* A session, or one that is being set up, on an old configuration has the *)
(* notification before it, unless CHANGED was full when the key was set.   *)
ConfInv ==
  phase \in {"connecting", "session"} /\ snap # conf =>
    untold \/ \E i \in 1..Len(unread) : unread[i] = "mqtt"

(* The node's packets that end a session: the last two tell so.            *)
Ending(u) ==
  /\ u # <<>> /\ u[Len(u)] = "disc"
  /\ \A i \in 1..(Len(u) - 1) : u[i] # "disc"
  /\ Len(u) > 1 => u[Len(u) - 1] = "offline"

(* What the broker retains, and what is still to come.                     *)
SessInv ==
  /\ sess # "live" => up = <<>> /\ ~connected
  /\ sess = "none" => retained # "online"
  /\ connected =>
       /\ \A i \in 1..Len(up) : up[i] \notin {"offline", "disc"}
       /\ retained = "online" \/ \E i \in 1..Len(up) : up[i] = "online"
       /\ devsub \/ \E i \in 1..Len(up) : up[i] = "sub"
  /\ sess = "live" /\ ~connected => Ending(up) /\ (Len(up) = 1 => retained # "online")

(* No state from position i of box b on.                                   *)
NoState(b, i) == \A j \in i..Len(b) : b[j] \in Reqs

(* The last state on its way in b is r; or s, already seen, is.            *)
Settles(b, s, r) ==
  \/ s = r /\ NoState(b, 1)
  \/ \E i \in 1..Len(b) : b[i] = r /\ NoState(b, i + 1)

(* The bridge's subscriptions, and the last state on its way or seen.      *)
ViewInv ==
  /\ blink # "up" => subs = {}
  /\ blink = "up" => SubTopics \ mids \subseteq subs
  /\ blink = "up" /\ subscribed => mids = {}
  /\ retained = "none" => seen = "none" /\ NoState(inbox, 1)
  /\ blink = "up" /\ "state" \in subs /\ retained # "none" => Settles(inbox, seen, retained)

IInv == TypeOK /\ ConfInv /\ SessInv /\ ViewInv

LEMMA TypeParts ==
  ASSUME TypeOK
  PROVE  CfgOK /\ DevOK /\ BrkOK /\ BridgeOK /\ FaultsOK
BY DEF TypeOK, CfgOK, DevOK, BrkOK, BridgeOK, FaultsOK, Msgs, States

LEMMA TypePartsNext ==
  ASSUME CfgOK', DevOK', BrkOK', BridgeOK', FaultsOK'
  PROVE  TypeOK'
BY DEF TypeOK, CfgOK, DevOK, BrkOK, BridgeOK, FaultsOK, Msgs, States

-----------------------------------------------------------------------------
(* Sequences.                                                              *)
LEMMA Shorter ==
  ASSUME NEW S, NEW u \in Seq(S), u # <<>>
  PROVE  /\ Tail(u) \in Seq(S) /\ Len(Tail(u)) = Len(u) - 1 /\ Len(u) \in Nat \ {0}
         /\ \A i \in 1..(Len(u) - 1) : Tail(u)[i] = u[i + 1]
         /\ Head(u) = u[1] /\ Head(u) \in S
<1>1. Len(u) \in Nat \ {0}
  BY EmptySeq
<1> QED BY <1>1, HeadTailProperties

LEMMA Longer ==
  ASSUME NEW S, NEW u \in Seq(S), NEW x \in S
  PROVE  /\ Append(u, x) \in Seq(S) /\ Len(Append(u, x)) = Len(u) + 1 /\ Len(u) \in Nat
         /\ \A i \in 1..Len(u) : Append(u, x)[i] = u[i]
         /\ Append(u, x)[Len(u) + 1] = x
BY AppendProperties

LEMMA EndingTail ==
  ASSUME NEW u \in Seq(Packets), Ending(u), Head(u) # "disc"
  PROVE  Ending(Tail(u)) /\ (Len(Tail(u)) = 1 => Head(u) = "offline")
<1>1. /\ u # <<>> /\ u[Len(u)] = "disc"
      /\ \A i \in 1..(Len(u) - 1) : u[i] # "disc"
      /\ Len(u) > 1 => u[Len(u) - 1] = "offline"
  BY DEF Ending
<1> DEFINE t == Tail(u)
<1>2. /\ t \in Seq(Packets) /\ Len(t) = Len(u) - 1 /\ Len(u) \in Nat \ {0}
      /\ \A i \in 1..(Len(u) - 1) : t[i] = u[i + 1]
      /\ Head(u) = u[1]
  BY <1>1, Shorter
<1> HIDE DEF t
<1>3. Len(u) > 1
  BY <1>1, <1>2
<1>4. t # <<>>
  BY <1>2, <1>3, EmptySeq
<1>5. t[Len(t)] = "disc"
  BY <1>1, <1>2, <1>3
<1>6. \A i \in 1..(Len(t) - 1) : t[i] # "disc"
  BY <1>1, <1>2
<1>7. Len(t) > 1 => t[Len(t) - 1] = "offline"
  BY <1>1, <1>2
<1>8. ASSUME Len(t) = 1 PROVE Head(u) = "offline"
  <2>1. Len(u) - 1 = 1
    BY <1>2, <1>8
  <2>2. u[Len(u) - 1] = u[1]
    BY <2>1
  <2> QED BY <1>1, <1>2, <1>3, <2>2
<1> QED BY <1>4, <1>5, <1>6, <1>7, <1>8 DEF Ending, t

LEMMA EndingConcat ==
  ASSUME NEW u \in Seq(Packets), NEW w \in Seq(Packets),
         \A i \in 1..Len(u) : u[i] # "disc",
         Len(w) > 1, w[Len(w)] = "disc", w[Len(w) - 1] = "offline",
         \A i \in 1..(Len(w) - 1) : w[i] # "disc"
  PROVE  u \o w \in Seq(Packets) /\ Ending(u \o w) /\ Len(u \o w) > 1
<1> DEFINE e == u \o w
<1>1. /\ e \in Seq(Packets) /\ Len(e) = Len(u) + Len(w) /\ Len(u) \in Nat /\ Len(w) \in Nat
      /\ \A i \in 1..Len(u) + Len(w) : e[i] = IF i <= Len(u) THEN u[i] ELSE w[i - Len(u)]
  BY ConcatProperties
<1> HIDE DEF e
<1>2. e # <<>>
  BY <1>1, EmptySeq
<1>3. e[Len(e)] = "disc" /\ e[Len(e) - 1] = "offline"
  <2>1. e[Len(u) + Len(w)] = w[Len(w)]
    BY <1>1
  <2>2. e[Len(u) + Len(w) - 1] = w[Len(w) - 1]
    <3> DEFINE i == Len(u) + Len(w) - 1
    <3>1. i \in 1..Len(u) + Len(w) /\ ~(i <= Len(u)) /\ i - Len(u) = Len(w) - 1
      BY <1>1
    <3> HIDE DEF i
    <3>2. e[i] = w[i - Len(u)]
      BY <1>1, <3>1
    <3> QED BY <3>1, <3>2 DEF i
  <2> QED BY <1>1, <2>1, <2>2
<1>4. ASSUME NEW i \in 1..(Len(e) - 1) PROVE e[i] # "disc"
  <2>1. CASE i <= Len(u)
    BY <1>1, <2>1
  <2>2. CASE ~(i <= Len(u))
    <3>1. e[i] = w[i - Len(u)] /\ i - Len(u) \in 1..(Len(w) - 1)
      BY <1>1, <2>2
    <3> QED BY <3>1
  <2> QED BY <2>1, <2>2
<1> QED BY <1>1, <1>2, <1>3, <1>4 DEF Ending, e

(* The bridge's inbox: a state is sent, an answer is sent, the oldest      *)
(* message is read.                                                        *)
LEMMA StateSent ==
  ASSUME NEW b \in Seq(Msgs), NEW s, NEW r \in Msgs
  PROVE  Settles(Append(b, r), s, r)
<1> DEFINE c == Append(b, r)
<1>1. Len(c) = Len(b) + 1 /\ Len(b) \in Nat /\ c[Len(b) + 1] = r
  BY Longer
<1> HIDE DEF c
<1>2. NoState(c, Len(b) + 1 + 1)
  BY <1>1 DEF NoState
<1>3. Len(b) + 1 \in 1..Len(c)
  BY <1>1
<1> QED BY <1>1, <1>2, <1>3 DEF Settles, c

LEMMA AnswerSent ==
  ASSUME NEW b \in Seq(Msgs), NEW s, NEW r, NEW m \in Reqs
  PROVE  /\ NoState(b, 1) => NoState(Append(b, m), 1)
         /\ Settles(b, s, r) => Settles(Append(b, m), s, r)
<1> DEFINE c == Append(b, m)
<1>1. /\ Len(c) = Len(b) + 1 /\ Len(b) \in Nat /\ c[Len(b) + 1] = m
      /\ \A i \in 1..Len(b) : c[i] = b[i]
  BY Longer DEF Msgs
<1> HIDE DEF c
<1>2. ASSUME NEW i \in 1..Len(c), NoState(b, i) PROVE NoState(c, i)
  BY <1>1, <1>2 DEF NoState
<1>3. 1 \in 1..Len(c) /\ \A i \in 1..Len(b) : i + 1 \in 1..Len(c)
  BY <1>1
<1>4. NoState(b, 1) => NoState(c, 1)
  BY <1>2, <1>3
<1>5. ASSUME NEW i \in 1..Len(b), b[i] = r, NoState(b, i + 1)
      PROVE  i \in 1..Len(c) /\ c[i] = r /\ NoState(c, i + 1)
  BY <1>1, <1>2, <1>3, <1>5
<1> QED BY <1>4, <1>5 DEF Settles, c

LEMMA MessageRead ==
  ASSUME NEW b \in Seq(Msgs), b # <<>>, NEW s, NEW r \in States,
         NEW t, t = Tail(b), NEW v, Head(b) \in Reqs => v = s, Head(b) \notin Reqs => v = Head(b)
  PROVE  /\ NoState(b, 1) => NoState(t, 1) /\ Head(b) \in Reqs
         /\ Settles(b, s, r) => Settles(t, v, r)
<1>1. /\ Len(t) = Len(b) - 1 /\ Len(b) \in Nat \ {0}
      /\ \A i \in 1..(Len(b) - 1) : t[i] = b[i + 1]
      /\ Head(b) = b[1]
  BY Shorter
<1>2. ASSUME NEW i \in 1..Len(b), NoState(b, i + 1) PROVE NoState(t, i)
  BY <1>1, <1>2 DEF NoState
<1>3. NoState(b, 1) => NoState(b, 1 + 1) /\ b[1] \in Reqs
  BY <1>1 DEF NoState
<1>4. NoState(b, 1) => NoState(t, 1) /\ Head(b) \in Reqs
  BY <1>1, <1>2, <1>3
<1>6. ASSUME NEW i \in 1..Len(b), b[i] = r, NoState(b, i + 1) PROVE Settles(t, v, r)
  <2>1. CASE i = 1
    <3>1. r \notin Reqs
      BY RemoteAssumption DEF States
    <3>2. v = r /\ NoState(t, 1)
      BY <1>1, <1>2, <1>6, <2>1, <3>1
    <3> QED BY <3>2 DEF Settles
  <2>2. CASE i # 1
    <3>1. i - 1 \in 1..Len(t) /\ t[i - 1] = r
      BY <1>1, <1>6, <2>2
    <3>2. NoState(t, (i - 1) + 1)
      BY <1>1, <1>2, <1>6, <2>2
    <3> QED BY <3>1, <3>2 DEF Settles
  <2> QED BY <2>1, <2>2
<1>7. Settles(b, s, r) =>
        (s = r /\ NoState(b, 1)) \/ \E i \in 1..Len(b) : b[i] = r /\ NoState(b, i + 1)
  BY DEF Settles
<1>8. ASSUME s = r, NoState(b, 1) PROVE Settles(t, v, r)
  <2>1. v = r /\ NoState(t, 1)
    BY <1>4, <1>8
  <2> QED BY <2>1 DEF Settles
<1>9. ASSUME Settles(b, s, r) PROVE Settles(t, v, r)
  <2>1. CASE \E i \in 1..Len(b) : b[i] = r /\ NoState(b, i + 1)
    <3>1. PICK i \in 1..Len(b) : b[i] = r /\ NoState(b, i + 1)
      BY <2>1
    <3> QED BY <1>6, <3>1
  <2> QED BY <1>7, <1>8, <1>9, <2>1
<1> QED BY <1>4, <1>9

-----------------------------------------------------------------------------
(* What a step leaves alone.                                               *)
LEMMA ConfKept ==
  ASSUME IInv, UNCHANGED cfgVars,
         phase' \in {"connecting", "session"} => phase \in {"connecting", "session"} /\ snap' = snap
  PROVE  CfgOK' /\ ConfInv'
<1>1. UNCHANGED <<conf, enable, unread, untold, cmds>> /\ CfgOK
  BY TypeParts DEF cfgVars, IInv
<1> QED BY <1>1 DEF IInv, ConfInv, CfgOK

LEMMA DevKept ==
  ASSUME IInv, UNCHANGED devVars
  PROVE  DevOK' /\ UNCHANGED <<running, connected, kick, phase, snap, wifi>>
<1>1. UNCHANGED <<running, connected, kick, phase, snap, wifi>> /\ DevOK
  BY TypeParts DEF devVars, IInv
<1> QED BY <1>1 DEF DevOK

LEMMA BrkKept ==
  ASSUME IInv, UNCHANGED brkVars
  PROVE  BrkOK' /\ UNCHANGED <<up, down, sess, devsub, retained, key>>
<1>1. UNCHANGED <<up, down, sess, devsub, retained, key>> /\ BrkOK
  BY TypeParts DEF brkVars, IInv
<1> QED BY <1>1 DEF BrkOK

LEMMA SessKept ==
  ASSUME IInv, UNCHANGED <<connected, up, sess, retained, devsub>>
  PROVE  SessInv'
BY DEF IInv, SessInv

LEMMA ViewKept ==
  ASSUME IInv, UNCHANGED bridgeVars, retained' = retained
  PROVE  BridgeOK' /\ ViewInv'
<1>1. UNCHANGED <<blink, subscribed, mids, subs, inbox, seen, rpcs>> /\ BridgeOK
  BY TypeParts DEF bridgeVars, IInv
<1> QED BY <1>1 DEF BridgeOK, IInv, ViewInv

LEMMA FaultCounted ==
  ASSUME IInv, UNCHANGED faults \/ Fault
  PROVE  FaultsOK'
BY TypeParts, RemoteAssumption DEF IInv, FaultsOK, Fault

(* cfg::set tells the client, or CHANGED was full.                         *)
LEMMA CfgSet ==
  ASSUME IInv, mqtt_exec,
         phase' \in {"connecting", "session"} => phase \in {"connecting", "session"} /\ snap' = snap
  PROVE  CfgOK' /\ ConfInv'
<1>1. CfgOK
  BY TypeParts DEF IInv
<1>2. CASE UNCHANGED cfgVars
  BY <1>2, ConfKept
<1>3. ASSUME NEW k \in Keys, Told(k), Command, enable' \in BOOLEAN, conf' \in Confs \cup {None},
             conf' # conf => k = "mqtt"
      PROVE  CfgOK' /\ ConfInv'
  <2>1. cmds' \in 0..MaxCmds
    BY <1>1, <1>3, RemoteAssumption DEF Command, CfgOK
  <2>2. CASE Len(unread) < CAP /\ unread' = Append(unread, k) /\ UNCHANGED untold
    <3>1. /\ unread' \in Seq(Keys) /\ Len(unread') = Len(unread) + 1 /\ Len(unread) \in Nat
          /\ \A i \in 1..Len(unread) : unread'[i] = unread[i]
          /\ unread'[Len(unread) + 1] = k
      BY <1>1, <2>2, Longer DEF CfgOK
    <3>2. CfgOK'
      BY <1>1, <1>3, <2>1, <2>2, <3>1, RemoteAssumption DEF CfgOK
    <3>3. CASE conf' # conf
      <4>1. Len(unread) + 1 \in 1..Len(unread') /\ unread'[Len(unread) + 1] = "mqtt"
        BY <1>3, <3>1, <3>3
      <4> QED BY <3>2, <4>1 DEF ConfInv
    <3>4. CASE conf' = conf
      <4>1. ASSUME NEW i \in 1..Len(unread), unread[i] = "mqtt"
            PROVE  i \in 1..Len(unread') /\ unread'[i] = "mqtt"
        BY <3>1, <4>1
      <4> QED BY <2>2, <3>2, <3>4, <4>1 DEF IInv, ConfInv
    <3> QED BY <3>3, <3>4
  <2>3. CASE UNCHANGED unread /\ untold' = (untold \/ k = "mqtt")
    <3>1. untold' \in BOOLEAN
      BY <2>3
    <3>2. CfgOK'
      BY <1>1, <1>3, <2>1, <2>3, <3>1 DEF CfgOK
    <3>3. CASE conf' # conf
      BY <1>3, <2>3, <3>2, <3>3 DEF ConfInv
    <3>4. CASE conf' = conf
      BY <2>3, <3>2, <3>4 DEF IInv, ConfInv
    <3> QED BY <3>3, <3>4
  <2> QED BY <1>3, <2>2, <2>3 DEF Told
<1>4. CASE SetConf
  <2>1. Told("mqtt") /\ Command /\ enable' = enable /\ conf' \in Confs \cup {None}
    BY <1>4 DEF SetConf
  <2> QED BY <1>1, <1>3, <2>1 DEF CfgOK, Keys
<1>5. CASE SetEnable
  <2>1. Told("mqtt.enable") /\ Command /\ enable' \in BOOLEAN /\ conf' = conf
    BY <1>5 DEF SetEnable
  <2> QED BY <1>1, <1>3, <2>1 DEF CfgOK, Keys
<1>6. CASE SetOther
  <2>1. Told("other") /\ Command /\ enable' = enable /\ conf' = conf
    BY <1>6 DEF SetOther
  <2> QED BY <1>1, <1>3, <2>1 DEF CfgOK, Keys
<1> QED BY <1>2, <1>4, <1>5, <1>6 DEF mqtt_exec

LEMMA CommandKept ==
  ASSUME IInv, UNCHANGED <<conf, enable, unread, untold>>, Command,
         phase' \in {"connecting", "session"} => phase \in {"connecting", "session"} /\ snap' = snap
  PROVE  CfgOK' /\ ConfInv'
<1>1. CfgOK
  BY TypeParts DEF IInv
<1>2. cmds' \in 0..MaxCmds
  BY <1>1, RemoteAssumption DEF Command, CfgOK
<1>3. CfgOK'
  BY <1>1, <1>2 DEF CfgOK
<1> QED BY <1>3 DEF IInv, ConfInv

(* The node's state is published, and forwarded to a subscribed bridge.    *)
LEMMA RetainView ==
  ASSUME IInv, NEW st \in States, Retain(st),
         UNCHANGED <<blink, subscribed, mids, subs, seen, rpcs>>
  PROVE  BridgeOK' /\ ViewInv'
<1>1. BridgeOK /\ ViewInv
  BY TypeParts DEF IInv
<1>2. st \in Msgs /\ retained' = st /\ st # "none"
  BY DEF Msgs, States, Retain
<1>3. CASE "state" \in subs
  <2>1. Len(inbox) < BOX /\ inbox' = Append(inbox, st)
    BY <1>3 DEF Retain, Forward
  <2>2. inbox' \in Seq(Msgs) /\ Len(inbox') = Len(inbox) + 1 /\ Len(inbox) \in Nat
    BY <1>1, <1>2, <2>1, Longer DEF BridgeOK
  <2>3. Len(inbox') <= BOX
    BY <2>1, <2>2, RemoteAssumption
  <2>4. Settles(inbox', seen, st)
    BY <1>1, <1>2, <2>1, StateSent DEF BridgeOK
  <2>5. BridgeOK'
    BY <1>1, <2>2, <2>3 DEF BridgeOK
  <2> QED BY <1>1, <1>2, <2>4, <2>5 DEF ViewInv
<1>4. CASE "state" \notin subs
  <2>1. UNCHANGED inbox
    BY <1>4 DEF Retain, Forward
  <2>2. BridgeOK'
    BY <1>1, <2>1 DEF BridgeOK
  <2> QED BY <1>1, <1>2, <1>4, <2>1, <2>2 DEF ViewInv
<1> QED BY <1>3, <1>4

(* An answer is published.                                                 *)
LEMMA AnswerView ==
  ASSUME IInv, NEW m \in Reqs, Forward("resp", m),
         UNCHANGED <<blink, subscribed, mids, subs, seen, rpcs, retained>>
  PROVE  BridgeOK' /\ ViewInv'
<1>1. BridgeOK /\ ViewInv
  BY TypeParts DEF IInv
<1>2. CASE inbox' = inbox
  BY <1>1, <1>2 DEF BridgeOK, ViewInv
<1>3. CASE Len(inbox) < BOX /\ inbox' = Append(inbox, m)
  <2>1. m \in Msgs /\ inbox \in Seq(Msgs)
    BY <1>1 DEF Msgs, BridgeOK
  <2>2. inbox' \in Seq(Msgs) /\ Len(inbox') = Len(inbox) + 1 /\ Len(inbox) \in Nat
    BY <1>3, <2>1, Longer
  <2>3. Len(inbox') <= BOX
    BY <1>3, <2>2, RemoteAssumption
  <2>4. BridgeOK'
    BY <1>1, <2>2, <2>3 DEF BridgeOK
  <2>5. /\ NoState(inbox, 1) => NoState(inbox', 1)
        /\ Settles(inbox, seen, retained) => Settles(inbox', seen, retained)
    BY <1>3, <2>1, AnswerSent
  <2> QED BY <1>1, <2>4, <2>5 DEF ViewInv
<1> QED BY <1>2, <1>3 DEF Forward

-----------------------------------------------------------------------------
(* Commands, and the broker's steps.                                       *)
LEMMA Commands ==
  ASSUME IInv, CmdConfig \/ Start \/ Stop \/ ManageExec
  PROVE  IInv'
<1>1. /\ CfgOK /\ DevOK /\ BrkOK /\ BridgeOK /\ FaultsOK
      /\ ConfInv /\ SessInv /\ ViewInv
  BY TypeParts DEF IInv
<1>2. UNCHANGED faults /\ UNCHANGED bridgeVars
  BY DEF CmdConfig, Start, Stop, ManageExec
<1>3. FaultsOK'
  BY <1>1, <1>2 DEF FaultsOK
<1>4. CASE CmdConfig
  <2>1. UNCHANGED <<devVars, brkVars>> /\ mqtt_exec
    BY <1>4 DEF CmdConfig, mqtt_exec
  <2>2. DevOK' /\ UNCHANGED <<running, connected, kick, phase, snap, wifi>>
    BY <2>1, DevKept
  <2>3. BrkOK' /\ UNCHANGED <<up, down, sess, devsub, retained, key>>
    BY <2>1, BrkKept
  <2>4. CfgOK' /\ ConfInv'
    BY <2>1, <2>2, CfgSet
  <2>5. SessInv'
    BY <2>2, <2>3, SessKept
  <2>6. BridgeOK' /\ ViewInv'
    BY <1>2, <2>3, ViewKept
  <2> QED BY <1>3, <2>2, <2>3, <2>4, <2>5, <2>6, TypePartsNext DEF IInv
<1>5. CASE Start \/ Stop
  <2>1. /\ UNCHANGED <<connected, phase, snap, wifi, conf, enable, unread, untold>>
        /\ UNCHANGED brkVars /\ Command /\ running' \in BOOLEAN /\ kick' \in BOOLEAN
    BY <1>5 DEF Start, Stop
  <2>2. DevOK'
    BY <1>1, <2>1 DEF DevOK
  <2>3. BrkOK' /\ UNCHANGED <<up, down, sess, devsub, retained, key>>
    BY <2>1, BrkKept
  <2>4. CfgOK' /\ ConfInv'
    BY <2>1, CommandKept
  <2>5. SessInv'
    BY <2>1, <2>3, SessKept
  <2>6. BridgeOK' /\ ViewInv'
    BY <1>2, <2>3, ViewKept
  <2> QED BY <1>3, <2>2, <2>3, <2>4, <2>5, <2>6, TypePartsNext DEF IInv
<1>6. CASE ManageExec
  <2>1. /\ UNCHANGED <<up, down, sess, devsub, retained, conf, enable, unread, untold>>
        /\ UNCHANGED devVars /\ Command /\ key' = ~key
    BY <1>6 DEF ManageExec
  <2>2. DevOK' /\ UNCHANGED <<running, connected, kick, phase, snap, wifi>>
    BY <2>1, DevKept
  <2>3. key' \in BOOLEAN
    BY <2>1
  <2>4. BrkOK'
    BY <1>1, <2>1, <2>3 DEF BrkOK
  <2>5. CfgOK' /\ ConfInv'
    BY <2>1, <2>2, CommandKept
  <2>6. SessInv'
    BY <2>1, <2>2, SessKept
  <2>7. BridgeOK' /\ ViewInv'
    BY <1>2, <2>1, ViewKept
  <2> QED BY <1>3, <2>2, <2>4, <2>5, <2>6, <2>7, TypePartsNext DEF IInv
<1> QED BY <1>4, <1>5, <1>6

LEMMA TakesSess ==
  ASSUME IInv, BrokerTakes
  PROVE  SessInv'
<1>1. SessInv /\ connected' = connected /\ up # <<>> /\ up' = Tail(up) /\ up \in Seq(Packets)
  BY TypeParts DEF IInv, BrokerTakes, devVars, BrkOK
<1>2. sess = "live"
  BY <1>1 DEF SessInv
<1>3. /\ Len(up') = Len(up) - 1 /\ Len(up) \in Nat \ {0}
      /\ \A i \in 1..(Len(up) - 1) : up'[i] = up[i + 1]
      /\ Head(up) = up[1] /\ up' \in Seq(Packets)
  BY <1>1, Shorter
<1>4. \/ Head(up) = "sub" /\ devsub' = TRUE /\ retained' = retained /\ sess' = sess
      \/ Head(up) \in States /\ retained' = Head(up) /\ devsub' = devsub /\ sess' = sess
      \/ Head(up) = "disc" /\ sess' = "none" /\ devsub' = FALSE /\ retained' = retained
      \/ Head(up) \in Reqs /\ retained' = retained /\ devsub' = devsub /\ sess' = sess
  BY DEF BrokerTakes, Retain, States
<1>5. CASE connected
  <2>1. /\ \A i \in 1..Len(up) : up[i] \notin {"offline", "disc"}
        /\ retained = "online" \/ \E i \in 1..Len(up) : up[i] = "online"
        /\ devsub \/ \E i \in 1..Len(up) : up[i] = "sub"
    BY <1>1, <1>5 DEF SessInv
  <2>2. Head(up) \notin {"offline", "disc"}
    BY <1>3, <2>1
  <2>3. \A i \in 1..Len(up') : up'[i] \notin {"offline", "disc"}
    BY <1>3, <2>1
  <2>4. ASSUME NEW x, NEW i \in 1..Len(up), up[i] = x, Head(up) # x
        PROVE  \E j \in 1..Len(up') : up'[j] = x
    <3>1. i - 1 \in 1..(Len(up) - 1) /\ (i - 1) + 1 = i
      BY <1>3, <2>4
    <3> QED BY <1>3, <2>4, <3>1
  <2>5. sess' = "live"
    BY <1>2, <1>4, <2>2
  <2>6. Head(up) = "online" => retained' = "online"
    BY <1>4, RemoteAssumption
  <2>7. retained = "online" => retained' = "online"
    BY <1>4, <2>2 DEF States
  <2>8. Head(up) = "sub" => devsub'
    BY <1>4, RemoteAssumption DEF States
  <2>9. devsub => devsub'
    BY <1>4, <2>2
  <2>10. retained' = "online" \/ \E i \in 1..Len(up') : up'[i] = "online"
    BY <2>1, <2>4, <2>6, <2>7
  <2>11. devsub' \/ \E i \in 1..Len(up') : up'[i] = "sub"
    BY <2>1, <2>4, <2>8, <2>9
  <2> QED BY <1>1, <1>5, <2>3, <2>5, <2>10, <2>11 DEF SessInv
<1>6. CASE ~connected
  <2>1. Ending(up) /\ (Len(up) = 1 => retained # "online")
    BY <1>1, <1>2, <1>6 DEF SessInv
  <2>2. CASE Head(up) = "disc"
    <3>1. Len(up) = 1
      BY <1>3, <2>1, <2>2 DEF Ending
    <3>2. up' = <<>>
      BY <1>3, <3>1, EmptySeq
    <3>3. sess' = "none" /\ retained' = retained
      BY <1>4, <2>2, RemoteAssumption DEF States
    <3> QED BY <1>1, <1>6, <2>1, <3>1, <3>2, <3>3 DEF SessInv
  <2>3. CASE Head(up) # "disc"
    <3>1. Ending(up') /\ (Len(up') = 1 => Head(up) = "offline")
      BY <1>1, <2>1, <2>3, EndingTail
    <3>2. sess' = "live"
      BY <1>2, <1>4, <2>3
    <3>3. Head(up) = "offline" => retained' # "online"
      BY <1>4, RemoteAssumption
    <3> QED BY <1>1, <1>6, <3>1, <3>2, <3>3 DEF SessInv
  <2> QED BY <2>2, <2>3
<1> QED BY <1>5, <1>6

LEMMA Takes ==
  ASSUME IInv, BrokerTakes
  PROVE  IInv'
<1>1. CfgOK /\ DevOK /\ BrkOK /\ BridgeOK /\ FaultsOK
  BY TypeParts DEF IInv
<1>2. /\ UNCHANGED <<down, key, faults, cfgVars, devVars>>
      /\ UNCHANGED <<blink, subscribed, mids, subs, seen, rpcs>>
      /\ up # <<>> /\ up' = Tail(up)
  BY DEF BrokerTakes
<1>3. DevOK' /\ UNCHANGED <<running, connected, kick, phase, snap, wifi>>
  BY <1>2, DevKept
<1>4. CfgOK' /\ ConfInv'
  BY <1>2, <1>3, ConfKept
<1>5. SessInv'
  BY TakesSess
<1>6. \/ devsub' = TRUE /\ UNCHANGED <<retained, inbox, sess>>
      \/ Head(up) \in States /\ Retain(Head(up)) /\ UNCHANGED <<devsub, sess>>
      \/ sess' = "none" /\ devsub' = FALSE /\ UNCHANGED <<retained, inbox>>
      \/ Head(up) \in Reqs /\ Forward("resp", Head(up)) /\ UNCHANGED <<retained, devsub, sess>>
  BY DEF BrokerTakes, States
<1>7. BrkOK'
  <2>1. up' \in Seq(Packets)
    BY <1>1, <1>2, Shorter DEF BrkOK
  <2>2. retained' \in {"none", "online", "offline"} /\ sess' \in {"none", "live", "zombie"}
    BY <1>1, <1>6 DEF BrkOK, Retain, States
  <2>3. devsub' \in BOOLEAN
    BY <1>1, <1>6 DEF BrkOK
  <2> QED BY <1>1, <1>2, <2>1, <2>2, <2>3 DEF BrkOK
<1>8. BridgeOK' /\ ViewInv'
  <2>1. CASE UNCHANGED <<retained, inbox>>
    BY <1>2, <2>1, ViewKept DEF bridgeVars
  <2>2. CASE Head(up) \in States /\ Retain(Head(up))
    BY <1>2, <2>2, RetainView
  <2>3. CASE Head(up) \in Reqs /\ Forward("resp", Head(up)) /\ UNCHANGED retained
    BY <1>2, <2>3, AnswerView
  <2> QED BY <1>6, <2>1, <2>2, <2>3
<1>9. FaultsOK'
  BY <1>1, <1>2 DEF FaultsOK
<1> QED BY <1>3, <1>4, <1>5, <1>7, <1>8, <1>9, TypePartsNext DEF IInv

LEMMA Notices ==
  ASSUME IInv, BrokerNotices
  PROVE  IInv'
<1>1. CfgOK /\ DevOK /\ BrkOK /\ BridgeOK /\ FaultsOK /\ SessInv
  BY TypeParts DEF IInv
<1>2. /\ sess = "zombie" /\ sess' = "none" /\ devsub' = FALSE /\ Retain("offline")
      /\ UNCHANGED <<up, down, key, faults, cfgVars, devVars>>
      /\ UNCHANGED <<blink, subscribed, mids, subs, seen, rpcs>>
  BY DEF BrokerNotices, Will
<1>3. DevOK' /\ UNCHANGED <<running, connected, kick, phase, snap, wifi>>
  BY <1>2, DevKept
<1>4. CfgOK' /\ ConfInv'
  BY <1>2, <1>3, ConfKept
<1>5. retained' = "offline"
  BY <1>2 DEF Retain
<1>6. BrkOK'
  BY <1>1, <1>2, <1>5 DEF BrkOK
<1>7. SessInv'
  BY <1>1, <1>2, <1>3, <1>5 DEF SessInv
<1>8. BridgeOK' /\ ViewInv'
  BY <1>2, RetainView DEF States
<1>9. FaultsOK'
  BY <1>1, <1>2 DEF FaultsOK
<1> QED BY <1>3, <1>4, <1>6, <1>7, <1>8, <1>9, TypePartsNext DEF IInv

-----------------------------------------------------------------------------
(* The client's steps.  Those that leave the broker and the bridge alone   *)
(* and do not touch the session.                                           *)
LEMMA Outside ==
  ASSUME IInv, UNCHANGED <<brkVars, bridgeVars, connected>>, UNCHANGED faults \/ Fault,
         CfgOK', DevOK', ConfInv'
  PROVE  IInv'
<1>1. BrkOK' /\ UNCHANGED <<up, down, sess, devsub, retained, key>>
  BY BrkKept
<1>2. BridgeOK' /\ ViewInv'
  BY <1>1, ViewKept
<1>3. SessInv'
  BY <1>1, SessKept
<1>4. FaultsOK'
  BY FaultCounted
<1> QED BY <1>1, <1>2, <1>3, <1>4, TypePartsNext DEF IInv

LEMMA Waits ==
  ASSUME IInv, Idle \/ PauseOver \/ ConnectFails \/ WifiFlips
  PROVE  IInv'
<1>1. CfgOK /\ DevOK /\ ConfInv
  BY TypeParts DEF IInv
<1>2. CASE Idle
  <2>1. /\ phase = "idle" /\ phase' \in {"idle", "pause"}
        /\ UNCHANGED <<connected, snap, wifi, conf, enable, untold, cmds, brkVars, bridgeVars, faults>>
    BY <1>2 DEF Idle, Pause
  <2>2. running' \in BOOLEAN /\ kick' \in BOOLEAN
    BY <1>1, <1>2 DEF Idle, DevOK
  <2>3. unread' \in Seq(Keys) /\ Len(unread') <= CAP
    <3>1. CASE unread' = unread
      BY <1>1, <3>1 DEF CfgOK
    <3>2. CASE unread # <<>> /\ unread' = Tail(unread)
      <4>1. unread' \in Seq(Keys) /\ Len(unread') = Len(unread) - 1 /\ Len(unread) \in Nat
        BY <1>1, <3>2, Shorter DEF CfgOK
      <4> QED BY <1>1, <4>1, RemoteAssumption DEF CfgOK
    <3> QED BY <1>2, <3>1, <3>2 DEF Idle
  <2>4. DevOK'
    BY <1>1, <2>1, <2>2 DEF DevOK
  <2>5. CfgOK'
    BY <1>1, <2>1, <2>3 DEF CfgOK
  <2>6. ConfInv'
    BY <2>1 DEF ConfInv
  <2> QED BY <2>1, <2>4, <2>5, <2>6, Outside
<1>3. CASE PauseOver
  <2>1. /\ UNCHANGED <<connected, kick, wifi, cfgVars, brkVars, bridgeVars, faults>>
        /\ phase = "pause"
    BY <1>3 DEF PauseOver
  <2>2. UNCHANGED <<conf, enable, unread, untold, cmds>>
    BY <2>1 DEF cfgVars
  <2>3. \/ phase' = "idle" /\ UNCHANGED snap
        \/ phase' = "connecting" /\ snap' = conf
    BY <1>3 DEF PauseOver
  <2>4. running' \in BOOLEAN
    BY <1>1, <1>3 DEF PauseOver, DevOK
  <2>5. DevOK'
    BY <1>1, <2>1, <2>3, <2>4 DEF DevOK, CfgOK
  <2>6. CfgOK'
    BY <1>1, <2>2 DEF CfgOK
  <2>7. ConfInv'
    BY <2>2, <2>3 DEF ConfInv
  <2> QED BY <2>1, <2>5, <2>6, <2>7, Outside
<1>4. CASE ConnectFails
  <2>1. /\ UNCHANGED <<connected, kick, snap, wifi, cfgVars, brkVars, bridgeVars, running>>
        /\ phase = "connecting" /\ phase' \in {"idle", "pause"}
        /\ UNCHANGED faults \/ Fault
    BY <1>4 DEF ConnectFails, Pause
  <2>2. DevOK'
    BY <1>1, <2>1 DEF DevOK
  <2>3. CfgOK' /\ ConfInv'
    BY <2>1, ConfKept
  <2> QED BY <2>1, <2>2, <2>3, Outside
<1>5. CASE WifiFlips
  <2>1. /\ UNCHANGED <<running, connected, kick, phase, snap, cfgVars, brkVars, bridgeVars>>
        /\ Fault /\ wifi' = ~wifi
    BY <1>5 DEF WifiFlips
  <2>2. wifi' \in BOOLEAN
    BY <2>1
  <2>3. DevOK'
    BY <1>1, <2>1, <2>2 DEF DevOK
  <2>4. CfgOK' /\ ConfInv'
    BY <2>1, ConfKept
  <2> QED BY <2>1, <2>3, <2>4, Outside
<1> QED BY <1>2, <1>3, <1>4, <1>5

LEMMA Connects ==
  ASSUME IInv, ConnectOk
  PROVE  IInv'
<1>1. CfgOK /\ DevOK /\ BrkOK /\ BridgeOK /\ FaultsOK /\ ConfInv /\ SessInv
  BY TypeParts DEF IInv
<1>2. /\ phase = "connecting" /\ phase' = "session" /\ connected' = TRUE
      /\ sess' = "live" /\ devsub' = FALSE /\ down' = <<>> /\ up' = <<"sub", "online">>
      /\ UNCHANGED <<running, kick, snap, wifi, key, cfgVars, faults>>
      /\ UNCHANGED <<blink, subscribed, mids, subs, seen, rpcs>>
  BY DEF ConnectOk
<1>3. UNCHANGED <<retained, inbox>> \/ Retain("offline")
  BY DEF ConnectOk, Will
<1>4. CfgOK' /\ ConfInv'
  BY <1>2, ConfKept
<1>5. DevOK'
  BY <1>1, <1>2 DEF DevOK
<1>6. retained' \in {"none", "online", "offline"}
  BY <1>1, <1>3 DEF Retain, BrkOK
<1>7. up' \in Seq(Packets) /\ down' \in Seq(Reqs)
  BY <1>2, EmptySeq DEF Packets
<1>8. BrkOK'
  BY <1>1, <1>2, <1>6, <1>7 DEF BrkOK
<1>9. Len(up') = 2 /\ up'[1] = "sub" /\ up'[2] = "online"
  BY <1>2
<1>10. SessInv'
  <2>1. 1 \in 1..Len(up') /\ 2 \in 1..Len(up') /\ \A i \in 1..Len(up') : i = 1 \/ i = 2
    BY <1>9
  <2>2. \A i \in 1..Len(up') : up'[i] \notin {"offline", "disc"}
    BY <1>9, <2>1
  <2> QED BY <1>2, <1>9, <2>1, <2>2 DEF SessInv
<1>11. BridgeOK' /\ ViewInv'
  <2>1. CASE UNCHANGED <<retained, inbox>>
    BY <1>2, <2>1, ViewKept DEF bridgeVars
  <2>2. CASE Retain("offline")
    BY <1>2, <2>2, RetainView DEF States
  <2> QED BY <1>3, <2>1, <2>2
<1>12. FaultsOK'
  BY <1>1, <1>2 DEF FaultsOK
<1> QED BY <1>4, <1>5, <1>8, <1>10, <1>11, <1>12, TypePartsNext DEF IInv

(* A session is closed: w is what the node still says.                     *)
LEMMA Closed ==
  ASSUME IInv, connected, NEW w \in Seq(Packets), up' = up \o w,
         Len(w) > 1, w[Len(w)] = "disc", w[Len(w) - 1] = "offline",
         \A i \in 1..(Len(w) - 1) : w[i] # "disc",
         down' = <<>>, UNCHANGED <<sess, devsub, retained, key>>, ~connected'
  PROVE  BrkOK' /\ SessInv'
<1>1. BrkOK /\ SessInv
  BY TypeParts DEF IInv
<1>2. sess = "live" /\ \A i \in 1..Len(up) : up[i] # "disc"
  BY <1>1 DEF SessInv, BrkOK
<1>3. up' \in Seq(Packets) /\ Ending(up') /\ Len(up') > 1
  BY <1>1, <1>2, EndingConcat DEF BrkOK
<1>4. BrkOK'
  BY <1>1, <1>3, EmptySeq DEF BrkOK
<1>5. Len(up') # 1
  BY <1>3
<1> QED BY <1>2, <1>3, <1>4, <1>5 DEF SessInv

LEMMA Ended ==
  ASSUME IInv, phase = "session", EndSession
  PROVE  BrkOK' /\ SessInv' /\ connected' = FALSE /\ phase' \in {"idle", "pause"}
<1>1. connected
  BY TypeParts DEF IInv, DevOK
<1> DEFINE w == <<"offline", "disc">>
<1>2. w \in Seq(Packets) /\ Len(w) = 2 /\ w[1] = "offline" /\ w[2] = "disc"
  BY DEF Packets
<1>3. /\ up' = up \o w /\ down' = <<>> /\ connected' = FALSE
      /\ UNCHANGED <<sess, devsub, retained, key>> /\ phase' \in {"idle", "pause"}
  BY DEF EndSession, Pause
<1> HIDE DEF w
<1>4. /\ Len(w) > 1 /\ w[Len(w)] = "disc" /\ w[Len(w) - 1] = "offline"
      /\ \A i \in 1..(Len(w) - 1) : w[i] # "disc"
  BY <1>2
<1>5. BrkOK' /\ SessInv'
  BY <1>1, <1>2, <1>3, <1>4, Closed
<1> QED BY <1>3, <1>5

LEMMA Executes ==
  ASSUME IInv, SessCmd
  PROVE  IInv'
<1>1. CfgOK /\ DevOK /\ BrkOK /\ BridgeOK /\ FaultsOK /\ SessInv
  BY TypeParts DEF IInv
<1>2. /\ phase = "session" /\ down # <<>> /\ mqtt_exec
      /\ UNCHANGED <<running, kick, snap, wifi, sess, devsub, retained, key, faults>>
      /\ UNCHANGED bridgeVars
  BY DEF SessCmd
<1>3. connected
  BY <1>1, <1>2 DEF DevOK
<1>4. \/ running /\ up' = Append(up, Head(down)) /\ down' = Tail(down) /\ UNCHANGED <<connected, phase>>
      \/ /\ ~running /\ up' = up \o <<Head(down), "offline", "disc">> /\ down' = <<>>
         /\ connected' = FALSE /\ phase' = "idle"
  BY DEF SessCmd
<1>5. CfgOK' /\ ConfInv'
  BY <1>2, <1>4, CfgSet
<1>6. DevOK'
  <2>1. connected' \in BOOLEAN
    BY <1>1, <1>4 DEF DevOK
  <2>2. /\ phase' \in {"idle", "pause", "connecting", "session"}
        /\ connected' <=> phase' = "session"
    BY <1>1, <1>4 DEF DevOK
  <2> QED BY <1>1, <1>2, <2>1, <2>2 DEF DevOK
<1>7. BridgeOK' /\ ViewInv'
  BY <1>2, ViewKept
<1>8. FaultsOK'
  BY <1>2, FaultCounted
<1>9. Head(down) \in Reqs /\ Tail(down) \in Seq(Reqs)
  BY <1>1, <1>2, Shorter DEF BrkOK
<1>10. Head(down) \notin {"sub", "online", "offline", "disc"} /\ Head(down) \in Packets
  BY <1>9, RemoteAssumption DEF Packets
<1>11. CASE running /\ up' = Append(up, Head(down)) /\ down' = Tail(down) /\ UNCHANGED <<connected, phase>>
  <2>1. /\ up' \in Seq(Packets) /\ Len(up') = Len(up) + 1 /\ Len(up) \in Nat
        /\ \A i \in 1..Len(up) : up'[i] = up[i]
        /\ up'[Len(up) + 1] = Head(down)
    BY <1>1, <1>10, <1>11, Longer DEF BrkOK
  <2>2. BrkOK'
    BY <1>1, <1>2, <1>9, <1>11, <2>1 DEF BrkOK
  <2>3. sess' = "live" /\ \A i \in 1..Len(up) : up[i] \notin {"offline", "disc"}
    BY <1>1, <1>2, <1>3 DEF SessInv, BrkOK
  <2>4. \A i \in 1..Len(up') : i \in 1..Len(up) \/ i = Len(up) + 1
    BY <2>1
  <2>5. \A i \in 1..Len(up') : up'[i] \notin {"offline", "disc"}
    BY <1>10, <2>1, <2>3, <2>4
  <2>6. ASSUME NEW i \in 1..Len(up) PROVE i \in 1..Len(up') /\ up'[i] = up[i]
    BY <2>1
  <2>7. /\ retained' = "online" \/ \E i \in 1..Len(up') : up'[i] = "online"
        /\ devsub' \/ \E i \in 1..Len(up') : up'[i] = "sub"
    BY <1>1, <1>2, <1>3, <2>6 DEF SessInv
  <2>8. SessInv'
    BY <1>3, <1>11, <2>3, <2>5, <2>7 DEF SessInv
  <2> QED BY <1>5, <1>6, <1>7, <1>8, <2>2, <2>8, TypePartsNext DEF IInv
<1>12. CASE /\ up' = up \o <<Head(down), "offline", "disc">> /\ down' = <<>>
            /\ connected' = FALSE
  <2> DEFINE w == <<Head(down), "offline", "disc">>
  <2>1. /\ w \in Seq(Packets) /\ Len(w) = 3
        /\ w[1] = Head(down) /\ w[2] = "offline" /\ w[3] = "disc"
    BY <1>10 DEF Packets
  <2>2. up' = up \o w
    BY <1>12
  <2> HIDE DEF w
  <2>3. /\ Len(w) > 1 /\ w[Len(w)] = "disc" /\ w[Len(w) - 1] = "offline"
        /\ \A i \in 1..(Len(w) - 1) : w[i] # "disc"
    BY <1>10, <2>1
  <2>4. ~connected'
    BY <1>12
  <2>5. BrkOK' /\ SessInv'
    BY <1>2, <1>3, <1>12, <2>1, <2>2, <2>3, <2>4, Closed
  <2> QED BY <1>5, <1>6, <1>7, <1>8, <2>5, TypePartsNext DEF IInv
<1> QED BY <1>4, <1>11, <1>12

LEMMA Ends ==
  ASSUME IInv, SessPing \/ SessKick
  PROVE  IInv'
<1>1. CfgOK /\ DevOK /\ BrkOK /\ BridgeOK /\ FaultsOK /\ SessInv
  BY TypeParts DEF IInv
<1>2. /\ phase = "session" /\ EndSession
      /\ UNCHANGED <<running, snap, wifi, cfgVars, bridgeVars, faults>>
  BY DEF SessPing, SessKick
<1>3. BrkOK' /\ SessInv' /\ connected' = FALSE /\ phase' \in {"idle", "pause"}
  BY <1>2, Ended
<1>4. kick' \in BOOLEAN
  BY <1>1 DEF SessPing, SessKick, DevOK
<1>5. DevOK'
  BY <1>1, <1>2, <1>3, <1>4 DEF DevOK
<1>6. CfgOK' /\ ConfInv'
  BY <1>2, <1>3, ConfKept
<1>7. retained' = retained
  BY <1>2 DEF EndSession
<1>8. BridgeOK' /\ ViewInv'
  BY <1>2, <1>7, ViewKept
<1>9. FaultsOK'
  BY <1>2, FaultCounted
<1> QED BY <1>3, <1>5, <1>6, <1>8, <1>9, TypePartsNext DEF IInv

(* A change that concerns the client ends the session it is read in.       *)
LEMMA Hears ==
  ASSUME IInv, SessMsg
  PROVE  IInv'
<1>1. CfgOK /\ DevOK /\ BrkOK /\ BridgeOK /\ FaultsOK /\ SessInv /\ ConfInv
  BY TypeParts DEF IInv
<1>2. /\ phase = "session" /\ unread # <<>> /\ unread' = Tail(unread)
      /\ UNCHANGED <<running, kick, snap, wifi, conf, enable, untold, cmds, faults>>
      /\ UNCHANGED bridgeVars
  BY DEF SessMsg
<1>3. /\ unread' \in Seq(Keys) /\ Len(unread') = Len(unread) - 1 /\ Len(unread) \in Nat \ {0}
      /\ \A i \in 1..(Len(unread) - 1) : unread'[i] = unread[i + 1]
      /\ Head(unread) = unread[1]
  BY <1>1, <1>2, Shorter DEF CfgOK
<1>4. CfgOK'
  BY <1>1, <1>2, <1>3, RemoteAssumption DEF CfgOK
<1>5. FaultsOK'
  BY <1>2, FaultCounted
<1>6. CASE EndSession
  <2>1. BrkOK' /\ SessInv' /\ connected' = FALSE /\ phase' \in {"idle", "pause"}
    BY <1>2, <1>6, Ended
  <2>2. DevOK'
    BY <1>1, <1>2, <2>1 DEF DevOK
  <2>3. ConfInv'
    BY <2>1 DEF ConfInv
  <2>4. retained' = retained
    BY <1>6 DEF EndSession
  <2>5. BridgeOK' /\ ViewInv'
    BY <1>2, <2>4, ViewKept
  <2> QED BY <1>4, <1>5, <2>1, <2>2, <2>3, <2>5, TypePartsNext DEF IInv
<1>7. CASE ~Concerns(Head(unread)) /\ UNCHANGED <<connected, phase, brkVars>>
  <2>1. DevOK'
    BY <1>1, <1>2, <1>7 DEF DevOK
  <2>2. unread[1] # "mqtt"
    BY <1>3, <1>7 DEF Concerns
  <2>3. ASSUME NEW i \in 1..Len(unread), unread[i] = "mqtt"
        PROVE  \E j \in 1..Len(unread') : unread'[j] = "mqtt"
    <3>1. i - 1 \in 1..(Len(unread) - 1) /\ (i - 1) + 1 = i
      BY <1>3, <2>2, <2>3
    <3> QED BY <1>3, <2>3, <3>1
  <2>4. ConfInv'
    BY <1>1, <1>2, <1>7, <2>3 DEF ConfInv
  <2> QED BY <1>2, <1>4, <1>7, <2>1, <2>4, Outside
<1> QED BY <1>6, <1>7 DEF SessMsg

(* The connection breaks.                                                  *)
LEMMA Breaks ==
  ASSUME IInv, SessLost \/ Reboot
  PROVE  IInv'
<1>1. CfgOK /\ DevOK /\ BrkOK /\ BridgeOK /\ FaultsOK /\ SessInv /\ ConfInv
  BY TypeParts DEF IInv
<1>2. /\ Fault /\ Lost /\ connected' = FALSE /\ phase' \in {"idle", "pause"}
      /\ UNCHANGED <<wifi, conf, enable, cmds, devsub, retained, key>>
      /\ UNCHANGED bridgeVars
  BY DEF SessLost, Reboot, Pause, cfgVars
<1>3. running' \in BOOLEAN /\ kick' \in BOOLEAN /\ snap' \in Confs \cup {None}
  BY <1>1 DEF SessLost, Reboot, DevOK, CfgOK
<1>4. DevOK'
  BY <1>1, <1>2, <1>3 DEF DevOK
<1>5. unread' \in Seq(Keys) /\ Len(unread') <= CAP /\ untold' \in BOOLEAN
  <2>1. CASE SessLost
    BY <1>1, <2>1 DEF SessLost, cfgVars, CfgOK
  <2>2. CASE Reboot
    <3>1. unread' = <<>> /\ untold' = FALSE
      BY <2>2 DEF Reboot
    <3>2. <<>> \in Seq(Keys) /\ Len(<<>>) <= CAP
      BY RemoteAssumption, EmptySeq
    <3> QED BY <3>1, <3>2
  <2> QED BY <2>1, <2>2
<1>6. CfgOK'
  BY <1>1, <1>2, <1>5 DEF CfgOK
<1>7. ConfInv'
  BY <1>2 DEF ConfInv
<1>8. /\ up' = <<>> /\ down' = <<>> /\ sess' \in {"none", "zombie"}
      /\ sess' = "none" => sess = "none"
  BY <1>2 DEF Lost
<1>9. BrkOK'
  BY <1>1, <1>2, <1>8, EmptySeq DEF BrkOK
<1>10. SessInv'
  BY <1>1, <1>2, <1>8 DEF SessInv
<1>11. BridgeOK' /\ ViewInv'
  BY <1>2, ViewKept
<1>12. FaultsOK'
  BY <1>2, FaultCounted
<1> QED BY <1>4, <1>6, <1>7, <1>9, <1>10, <1>11, <1>12, TypePartsNext DEF IInv

-----------------------------------------------------------------------------
(* The bridge's steps.  They leave the node and its session alone.         *)
LEMMA Beside ==
  ASSUME IInv, UNCHANGED <<cfgVars, devVars, up, sess, devsub, retained, key>>,
         down' \in Seq(Reqs), UNCHANGED faults \/ Fault, BridgeOK', ViewInv'
  PROVE  IInv'
<1>1. BrkOK
  BY TypeParts DEF IInv
<1>2. DevOK' /\ UNCHANGED <<running, connected, kick, phase, snap, wifi>>
  BY DevKept
<1>3. CfgOK' /\ ConfInv'
  BY <1>2, ConfKept
<1>4. BrkOK'
  BY <1>1 DEF BrkOK
<1>5. SessInv'
  BY <1>2, SessKept
<1>6. FaultsOK'
  BY FaultCounted
<1> QED BY <1>2, <1>3, <1>4, <1>5, <1>6, TypePartsNext DEF IInv

LEMMA BridgeCalls ==
  ASSUME IInv, NEW r \in Reqs, Rpc(r) \/ RpcReturns(r)
  PROVE  IInv'
<1>1. BridgeOK /\ ViewInv /\ down \in Seq(Reqs)
  BY TypeParts DEF IInv, BrkOK
<1>2. /\ UNCHANGED <<cfgVars, devVars, up, sess, devsub, retained, key, faults>>
      /\ UNCHANGED <<blink, subscribed, mids, subs, inbox, seen>>
  BY DEF Rpc, RpcReturns, brkVars
<1>3. down' \in Seq(Reqs)
  <2>1. down' = down \/ down' = Append(down, r)
    BY DEF Rpc, RpcReturns, brkVars
  <2> QED BY <1>1, <2>1, Longer
<1>4. rpcs' \in [Reqs -> {"new", "pending", "set", "ok", "failed"}]
  <2>1. PICK v \in {"pending", "ok", "failed"} : rpcs' = [rpcs EXCEPT ![r] = v]
    BY <1>1 DEF Rpc, RpcReturns, BridgeOK
  <2> QED BY <1>1, <2>1 DEF BridgeOK
<1>5. BridgeOK'
  BY <1>1, <1>2, <1>4 DEF BridgeOK
<1>6. ViewInv'
  BY <1>1, <1>2 DEF ViewInv
<1> QED BY <1>2, <1>3, <1>5, <1>6, Beside

LEMMA BridgeReads ==
  ASSUME IInv, OnMessage
  PROVE  IInv'
<1>1. BridgeOK /\ ViewInv /\ down \in Seq(Reqs)
  BY TypeParts DEF IInv, BrkOK
<1>2. /\ UNCHANGED <<cfgVars, devVars, faults>> /\ UNCHANGED brkVars
      /\ UNCHANGED <<blink, subscribed, mids, subs>>
      /\ inbox # <<>> /\ inbox' = Tail(inbox)
  BY DEF OnMessage
<1>3. UNCHANGED <<up, down, sess, devsub, retained, key>>
  BY <1>2, BrkKept
<1>4. /\ inbox' \in Seq(Msgs) /\ Len(inbox') = Len(inbox) - 1 /\ Len(inbox) \in Nat
      /\ Head(inbox) \in Msgs
  BY <1>1, <1>2, Shorter DEF BridgeOK
<1>5. Len(inbox') <= BOX
  BY <1>1, <1>4, RemoteAssumption DEF BridgeOK
<1>6. /\ Head(inbox) \in Reqs => seen' = seen
      /\ Head(inbox) \notin Reqs => seen' = Head(inbox)
  BY DEF OnMessage
<1>7. seen' \in {"none", "online", "offline"}
  BY <1>1, <1>4, <1>6 DEF BridgeOK, Msgs, States
<1>8. rpcs' \in [Reqs -> {"new", "pending", "set", "ok", "failed"}]
  <2>1. rpcs' = rpcs \/ rpcs' = Answer(Head(inbox))
    BY DEF OnMessage
  <2> QED BY <1>1, <2>1 DEF BridgeOK, Answer
<1>9. BridgeOK'
  BY <1>1, <1>2, <1>4, <1>5, <1>7, <1>8 DEF BridgeOK
<1>10. ASSUME NEW q \in States
       PROVE  /\ NoState(inbox, 1) => NoState(inbox', 1) /\ Head(inbox) \in Reqs
              /\ Settles(inbox, seen, q) => Settles(inbox', seen', q)
  <2> DEFINE t == inbox'
             v == seen'
  <2>1. /\ inbox \in Seq(Msgs) /\ inbox # <<>> /\ t = Tail(inbox)
        /\ Head(inbox) \in Reqs => v = seen
        /\ Head(inbox) \notin Reqs => v = Head(inbox)
    BY <1>1, <1>2, <1>6 DEF BridgeOK
  <2> HIDE DEF t, v
  <2>2. /\ NoState(inbox, 1) => NoState(t, 1) /\ Head(inbox) \in Reqs
        /\ Settles(inbox, seen, q) => Settles(t, v, q)
    BY <2>1, MessageRead
  <2> QED BY <2>2 DEF t, v
<1>11. CASE retained = "none"
  <2>1. NoState(inbox, 1) /\ seen = "none"
    BY <1>1, <1>11 DEF ViewInv
  <2>2. NoState(inbox', 1) /\ seen' = "none"
    BY <1>6, <1>10, <2>1 DEF States
  <2> QED BY <1>1, <1>2, <1>3, <1>9, <1>11, <2>2, Beside DEF ViewInv
<1>12. CASE retained # "none"
  <2>1. retained \in States
    BY <1>12, TypeParts DEF IInv, BrkOK, States
  <2>2. Settles(inbox, seen, retained) => Settles(inbox', seen', retained)
    BY <1>10, <2>1
  <2>3. ViewInv'
    BY <1>1, <1>2, <1>3, <1>12, <2>2 DEF ViewInv
  <2> QED BY <1>1, <1>2, <1>3, <1>9, <2>3, Beside
<1> QED BY <1>11, <1>12

(* The bridge's connection comes, goes and is subscribed.                  *)
LEMMA BridgeLinks ==
  ASSUME IInv, BridgeConnects \/ OnConnect \/ BridgeLost
  PROVE  IInv'
<1>1. BridgeOK /\ ViewInv /\ down \in Seq(Reqs)
  BY TypeParts DEF IInv, BrkOK
<1>2. /\ UNCHANGED <<cfgVars, devVars>> /\ UNCHANGED brkVars /\ UNCHANGED <<seen, rpcs>>
      /\ UNCHANGED faults \/ Fault
  BY DEF BridgeConnects, OnConnect, BridgeLost
<1>3. UNCHANGED <<up, down, sess, devsub, retained, key>>
  BY <1>2, BrkKept
<1>4. CASE BridgeConnects \/ BridgeLost
  <2>1. /\ blink' \in {"down", "connack"} /\ subs' = {} /\ inbox' = <<>>
        /\ UNCHANGED <<subscribed, mids>>
    BY <1>4 DEF BridgeConnects, BridgeLost
  <2>2. <<>> \in Seq(Msgs) /\ Len(<<>>) = 0 /\ 0 <= BOX
    BY RemoteAssumption, EmptySeq
  <2>3. NoState(<<>>, 1)
    BY <2>2 DEF NoState
  <2>4. BridgeOK'
    BY <1>1, <1>2, <2>1, <2>2 DEF BridgeOK
  <2>5. ViewInv'
    BY <1>1, <1>2, <1>3, <2>1, <2>3 DEF ViewInv
  <2> QED BY <1>1, <1>2, <1>3, <2>4, <2>5, Beside
<1>5. CASE OnConnect
  <2>1. /\ blink = "connack" /\ blink' = "up" /\ subscribed' = FALSE /\ mids' = SubTopics
        /\ UNCHANGED <<subs, inbox>>
    BY <1>5 DEF OnConnect
  <2>2. BridgeOK'
    BY <1>1, <1>2, <2>1 DEF BridgeOK
  <2>3. subs' = {}
    BY <1>1, <2>1 DEF ViewInv
  <2>4. ViewInv'
    BY <1>1, <1>2, <1>3, <2>1, <2>3 DEF ViewInv
  <2> QED BY <1>1, <1>2, <1>3, <2>2, <2>4, Beside
<1> QED BY <1>4, <1>5

LEMMA BridgeSubscribes ==
  ASSUME IInv, NEW t \in SubTopics, BrokerSubscribes(t) \/ Suback(t)
  PROVE  IInv'
<1>1. BridgeOK /\ ViewInv /\ BrkOK /\ down \in Seq(Reqs)
  BY TypeParts DEF IInv, BrkOK
<1>2. /\ UNCHANGED <<cfgVars, devVars>> /\ UNCHANGED brkVars /\ UNCHANGED <<blink, seen, rpcs>>
      /\ UNCHANGED faults /\ blink = "up"
  BY DEF BrokerSubscribes, Suback
<1>3. UNCHANGED <<up, down, sess, devsub, retained, key>>
  BY <1>2, BrkKept
<1>4. CASE Suback(t)
  <2>1. /\ t \in subs /\ mids' = mids \ {t} /\ subscribed' = (subscribed \/ mids' = {})
        /\ UNCHANGED <<subs, inbox>>
    BY <1>4 DEF Suback, OnSubscribe
  <2>2. subscribed' \in BOOLEAN
    BY <2>1
  <2>3. BridgeOK'
    BY <1>1, <1>2, <2>1, <2>2 DEF BridgeOK
  <2>4. SubTopics \ mids' \subseteq subs'
    BY <1>1, <1>2, <2>1 DEF ViewInv
  <2>5. subscribed' => mids' = {}
    BY <1>1, <1>2, <2>1 DEF ViewInv
  <2>6. ViewInv'
    BY <1>1, <1>2, <1>3, <2>1, <2>4, <2>5 DEF ViewInv
  <2> QED BY <1>1, <1>2, <1>3, <2>3, <2>6, Beside
<1>5. CASE BrokerSubscribes(t)
  <2>1. /\ t \in mids \ subs /\ subs' = subs \cup {t} /\ UNCHANGED <<subscribed, mids>>
    BY <1>5 DEF BrokerSubscribes
  <2>2. SubTopics \ mids' \subseteq subs' /\ subs' \subseteq SubTopics
    BY <1>1, <1>2, <2>1 DEF ViewInv, BridgeOK
  <2>3. CASE t = "state" /\ retained # "none"
    <3>1. Len(inbox) < BOX /\ inbox' = Append(inbox, retained)
      BY <1>5, <2>3 DEF BrokerSubscribes
    <3>2. retained \in Msgs /\ inbox \in Seq(Msgs)
      BY <1>1, <2>3 DEF BrkOK, BridgeOK, Msgs, States
    <3>3. inbox' \in Seq(Msgs) /\ Len(inbox') = Len(inbox) + 1 /\ Len(inbox) \in Nat
      BY <3>1, <3>2, Longer
    <3>4. Len(inbox') <= BOX
      BY <3>1, <3>3, RemoteAssumption
    <3>5. Settles(inbox', seen, retained)
      BY <3>1, <3>2, StateSent
    <3>6. BridgeOK'
      BY <1>1, <1>2, <2>1, <2>2, <3>3, <3>4 DEF BridgeOK
    <3>7. ViewInv'
      BY <1>1, <1>2, <1>3, <2>1, <2>2, <2>3, <3>5 DEF ViewInv
    <3> QED BY <1>1, <1>2, <1>3, <3>6, <3>7, Beside
  <2>4. CASE ~(t = "state" /\ retained # "none")
    <3>1. inbox' = inbox
      BY <1>5, <2>4 DEF BrokerSubscribes
    <3>2. BridgeOK'
      BY <1>1, <1>2, <2>1, <2>2, <3>1 DEF BridgeOK
    <3>3. ViewInv'
      BY <1>1, <1>2, <1>3, <2>1, <2>2, <2>4, <3>1 DEF ViewInv
    <3> QED BY <1>1, <1>2, <1>3, <3>2, <3>3, Beside
  <2> QED BY <2>3, <2>4
<1> QED BY <1>4, <1>5

-----------------------------------------------------------------------------
LEMMA InitIInv == Init => IInv
<1> SUFFICES ASSUME Init PROVE IInv
  OBVIOUS
<1>1. /\ <<>> \in Seq(Keys) /\ <<>> \in Seq(Packets) /\ <<>> \in Seq(Reqs) /\ <<>> \in Seq(Msgs)
      /\ Len(<<>>) = 0
  BY EmptySeq
<1>0. 0 \in 0..MaxCmds /\ 0 \in 0..MaxFaults /\ 0 <= CAP /\ 0 <= BOX
  BY RemoteAssumption
<1>2. CfgOK
  <2>1. conf \in Confs \cup {None} /\ enable \in BOOLEAN /\ untold \in BOOLEAN
    BY DEF Init
  <2>2. cmds \in 0..MaxCmds /\ unread \in Seq(Keys) /\ Len(unread) <= CAP
    BY <1>1, <1>0 DEF Init
  <2> QED BY <2>1, <2>2 DEF CfgOK
<1>3. DevOK
  BY DEF Init, DevOK
<1>4. BrkOK
  BY <1>1 DEF Init, BrkOK
<1>5. BridgeOK /\ FaultsOK
  <2>1. inbox \in Seq(Msgs) /\ Len(inbox) <= BOX /\ faults \in 0..MaxFaults
    BY <1>1, <1>0 DEF Init
  <2>2. rpcs \in [Reqs -> {"new", "pending", "set", "ok", "failed"}]
    BY DEF Init
  <2> QED BY <2>1, <2>2 DEF Init, BridgeOK, FaultsOK
<1>6. TypeOK
  BY <1>2, <1>3, <1>4, <1>5 DEF TypeOK, CfgOK, DevOK, BrkOK, BridgeOK, FaultsOK, Msgs, States
<1>7. NoState(inbox, 1)
  BY <1>1 DEF Init, NoState
<1>8. ConfInv /\ SessInv /\ ViewInv
  BY <1>7 DEF Init, ConfInv, SessInv, ViewInv
<1> QED BY <1>6, <1>8 DEF IInv

LEMMA NextIInv == IInv /\ [Next]_vars => IInv'
<1> SUFFICES ASSUME IInv, [Next]_vars PROVE IInv'
  OBVIOUS
<1>1. CASE DevTask
  BY <1>1, Waits, Connects, Executes, Ends, Hears DEF DevTask
<1>2. CASE Broker
  BY <1>2, Takes, Notices DEF Broker
<1>3. CASE BridgeTask
  BY <1>3, BridgeLinks, BridgeReads, BridgeSubscribes DEF BridgeTask
<1>4. CASE World
  BY <1>4, Commands, Waits, Breaks, BridgeLinks, BridgeCalls DEF World
<1>5. CASE UNCHANGED vars
  <2>1. /\ UNCHANGED <<cfgVars, devVars, faults>> /\ UNCHANGED brkVars /\ UNCHANGED bridgeVars
    BY <1>5 DEF vars
  <2>2. DevOK' /\ UNCHANGED <<running, connected, kick, phase, snap, wifi>>
    BY <2>1, DevKept
  <2>3. CfgOK' /\ ConfInv'
    BY <2>1, <2>2, ConfKept
  <2> QED BY <2>1, <2>2, <2>3, Outside
<1> QED BY <1>1, <1>2, <1>3, <1>4, <1>5 DEF Next

(* What the steps of node, broker and bridge together keep: the types, the *)
(* notification before an old configuration, the broker's account of the   *)
(* node's session (mqttc.rs run_session, its will and its last words) and  *)
(* the last state on its way to the bridge.                                *)
THEOREM IInvHolds == Spec => []IInv
<1> QED BY InitIInv, NextIInv, PTL DEF Spec

(* The client is "connected" in its STATE exactly while a session runs,    *)
(* and its queues keep their capacities (mqttc.rs STATE, CHANGED).         *)
THEOREM TypeCorrect == Spec => []TypeOK
<1>1. IInv => TypeOK
  BY DEF IInv
<1> QED BY <1>1, IInvHolds, PTL

(* mqttc.rs run_session: a session on an old configuration has "mqtt"      *)
(* before it in CHANGED, unless CHANGED was full when the key was set.     *)
THEOREM SessionConfHolds == Spec => []SessionConf
<1>1. IInv => SessionConf
  <2> SUFFICES ASSUME IInv, phase = "session", snap # conf, ~untold
               PROVE  "mqtt" \in {unread[i] : i \in DOMAIN unread}
    BY DEF SessionConf
  <2>1. DOMAIN unread = 1..Len(unread)
    BY TypeParts DEF IInv, CfgOK
  <2> QED BY <2>1 DEF IInv, ConfInv
<1> QED BY <1>1, IInvHolds, PTL

(* The will and the two last packets of run_client: once the broker's      *)
(* queues are empty, what it retains is true of the node's session.        *)
THEOREM RetainedAgreesHolds == Spec => []RetainedAgrees
<1>1. IInv => RetainedAgrees
  <2> SUFFICES ASSUME IInv, up = <<>>
               PROVE  /\ sess = "none" => retained # "online"
                      /\ connected /\ sess = "live" => retained = "online" /\ devsub
    BY DEF RetainedAgrees
  <2>1. \A i \in 1..Len(up) : FALSE
    BY EmptySeq
  <2> QED BY <2>1 DEF IInv, SessInv
<1> QED BY <1>1, IInvHolds, PTL

(* atnode_broker.py on_connect, on_subscribe: the event means that answers *)
(* reach the bridge, and its view settles on what the broker retains.      *)
THEOREM ViewSettlesHolds == Spec => []ViewSettles
<1>1. IInv => ViewSettles
  <2> SUFFICES ASSUME IInv, blink = "up", subscribed
               PROVE  "resp" \in subs /\ (inbox = <<>> => seen = retained)
    BY DEF ViewSettles
  <2>1. "resp" \in subs /\ "state" \in subs
    BY DEF IInv, ViewInv, SubTopics
  <2>2. ASSUME inbox = <<>> PROVE seen = retained
    <3>1. \A i \in 1..Len(inbox) : FALSE
      BY <2>2, EmptySeq
    <3>2. CASE retained = "none"
      BY <3>2 DEF IInv, ViewInv
    <3>3. CASE retained # "none"
      BY <2>1, <3>1, <3>3 DEF IInv, ViewInv, Settles
    <3> QED BY <3>2, <3>3
  <2> QED BY <2>1, <2>2
<1> QED BY <1>1, IInvHolds, PTL
=============================================================================
