---------------------------- MODULE EspNodeProofs ----------------------------
(***************************************************************************)
(* Machine-checked facts about EspNode, for any number of acceptors,       *)
(* buffers, subscribers and credentials and any capacity of CHANGED: no    *)
(* two sockets share a buffer, and a service that acts on an old value has *)
(* the notification of the new one before it.                              *)
(***************************************************************************)
EXTENDS EspNode, SequenceTheorems, TLAPS

-----------------------------------------------------------------------------
(* The inductive invariant: TypeOK, BufferUnique and what makes            *)
(* ServicesTold inductive.                                                 *)

(* Somebody runs while httpd is running, somebody is suspended while it is *)
(* not.                                                                    *)
RunningAndIdle ==
  /\ hrun => \E a \in Acceptors : acc[a] # "idle"
  /\ ~hrun => \E a \in Acceptors : acc[a] = "idle"

(* The notification that http is off is before an acceptor that runs: a    *)
(* suspended one would read it and do nothing.                             *)
OffTold ==
  hrun /\ ~cfg.enable /\ "http.enable" \notin dropped /\ ~erased =>
    \E a \in Acceptors : acc[a] # "idle" /\ "http.enable" \in Seen(unread[a])

(* A suspended acceptor has a message, or all are suspended and KICK is    *)
(* set: one that runs would take either and do nothing.                    *)
OnTold ==
  ~hrun /\ cfg.enable /\ "http.enable" \notin dropped =>
    \/ \E a \in Acceptors : acc[a] = "idle" /\ unread[a] # <<>>
    \/ hkick /\ \A a \in Acceptors : acc[a] = "idle"

(* From the start of a join on, old credentials have their notification.   *)
CredsTold ==
  wphase # "wait" /\ cfg.wifi # cur /\ "wifi" \notin dropped /\ ~erased =>
    "wifi" \in Seen(unread["wifi"])

TellInv == RunningAndIdle /\ OffTold /\ OnTold /\ CredsTold

IInv == TypeOK /\ BufferUnique /\ TellInv

-----------------------------------------------------------------------------
(* Queues: what is appended, taken, and what a queue holds after it.       *)

LEMMA ArrayIsSeq ==
  ASSUME NEW S, NEW n \in Nat, NEW f \in [1..n -> S]
  PROVE  f \in Seq(S) /\ Len(f) = n
  OBVIOUS

LEMMA EmptyIsSeq ==
  ASSUME NEW S
  PROVE  <<>> \in Seq(S) /\ Len(<<>>) = 0
  OBVIOUS

LEMMA SeenOfConcat ==
  ASSUME NEW S, NEW s \in Seq(S), NEW t \in Seq(S)
  PROVE  /\ s \o t \in Seq(S) /\ Len(s \o t) = Len(s) + Len(t)
         /\ Seen(s) \subseteq Seen(s \o t) /\ Seen(t) \subseteq Seen(s \o t)
<1>1. /\ s \o t \in Seq(S) /\ Len(s \o t) = Len(s) + Len(t)
      /\ \A i \in 1..Len(s) + Len(t) :
           (s \o t)[i] = IF i <= Len(s) THEN s[i] ELSE t[i - Len(s)]
  BY ConcatProperties
<1>2. Len(s) \in Nat /\ Len(t) \in Nat
  OBVIOUS
<1>3. ASSUME NEW i \in DOMAIN s PROVE s[i] \in Seen(s \o t)
  <2>1. i \in 1..Len(s) + Len(t) /\ i <= Len(s)
    BY <1>2
  <2>2. (s \o t)[i] = s[i] /\ i \in DOMAIN (s \o t)
    BY <1>1, <2>1
  <2> QED BY <2>2 DEF Seen
<1>4. ASSUME NEW i \in DOMAIN t PROVE t[i] \in Seen(s \o t)
  <2>1. Len(s) + i \in 1..Len(s) + Len(t) /\ ~(Len(s) + i <= Len(s)) /\ (Len(s) + i) - Len(s) = i
    BY <1>2
  <2>2. (s \o t)[Len(s) + i] = t[i] /\ Len(s) + i \in DOMAIN (s \o t)
    BY <1>1, <2>1
  <2> QED BY <2>2 DEF Seen
<1> QED BY <1>1, <1>3, <1>4 DEF Seen

LEMMA SeenOfTail ==
  ASSUME NEW S, NEW s \in Seq(S), s # <<>>
  PROVE  /\ Head(s) \in S /\ Tail(s) \in Seq(S) /\ Len(Tail(s)) = Len(s) - 1
         /\ Len(s) \in Nat /\ Len(s) # 0
         /\ \A i \in 1..Len(s) - 1 : Tail(s)[i] = s[i + 1]
         /\ Seen(Tail(s)) \subseteq Seen(s) /\ Seen(s) \subseteq Seen(Tail(s)) \cup {Head(s)}
<1>1. /\ Head(s) \in S /\ Tail(s) \in Seq(S) /\ Len(Tail(s)) = Len(s) - 1
      /\ \A i \in 1..Len(s) - 1 : Tail(s)[i] = s[i + 1]
  BY HeadTailProperties
<1>2. Len(s) \in Nat /\ Len(s) # 0 /\ Head(s) = s[1]
  BY EmptySeq
<1>3. ASSUME NEW i \in DOMAIN Tail(s) PROVE Tail(s)[i] \in Seen(s)
  <2>1. i \in 1..Len(s) - 1 /\ i + 1 \in DOMAIN s
    BY <1>1, <1>2
  <2> QED BY <1>1, <2>1 DEF Seen
<1>4. ASSUME NEW i \in DOMAIN s, s[i] # Head(s) PROVE s[i] \in Seen(Tail(s))
  <2>1. i \in 1..Len(s) /\ i # 1
    BY <1>2, <1>4
  <2>2. i - 1 \in 1..Len(s) - 1 /\ (i - 1) + 1 = i
    BY <1>2, <2>1
  <2>3. Tail(s)[i - 1] = s[i] /\ i - 1 \in DOMAIN Tail(s)
    BY <1>1, <2>2
  <2> QED BY <2>3 DEF Seen
<1> QED BY <1>1, <1>2, <1>3, <1>4 DEF Seen

(* Publishing: queues stay within CAP and keep what they hold; a topic is  *)
(* either marked as dropped or before every subscriber.                    *)
LEMMA PublishFacts ==
  ASSUME TypeOK, NEW topics \in Seq(Topics), Publish(topics)
  PROVE  /\ unread' \in [Subs -> Seq(Topics)] /\ \A s \in Subs : Len(unread'[s]) <= CAP
         /\ dropped' \subseteq Topics
         /\ \A s \in Subs : /\ Seen(unread[s]) \subseteq Seen(unread'[s])
                            /\ unread[s] # <<>> => unread'[s] # <<>>
         /\ \A t \in Seen(topics) \ {"other"} :
              t \notin dropped' => \A s \in Subs : t \in Seen(unread'[s])
         /\ \A t \in dropped \ {"other"} : t \notin Seen(topics) => t \in dropped'
<1>1. PICK n \in 0..Len(topics) :
        /\ \A s \in Subs : Len(unread[s]) + n <= CAP
        /\ unread' = [s \in Subs |-> unread[s] \o SubSeq(topics, 1, n)]
        /\ dropped' = ((dropped \cup Seen(topics)) \ Seen(SubSeq(topics, 1, n))) \ {"other"}
  BY DEF Publish
<1> DEFINE told == SubSeq(topics, 1, n)
<1>2. /\ told \in Seq(Topics) /\ Len(told) = n
      /\ \A i \in 1..n : told[i] = topics[i]
  BY SubSeqProperties
<1>3. Seen(told) \subseteq Seen(topics) /\ Seen(topics) \subseteq Topics
  BY <1>2 DEF Seen
<1>4. ASSUME NEW s \in Subs
      PROVE  /\ unread'[s] \in Seq(Topics) /\ Len(unread'[s]) <= CAP
             /\ Seen(unread[s]) \subseteq Seen(unread'[s]) /\ Seen(told) \subseteq Seen(unread'[s])
             /\ unread[s] # <<>> => unread'[s] # <<>>
  <2>1. unread[s] \in Seq(Topics) /\ unread'[s] = unread[s] \o told
    BY <1>1 DEF TypeOK
  <2> HIDE DEF told
  <2>2. /\ unread'[s] \in Seq(Topics) /\ Len(unread'[s]) = Len(unread[s]) + n
        /\ Seen(unread[s]) \subseteq Seen(unread'[s]) /\ Seen(told) \subseteq Seen(unread'[s])
    BY <1>2, <2>1, SeenOfConcat
  <2>3. unread[s] # <<>> => unread'[s] # <<>>
    <3>1. unread[s] # <<>> => Len(unread[s]) \in Nat \ {0}
      BY <2>1, EmptySeq
    <3>2. unread'[s] = <<>> => Len(unread'[s]) = 0
      BY EmptySeq
    <3> QED BY <2>2, <3>1, <3>2
  <2>4. Len(unread'[s]) <= CAP
    BY <1>1, <2>2
  <2> QED BY <2>2, <2>3, <2>4
<1>5. dropped' = ((dropped \cup Seen(topics)) \ Seen(told)) \ {"other"}
  BY <1>1
<1>6. unread' \in [Subs -> Seq(Topics)]
  BY <1>1, <1>4
<1> HIDE DEF told
<1> QED BY <1>3, <1>4, <1>5, <1>6 DEF TypeOK

(* Subscriber s reads: nothing changes for the others, and s loses no more *)
(* than its oldest message.                                                *)
LEMMA ReadFacts ==
  ASSUME TypeOK, NEW s \in Subs, unread[s] # <<>>, Read(s)
  PROVE  /\ unread' \in [Subs -> Seq(Topics)] /\ \A t \in Subs : Len(unread'[t]) <= CAP
         /\ Key(s) \in Topics
         /\ \A t \in Subs \ {s} : unread'[t] = unread[t]
         /\ Seen(unread[s]) \subseteq Seen(unread'[s]) \cup {Key(s)}
<1>1. unread[s] \in Seq(Topics) /\ unread'[s] = Tail(unread[s]) /\ Len(unread[s]) <= CAP
  BY DEF TypeOK, Read
<1>2. /\ Head(unread[s]) \in Topics /\ Tail(unread[s]) \in Seq(Topics)
      /\ Len(Tail(unread[s])) = Len(unread[s]) - 1 /\ Len(unread[s]) \in Nat
      /\ Seen(unread[s]) \subseteq Seen(Tail(unread[s])) \cup {Head(unread[s])}
  BY <1>1, SeenOfTail
<1>3. CAP \in Nat
  BY EspNodeAssumption
<1>4. \A t \in Subs \ {s} : unread'[t] = unread[t]
  BY DEF TypeOK, Read
<1>5. unread' \in [Subs -> Seq(Topics)]
  BY <1>1, <1>2 DEF TypeOK, Read
<1>6. Len(unread'[s]) <= CAP
  BY <1>1, <1>2, <1>3
<1> QED BY <1>1, <1>2, <1>4, <1>5, <1>6 DEF Key, TypeOK

-----------------------------------------------------------------------------
(* Start-up, with any configuration.                                       *)

LEMMA BootInv ==
  ASSUME NEW c \in Config, Restart(c), sets \in 0..MaxSets
  PROVE  IInv'
<1> USE DEF Restart, Boot
<1>1. c.auto \in BOOLEAN /\ c.enable \in BOOLEAN
  BY DEF Config
<1>2. TypeOK'
  <2>1. unread' \in [Subs -> Seq(Topics)] /\ \A s \in Subs : Len(unread'[s]) <= CAP
    BY EmptyIsSeq, EspNodeAssumption
  <2>2. conn' \in Seq(Bufs)
    BY EmptyIsSeq
  <2>3. hrun' \in BOOLEAN /\ acc' \in [Acceptors -> Bufs \cup {"idle", "wait"}]
    BY <1>1
  <2> QED BY <2>1, <2>2, <2>3 DEF TypeOK
<1>3. BufferUnique'
  <2>1. \A a \in Acceptors : acc'[a] \notin Bufs
    BY EspNodeAssumption
  <2>2. Seen(conn') = {} /\ DOMAIN conn' = {}
    BY DEF Seen
  <2> QED BY <2>1, <2>2, EspNodeAssumption DEF BufferUnique, Listening
<1>4. RunningAndIdle' /\ OffTold'
  BY <1>1, EspNodeAssumption DEF RunningAndIdle, OffTold
<1>5. OnTold' /\ CredsTold'
  BY <1>1 DEF OnTold, CredsTold
<1> QED BY <1>2, <1>3, <1>4, <1>5 DEF IInv, TellInv

LEMMA InitIInv == Init => IInv
<1> SUFFICES ASSUME Init PROVE IInv
  OBVIOUS
<1>0. PICK c \in Config :
        /\ cfg = c /\ unread = Boot(c).unread
        /\ hrun = Boot(c).hrun /\ hkick = Boot(c).hkick /\ acc = Boot(c).acc
  BY DEF Init, Boot
<1> USE DEF Boot
<1>1. c.auto \in BOOLEAN /\ c.enable \in BOOLEAN
  BY DEF Config
<1>2. TypeOK
  <2>1. unread \in [Subs -> Seq(Topics)] /\ \A s \in Subs : Len(unread[s]) <= CAP
    BY <1>0, EmptyIsSeq, EspNodeAssumption
  <2>2. conn \in Seq(Bufs)
    BY EmptyIsSeq DEF Init
  <2>3. hrun \in BOOLEAN /\ hkick \in BOOLEAN /\ acc \in [Acceptors -> Bufs \cup {"idle", "wait"}]
    BY <1>0, <1>1
  <2>4. sets \in 0..MaxSets
    BY EspNodeAssumption DEF Init
  <2> QED BY <1>0, <2>1, <2>2, <2>3, <2>4 DEF Init, TypeOK
<1>3. BufferUnique
  <2>1. \A a \in Acceptors : acc[a] \notin Bufs
    BY <1>0, EspNodeAssumption
  <2>2. Seen(conn) = {} /\ DOMAIN conn = {} /\ serving = None
    BY DEF Init, Seen
  <2> QED BY <2>1, <2>2, EspNodeAssumption DEF BufferUnique, Listening, Init
<1>4. RunningAndIdle /\ OffTold
  BY <1>0, <1>1, EspNodeAssumption DEF RunningAndIdle, OffTold
<1>5. OnTold /\ CredsTold
  BY <1>0, <1>1 DEF OnTold, CredsTold, Init
<1> QED BY <1>2, <1>3, <1>4, <1>5 DEF IInv, TellInv

-----------------------------------------------------------------------------
(* The registry.                                                           *)

LEMMA BufferKept ==
  ASSUME BufferUnique, UNCHANGED <<acc, free, conn, serving>>
  PROVE  BufferUnique'
  BY DEF BufferUnique, Listening, Seen

(* A handler writes keys: whoever acts on a key that changes is told, or   *)
(* the topic is marked as dropped.                                         *)
LEMMA SetStep ==
  ASSUME IInv, NEW c \in Config, NEW topics \in Seq(Topics), Set(c, topics), Quiet,
         c.enable # cfg.enable => "http.enable" \in Seen(topics),
         c.wifi # cfg.wifi => "wifi" \in Seen(topics)
  PROVE  IInv'
<1> USE DEF IInv
<1>1. /\ cfg' = c /\ sets' = sets + 1 /\ sets < MaxSets /\ erased' = erased
      /\ UNCHANGED <<wphase, cur, assoc, up, hrun, hkick, acc, free, conn, serving, ssdp>>
  BY DEF Set, Quiet, wifiVars, httpVars
<1>2. /\ unread' \in [Subs -> Seq(Topics)] /\ \A s \in Subs : Len(unread'[s]) <= CAP
      /\ dropped' \subseteq Topics
      /\ \A s \in Subs : /\ Seen(unread[s]) \subseteq Seen(unread'[s])
                         /\ unread[s] # <<>> => unread'[s] # <<>>
      /\ \A t \in Seen(topics) \ {"other"} :
           t \notin dropped' => \A s \in Subs : t \in Seen(unread'[s])
      /\ \A t \in dropped \ {"other"} : t \notin Seen(topics) => t \in dropped'
  BY PublishFacts DEF Set
<1>3. Acceptors \subseteq Subs /\ "wifi" \in Subs
  BY DEF Subs
<1>4. TypeOK'
  <2>1. sets' \in 0..MaxSets
    BY <1>1, EspNodeAssumption DEF TypeOK
  <2> QED BY <1>1, <1>2, <2>1 DEF TypeOK
<1>5. BufferUnique'
  BY <1>1, BufferKept
<1>6. RunningAndIdle'
  BY <1>1 DEF TellInv, RunningAndIdle
<1>7. OffTold'
  BY <1>1, <1>2, <1>3 DEF TellInv, OffTold, RunningAndIdle
<1>8. OnTold'
  <2> SUFFICES ASSUME ~hrun, c.enable, "http.enable" \notin dropped'
               PROVE  \/ \E a \in Acceptors : acc[a] = "idle" /\ unread'[a] # <<>>
                      \/ hkick /\ \A a \in Acceptors : acc[a] = "idle"
    BY <1>1 DEF OnTold
  <2>1. CASE "http.enable" \in Seen(topics)
    <3>1. PICK a \in Acceptors : acc[a] = "idle"
      BY DEF TellInv, RunningAndIdle
    <3>2. "http.enable" \in Seen(unread'[a])
      BY <1>2, <1>3, <2>1
    <3>3. unread'[a] # <<>>
      BY <3>2 DEF Seen
    <3> QED BY <3>1, <3>3
  <2>2. CASE "http.enable" \notin Seen(topics)
    <3>1. cfg.enable /\ "http.enable" \notin dropped
      BY <1>2, <2>2
    <3> QED BY <1>2, <1>3, <3>1 DEF TellInv, OnTold
  <2> QED BY <2>1, <2>2
<1>9. CredsTold'
  BY <1>1, <1>2, <1>3 DEF TellInv, CredsTold
<1> QED BY <1>4, <1>5, <1>6, <1>7, <1>8, <1>9 DEF TellInv

(* One key, or a handler's keys of the same kind.                          *)
LEMMA SetKinds ==
  ASSUME IInv, Quiet,
         \/ SetWifi \/ SetEnable \/ SetAuto
         \/ \E n \in 1..7 : SetOther(n)
         \/ \E c \in Creds \cup {None} : Set([cfg EXCEPT !.wifi = c], <<"wifi", "wifi">>)
         \/ Set([cfg EXCEPT !.enable = TRUE, !.auto = FALSE], <<"http.enable", "other">>)
  PROVE  IInv'
<1>0. cfg \in Config
  BY DEF IInv, TypeOK
<1>1. CASE SetWifi
  <2>1. PICK c \in Creds \cup {None} : Set([cfg EXCEPT !.wifi = c], <<"wifi">>)
    BY <1>1 DEF SetWifi
  <2>2. <<"wifi">> \in Seq(Topics) /\ "wifi" \in Seen(<<"wifi">>)
    BY DEF Topics, Seen
  <2>3. [cfg EXCEPT !.wifi = c] \in Config /\ [cfg EXCEPT !.wifi = c].enable = cfg.enable
    BY <1>0 DEF Config
  <2> QED BY <2>1, <2>2, <2>3, SetStep
<1>2. CASE SetEnable
  <2>1. PICK v \in BOOLEAN : Set([cfg EXCEPT !.enable = v], <<"http.enable">>)
    BY <1>2 DEF SetEnable
  <2>2. <<"http.enable">> \in Seq(Topics) /\ "http.enable" \in Seen(<<"http.enable">>)
    BY DEF Topics, Seen
  <2>3. [cfg EXCEPT !.enable = v] \in Config /\ [cfg EXCEPT !.enable = v].wifi = cfg.wifi
    BY <1>0 DEF Config
  <2> QED BY <2>1, <2>2, <2>3, SetStep
<1>3. CASE SetAuto
  <2>1. PICK v \in BOOLEAN : Set([cfg EXCEPT !.auto = v], <<"other">>)
    BY <1>3 DEF SetAuto
  <2>2. <<"other">> \in Seq(Topics)
    BY DEF Topics
  <2>3. /\ [cfg EXCEPT !.auto = v] \in Config
        /\ [cfg EXCEPT !.auto = v].wifi = cfg.wifi
        /\ [cfg EXCEPT !.auto = v].enable = cfg.enable
    BY <1>0 DEF Config
  <2> QED BY <2>1, <2>2, <2>3, SetStep
<1>4. CASE \E n \in 1..7 : SetOther(n)
  <2>1. PICK n \in 1..7 : Set(cfg, [i \in 1..n |-> "other"])
    BY <1>4 DEF SetOther
  <2>2. [i \in 1..n |-> "other"] \in [1..n -> Topics] /\ n \in Nat
    BY DEF Topics
  <2>3. [i \in 1..n |-> "other"] \in Seq(Topics)
    BY <2>2, ArrayIsSeq
  <2> QED BY <1>0, <2>1, <2>3, SetStep
<1>5. CASE \E c \in Creds \cup {None} : Set([cfg EXCEPT !.wifi = c], <<"wifi", "wifi">>)
  <2>1. PICK c \in Creds \cup {None} : Set([cfg EXCEPT !.wifi = c], <<"wifi", "wifi">>)
    BY <1>5
  <2>2. <<"wifi", "wifi">> \in Seq(Topics) /\ "wifi" \in Seen(<<"wifi", "wifi">>)
    BY DEF Topics, Seen
  <2>3. [cfg EXCEPT !.wifi = c] \in Config /\ [cfg EXCEPT !.wifi = c].enable = cfg.enable
    BY <1>0 DEF Config
  <2> QED BY <2>1, <2>2, <2>3, SetStep
<1>6. CASE Set([cfg EXCEPT !.enable = TRUE, !.auto = FALSE], <<"http.enable", "other">>)
  <2> DEFINE c == [cfg EXCEPT !.enable = TRUE, !.auto = FALSE]
  <2>1. <<"http.enable", "other">> \in Seq(Topics)
    BY DEF Topics
  <2>2. "http.enable" \in Seen(<<"http.enable", "other">>)
    <3>1. 1 \in DOMAIN <<"http.enable", "other">> /\ <<"http.enable", "other">>[1] = "http.enable"
      OBVIOUS
    <3> QED BY <3>1 DEF Seen
  <2>3. c \in Config /\ c.wifi = cfg.wifi
    BY <1>0 DEF Config
  <2> HIDE DEF c
  <2> QED BY <1>6, <2>1, <2>2, <2>3, SetStep DEF c
<1> QED BY <1>1, <1>2, <1>3, <1>4, <1>5, <1>6

LEMMA EraseStep ==
  ASSUME IInv, EraseAll, Quiet
  PROVE  IInv'
<1> USE DEF IInv, EraseAll
<1>1. UNCHANGED <<wphase, cur, assoc, up, hrun, hkick, acc, free, conn, serving, ssdp>>
  BY DEF Quiet, wifiVars, httpVars
<1>2. TypeOK'
  BY <1>1 DEF TypeOK, Default, Config
<1>3. BufferUnique'
  BY <1>1, BufferKept
<1>4. TellInv'
  BY <1>1 DEF TellInv, RunningAndIdle, OffTold, OnTold, CredsTold, Default
<1> QED BY <1>2, <1>3, <1>4

LEMMA CommandsStep ==
  ASSUME IInv, Commands
  PROVE  IInv'
<1>1. 1 \in 1..7 /\ 5 \in 1..7 /\ 7 \in 1..7 /\ 1..5 \subseteq 1..7
  OBVIOUS
<1>2. CASE CmdSet \/ CmdWifi \/ CmdHttp \/ CmdMqtt \/ CmdTunnel
  BY <1>1, <1>2, SetKinds DEF CmdSet, CmdWifi, CmdHttp, CmdMqtt, CmdTunnel
<1>3. CASE HConfigSet \/ HMqttConfig \/ HMqttClear \/ HTunnel \/ TunnelClear \/ HHttpConfig
  BY <1>1, <1>3, SetKinds
     DEF HConfigSet, HMqttConfig, HMqttClear, HTunnel, TunnelClear, HHttpConfig
<1>4. CASE HWifiConfig \/ HHttpClear \/ mqtt_exec
  BY <1>4, SetKinds DEF HWifiConfig, HHttpClear, mqtt_exec
<1>5. CASE CmdNvs \/ HNvsClear
  BY <1>5, EraseStep DEF CmdNvs, HNvsClear
<1>6. CASE CmdRst
  BY <1>6, BootInv DEF CmdRst, IInv, TypeOK
<1> QED BY <1>2, <1>3, <1>4, <1>5, <1>6 DEF Commands

-----------------------------------------------------------------------------
(* The Wi-Fi watchdog.                                                     *)

(* The head of its loop leaves it waiting, or joining with the credentials *)
(* just read.                                                              *)
LEMMA WifiTopFacts ==
  ASSUME TypeOK, WifiTop, cfg' = cfg
  PROVE  /\ wphase' \in {"wait", "joining"} /\ cur' \in Creds \cup {None} /\ assoc' \in BOOLEAN
         /\ CredsTold'
  BY DEF TypeOK, Config, WifiTop, CredsTold

LEMMA HttpTellKept ==
  ASSUME TellInv, UNCHANGED <<cfg, dropped, erased, hrun, hkick, acc>>,
         \A a \in Acceptors : unread'[a] = unread[a]
  PROVE  RunningAndIdle' /\ OffTold' /\ OnTold'
  BY DEF TellInv, RunningAndIdle, OffTold, OnTold, Seen

LEMMA WifiStep ==
  ASSUME IInv, WifiTask \/ ApLost
  PROVE  IInv'
<1> USE DEF IInv
<1>0. /\ "wifi" \in Subs /\ Acceptors \subseteq Subs \ {"wifi"}
  BY EspNodeAssumption DEF Subs
<1>1. UNCHANGED <<cfg, dropped, erased, sets, httpVars, ssdp>>
  BY DEF WifiTask, ApLost, WifiTimeout, WifiMsg, WifiJoin, WifiDhcp, WifiPollLink,
         WifiPollMsg, Read, cfgVars
<1>2. \/ unread' = unread
      \/ unread["wifi"] # <<>> /\ Read("wifi")
  BY DEF WifiTask, ApLost, WifiTimeout, WifiMsg, WifiJoin, WifiDhcp, WifiPollLink,
         WifiPollMsg, cfgVars
<1>3. /\ unread' \in [Subs -> Seq(Topics)] /\ \A t \in Subs : Len(unread'[t]) <= CAP
      /\ \A t \in Subs \ {"wifi"} : unread'[t] = unread[t]
  BY <1>0, <1>2, ReadFacts DEF TypeOK
<1>4. /\ wphase' \in {"wait", "joining", "dhcp", "poll"} /\ cur' \in Creds \cup {None}
      /\ up' \in BOOLEAN /\ assoc' \in BOOLEAN /\ CredsTold'
  <2>1. CASE ApLost
    BY <2>1 DEF ApLost, TypeOK, TellInv, CredsTold, cfgVars, Seen
  <2>2. CASE WifiTimeout \/ WifiMsg
    BY <1>1, <2>2, WifiTopFacts DEF WifiTimeout, WifiMsg, TypeOK
  <2>3. CASE \E ok \in BOOLEAN : WifiJoin(ok)
    BY <2>3 DEF WifiJoin, TypeOK, TellInv, CredsTold, cfgVars, Seen
  <2>4. CASE WifiDhcp
    BY <2>4 DEF WifiDhcp, TypeOK, TellInv, CredsTold, cfgVars, Seen
  <2>5. CASE WifiPollLink
    BY <1>1, <2>5, WifiTopFacts DEF WifiPollLink, TypeOK
  <2>6. CASE WifiPollMsg
    <3>1. CASE Key("wifi") = "wifi" \/ ~assoc
      BY <1>1, <2>6, <3>1, WifiTopFacts DEF WifiPollMsg, TypeOK
    <3>2. CASE Key("wifi") # "wifi" /\ assoc
      <4>1. UNCHANGED wifiVars /\ unread["wifi"] # <<>> /\ Read("wifi")
        BY <2>6, <3>2 DEF WifiPollMsg
      <4>2. Seen(unread["wifi"]) \subseteq Seen(unread'["wifi"]) \cup {Key("wifi")}
        BY <1>0, <4>1, ReadFacts
      <4> QED BY <1>1, <3>2, <4>1, <4>2 DEF wifiVars, TypeOK, TellInv, CredsTold
    <3> QED BY <3>1, <3>2
  <2> QED BY <2>1, <2>2, <2>3, <2>4, <2>5, <2>6 DEF WifiTask
<1>5. TypeOK'
  BY <1>1, <1>3, <1>4 DEF TypeOK, httpVars
<1>6. BufferUnique'
  BY <1>1, BufferKept DEF httpVars
<1>7. RunningAndIdle' /\ OffTold' /\ OnTold'
  <2>1. \A a \in Acceptors : unread'[a] = unread[a]
    BY <1>0, <1>3
  <2> QED BY <1>1, <2>1, HttpTellKept DEF httpVars
<1> QED BY <1>4, <1>5, <1>6, <1>7 DEF TellInv

(* SSDP opens, times, keeps or closes its socket.                          *)
LEMMA SsdpStep ==
  ASSUME IInv, Ssdp \/ Datagram
  PROVE  IInv'
<1> USE DEF IInv, Ssdp, SsdpOpen, SsdpTimer, SsdpCheck, Datagram
<1>1. TypeOK'
  BY DEF TypeOK, cfgVars, wifiVars, httpVars
<1>2. BufferUnique'
  BY BufferKept DEF httpVars
<1>3. RunningAndIdle' /\ OffTold' /\ OnTold'
  BY HttpTellKept DEF cfgVars, httpVars
<1>4. CredsTold'
  BY DEF TellInv, CredsTold, cfgVars, wifiVars, Seen
<1> QED BY <1>1, <1>2, <1>3, <1>4 DEF TellInv

(* Another subscriber reads: the services here lose no message.            *)
LEMMA OtherReadsStep ==
  ASSUME IInv, NEW s \in Others, OtherReads(s)
  PROVE  IInv'
<1> USE DEF IInv, OtherReads
<1>0. s \in Subs /\ Acceptors \cup {"wifi"} \subseteq Subs \ {s}
  BY EspNodeAssumption DEF Subs
<1>1. UNCHANGED <<cfg, dropped, erased, sets, wifiVars, httpVars, ssdp>>
  BY DEF Read
<1>2. /\ unread' \in [Subs -> Seq(Topics)] /\ \A t \in Subs : Len(unread'[t]) <= CAP
      /\ \A t \in Acceptors \cup {"wifi"} : unread'[t] = unread[t]
  BY <1>0, ReadFacts
<1>3. TypeOK'
  BY <1>1, <1>2 DEF TypeOK, wifiVars, httpVars
<1>4. BufferUnique'
  BY <1>1, BufferKept DEF httpVars
<1>5. RunningAndIdle' /\ OffTold' /\ OnTold'
  BY <1>1, <1>2, HttpTellKept DEF httpVars
<1>6. CredsTold'
  BY <1>1, <1>2 DEF TellInv, CredsTold, wifiVars
<1> QED BY <1>3, <1>4, <1>5, <1>6 DEF TellInv

-----------------------------------------------------------------------------
(* The HTTP service.                                                       *)

(* An acceptor that lets go of its buffer without handing it on.           *)
LEMMA BufferDropped ==
  ASSUME BufferUnique, UNCHANGED <<free, conn, serving>>,
         \A b \in Acceptors : Listening(b)' => Listening(b) /\ acc'[b] = acc[b]
  PROVE  BufferUnique'
<1>1. \A b, c \in Acceptors : Listening(b)' /\ acc'[b] = acc'[c] => b = c
  BY DEF BufferUnique, Listening
<1>2. {acc'[b] : b \in {c \in Acceptors : Listening(c)'}}
        \subseteq {acc[b] : b \in {c \in Acceptors : Listening(c)}}
  OBVIOUS
<1>3. Seen(conn)' = Seen(conn)
  BY DEF Seen
<1> QED BY <1>1, <1>2, <1>3 DEF BufferUnique

(* A suspended acceptor is woken.                                          *)
LEMMA AccIdleStep ==
  ASSUME IInv, NEW a \in Acceptors, AccIdle(a)
  PROVE  IInv'
<1> USE DEF IInv, AccIdle
<1>0. a \in Subs /\ "wifi" \in Subs \ {a} /\ Acceptors \subseteq Subs
  BY EspNodeAssumption DEF Subs
<1>1. UNCHANGED <<cfg, dropped, erased, sets, free, conn, serving, wifiVars, ssdp>>
  BY DEF Read, cfgVars
<1>2. /\ unread' \in [Subs -> Seq(Topics)] /\ \A t \in Subs : Len(unread'[t]) <= CAP
      /\ \A t \in Subs \ {a} : unread'[t] = unread[t]
  BY <1>0, ReadFacts DEF TypeOK, cfgVars
<1>3. /\ hrun' \in BOOLEAN /\ hkick' \in BOOLEAN
      /\ IF cfg.enable THEN hrun' ELSE ~hkick' /\ hrun' = hrun
      /\ acc' = [acc EXCEPT ![a] = IF hrun' THEN "wait" ELSE "idle"]
  BY DEF SetRunning, AccTop, TypeOK
<1>4. /\ acc' \in [Acceptors -> Bufs \cup {"idle", "wait"}]
      /\ acc'[a] = IF hrun' THEN "wait" ELSE "idle"
      /\ \A b \in Acceptors \ {a} : acc'[b] = acc[b]
  BY <1>3 DEF TypeOK
<1>5. TypeOK'
  BY <1>1, <1>2, <1>3, <1>4 DEF TypeOK, wifiVars
<1>6. BufferUnique'
  <2>1. \A b \in Acceptors : Listening(b)' => b # a /\ Listening(b) /\ acc'[b] = acc[b]
    BY <1>4, EspNodeAssumption DEF Listening
  <2> QED BY <1>1, <2>1, BufferDropped
<1>7. RunningAndIdle'
  BY <1>3, <1>4 DEF TellInv, RunningAndIdle
<1>8. OffTold'
  <2> SUFFICES ASSUME hrun', ~cfg.enable, "http.enable" \notin dropped, ~erased
               PROVE  \E b \in Acceptors : acc'[b] # "idle" /\ "http.enable" \in Seen(unread'[b])
    BY <1>1 DEF OffTold
  <2>1. hrun
    BY <1>3
  <2>2. PICK b \in Acceptors : acc[b] # "idle" /\ "http.enable" \in Seen(unread[b])
    BY <2>1 DEF TellInv, OffTold
  <2> QED BY <1>0, <1>2, <1>4, <2>2
<1>9. OnTold'
  BY <1>1, <1>3 DEF OnTold
<1>10. CredsTold'
  BY <1>0, <1>1, <1>2 DEF TellInv, CredsTold, wifiVars
<1> QED BY <1>5, <1>6, <1>7, <1>8, <1>9, <1>10 DEF TellInv

(* Handlers that leave keys and messages alone.                            *)
LEMMA CfgKept ==
  ASSUME TellInv, UNCHANGED <<cfgVars, wifiVars>>
  PROVE  CredsTold'
  BY DEF TellInv, CredsTold, cfgVars, wifiVars, Seen

(* accept_one takes a buffer out of the pool.                              *)
LEMMA AccTakeStep ==
  ASSUME IInv, NEW a \in Acceptors, AccTake(a)
  PROVE  IInv'
<1> USE DEF IInv, AccTake
<1>1. PICK i \in free : acc' = [acc EXCEPT ![a] = i] /\ free' = free \ {i}
  OBVIOUS
<1>2. i \in Bufs /\ i # "idle" /\ i # None
  BY EspNodeAssumption DEF TypeOK
<1>3. acc'[a] = i /\ \A b \in Acceptors \ {a} : acc'[b] = acc[b]
  BY <1>1 DEF TypeOK
<1>4. TypeOK'
  BY <1>1, <1>2 DEF TypeOK, cfgVars, wifiVars
<1>5. BufferUnique'
  <2>1. \A b \in Acceptors \ {a} : (Listening(b)' <=> Listening(b)) /\ acc'[b] = acc[b]
    BY <1>3 DEF Listening
  <2>2. \A b \in Acceptors : Listening(b) => acc[b] # i
    BY DEF BufferUnique
  <2>3. i \notin Seen(conn) /\ i # serving
    BY DEF BufferUnique
  <2>4. \A b, c \in Acceptors : Listening(b)' /\ acc'[b] = acc'[c] => b = c
    BY <1>2, <1>3, <2>1, <2>2 DEF BufferUnique, Listening
  <2>5. Seen(conn)' = Seen(conn)
    BY DEF Seen
  <2> QED BY <1>1, <1>3, <2>1, <2>3, <2>4, <2>5 DEF BufferUnique
<1>6. RunningAndIdle' /\ OffTold' /\ OnTold'
  BY <1>2, <1>3 DEF TellInv, RunningAndIdle, OffTold, OnTold, cfgVars, Seen
<1>7. CredsTold'
  BY CfgKept
<1> QED BY <1>4, <1>5, <1>6, <1>7 DEF TellInv

(* A connection comes in or the accept fails: the acceptor looks at STATE  *)
(* again.                                                                  *)
LEMMA AccTopKeepsTell ==
  ASSUME IInv, NEW a \in Acceptors, acc[a] # "idle", AccTop(a),
         UNCHANGED <<cfgVars, wifiVars, hrun, hkick>>
  PROVE  TellInv'
<1>1. acc'[a] = (IF hrun THEN "wait" ELSE "idle") /\ \A b \in Acceptors \ {a} : acc'[b] = acc[b]
  BY DEF IInv, TypeOK, AccTop
<1>2. RunningAndIdle'
  BY <1>1 DEF IInv, TellInv, RunningAndIdle
<1>3. OffTold'
  BY <1>1 DEF IInv, TellInv, OffTold, cfgVars, Seen
<1>4. OnTold'
  BY <1>1 DEF IInv, TellInv, OnTold, cfgVars
<1>5. CredsTold'
  BY CfgKept DEF IInv
<1> QED BY <1>2, <1>3, <1>4, <1>5 DEF TellInv

LEMMA AccConnStep ==
  ASSUME IInv, NEW a \in Acceptors, AccConn(a)
  PROVE  IInv'
<1> USE DEF AccConn
<1>0. acc[a] \in Bufs /\ acc[a] # "idle" /\ conn \in Seq(Bufs) /\ (hrun' <=> hrun)
  BY EspNodeAssumption DEF Listening, IInv, TypeOK
<1>1. TellInv'
  BY <1>0, AccTopKeepsTell
<1>2. acc' = [acc EXCEPT ![a] = IF hrun THEN "wait" ELSE "idle"]
  BY <1>0 DEF AccTop
<1>3. /\ acc' \in [Acceptors -> Bufs \cup {"idle", "wait"}]
      /\ acc'[a] \notin Bufs /\ \A b \in Acceptors \ {a} : acc'[b] = acc[b]
  BY <1>2, EspNodeAssumption DEF IInv, TypeOK
<1>4. /\ conn' \in Seq(Bufs) /\ Len(conn') = Len(conn) + 1 /\ Len(conn) \in Nat
      /\ \A i \in 1..Len(conn) : conn'[i] = conn[i]
      /\ conn'[Len(conn) + 1] = acc[a]
  BY <1>0, AppendProperties
<1>5. TypeOK'
  BY <1>3, <1>4 DEF IInv, TypeOK, cfgVars, wifiVars
<1>6. BufferUnique'
  <2>1. DOMAIN conn = 1..Len(conn) /\ DOMAIN conn' = 1..Len(conn) \cup {Len(conn) + 1}
    BY <1>0, <1>4
  <2>2. Seen(conn') = Seen(conn) \cup {acc[a]}
    BY <1>4, <2>1 DEF Seen
  <2>3. \A b \in Acceptors : Listening(b)' => b # a /\ Listening(b) /\ acc'[b] = acc[b]
    BY <1>3 DEF Listening
  <2>4. \A b, c \in Acceptors : Listening(b)' /\ acc'[b] = acc'[c] => b = c
    BY <1>3, <2>3 DEF IInv, BufferUnique, Listening
  <2>5. acc[a] \notin free \cup Seen(conn) \cup {serving}
    BY DEF IInv, BufferUnique
  <2>6. \A i, j \in DOMAIN conn' : conn'[i] = conn'[j] => i = j
    <3>1. \A i \in 1..Len(conn) : conn[i] # acc[a]
      BY <2>1, <2>5 DEF Seen
    <3>2. \A i, j \in 1..Len(conn) : conn[i] = conn[j] => i = j
      BY <2>1 DEF IInv, BufferUnique
    <3> QED BY <1>4, <2>1, <3>1, <3>2
  <2>7. \A b \in Acceptors : Listening(b)' => acc'[b] # acc[a]
    BY <2>3 DEF IInv, BufferUnique
  <2> DEFINE held == {acc[b] : b \in {c \in Acceptors : Listening(c)}}
             held1 == {acc'[b] : b \in {c \in Acceptors : Listening(c)'}}
  <2>8. held1 \subseteq held /\ acc[a] \notin held1
    BY <2>3, <2>7
  <2>9. /\ free \cap (Seen(conn) \cup held \cup {serving}) = {}
        /\ Seen(conn) \cap (held \cup {serving}) = {} /\ serving \notin held
    BY DEF IInv, BufferUnique
  <2>10. /\ free \cap (Seen(conn') \cup held1 \cup {serving}) = {}
         /\ Seen(conn') \cap (held1 \cup {serving}) = {} /\ serving \notin held1
    <3> HIDE DEF held, held1
    <3> QED BY <2>2, <2>5, <2>8, <2>9
  <2>11. free' = free /\ serving' = serving
    OBVIOUS
  <2> QED BY <2>4, <2>6, <2>10, <2>11 DEF BufferUnique
<1> QED BY <1>1, <1>5, <1>6 DEF IInv

LEMMA AccErrStep ==
  ASSUME IInv, NEW a \in Acceptors, AccErr(a)
  PROVE  IInv'
<1> USE DEF AccErr
<1>0. acc[a] \in Bufs /\ acc[a] # "idle" /\ (hrun' <=> hrun)
  BY EspNodeAssumption DEF Listening, IInv, TypeOK
<1>1. TellInv'
  BY <1>0, AccTopKeepsTell
<1>2. acc' = [acc EXCEPT ![a] = IF hrun THEN "wait" ELSE "idle"]
  BY <1>0 DEF AccTop
<1>3. /\ acc' \in [Acceptors -> Bufs \cup {"idle", "wait"}]
      /\ acc'[a] \notin Bufs /\ \A b \in Acceptors \ {a} : acc'[b] = acc[b]
  BY <1>2, EspNodeAssumption DEF IInv, TypeOK
<1>4. TypeOK'
  BY <1>0, <1>3 DEF IInv, TypeOK, cfgVars, wifiVars
<1>5. BufferUnique'
  <2>1. \A b \in Acceptors : Listening(b)' => b # a /\ Listening(b) /\ acc'[b] = acc[b]
    BY <1>3 DEF Listening
  <2>2. \A b, c \in Acceptors : Listening(b)' /\ acc'[b] = acc'[c] => b = c
    BY <1>3, <2>1 DEF IInv, BufferUnique, Listening
  <2>3. acc[a] \notin Seen(conn) \cup {serving}
    BY DEF IInv, BufferUnique
  <2>4. \A b \in Acceptors : Listening(b)' => acc'[b] # acc[a]
    BY <2>1 DEF IInv, BufferUnique
  <2>5. Seen(conn)' = Seen(conn)
    BY DEF Seen
  <2> DEFINE held == {acc[b] : b \in {c \in Acceptors : Listening(c)}}
             held1 == {acc'[b] : b \in {c \in Acceptors : Listening(c)'}}
  <2>6. held1 \subseteq held /\ acc[a] \notin held1
    BY <2>1, <2>4
  <2>7. /\ free \cap (Seen(conn) \cup held \cup {serving}) = {}
        /\ Seen(conn) \cap (held \cup {serving}) = {} /\ serving \notin held
    BY DEF IInv, BufferUnique
  <2>8. /\ free' \cap (Seen(conn) \cup held1 \cup {serving}) = {}
        /\ Seen(conn) \cap (held1 \cup {serving}) = {} /\ serving \notin held1
    <3> HIDE DEF held, held1
    <3> QED BY <2>3, <2>6, <2>7
  <2>9. \A i, j \in DOMAIN conn : conn[i] = conn[j] => i = j
    BY DEF IInv, BufferUnique
  <2> QED BY <2>2, <2>5, <2>8, <2>9 DEF BufferUnique
<1> QED BY <1>1, <1>4, <1>5 DEF IInv

(* KICK is taken by an acceptor that runs.                                 *)
LEMMA AccKickStep ==
  ASSUME IInv, NEW a \in Acceptors, AccKick(a)
  PROVE  IInv'
<1> USE DEF AccKick
<1>1. /\ acc' \in [Acceptors -> Bufs \cup {"idle", "wait"}]
      /\ \A b \in Acceptors : acc'[b] = acc[b] \/ (b = a /\ ~hrun /\ acc'[b] = "idle")
  BY DEF IInv, TypeOK
<1>2. TypeOK'
  BY <1>1 DEF IInv, TypeOK, cfgVars, wifiVars
<1>3. BufferUnique'
  <2>1. \A b \in Acceptors : Listening(b)' => Listening(b) /\ acc'[b] = acc[b]
    BY <1>1, EspNodeAssumption DEF Listening
  <2> QED BY <2>1, BufferDropped DEF IInv
<1>4. RunningAndIdle' /\ OffTold' /\ OnTold'
  BY <1>1 DEF IInv, TellInv, RunningAndIdle, OffTold, OnTold, cfgVars, Seen
<1>5. CredsTold'
  BY CfgKept DEF IInv
<1> QED BY <1>2, <1>3, <1>4, <1>5 DEF IInv, TellInv

(* A message reaches an acceptor that runs.                                *)
LEMMA AccMsgStep ==
  ASSUME IInv, NEW a \in Acceptors, AccMsg(a)
  PROVE  IInv'
<1> USE DEF AccMsg
<1>0. a \in Subs /\ "wifi" \in Subs \ {a} /\ Acceptors \subseteq Subs
  BY EspNodeAssumption DEF Subs
<1>1. UNCHANGED <<cfg, dropped, erased, sets, free, conn, serving, wifiVars, ssdp>>
  BY DEF Read
<1>2. /\ unread' \in [Subs -> Seq(Topics)] /\ \A t \in Subs : Len(unread'[t]) <= CAP
      /\ \A t \in Subs \ {a} : unread'[t] = unread[t]
      /\ Seen(unread[a]) \subseteq Seen(unread'[a]) \cup {Key(a)}
  BY <1>0, ReadFacts DEF IInv
<1>3. \/ /\ Key(a) = "http.enable" /\ ~cfg.enable /\ ~hrun' /\ hkick'
         /\ acc' = [acc EXCEPT ![a] = "idle"]
      \/ /\ ~(Key(a) = "http.enable" /\ ~cfg.enable)
         /\ (hrun' <=> hrun) /\ (hkick' <=> hkick) /\ acc' = acc
  BY DEF SetRunning
<1>4. /\ acc' \in [Acceptors -> Bufs \cup {"idle", "wait"}]
      /\ \A b \in Acceptors : acc'[b] = acc[b] \/ (b = a /\ ~hrun' /\ acc'[b] = "idle")
  BY <1>3 DEF IInv, TypeOK
<1>5. TypeOK'
  <2>1. hrun' \in BOOLEAN /\ hkick' \in BOOLEAN
    BY DEF SetRunning, IInv, TypeOK
  <2> QED BY <1>1, <1>2, <1>4, <2>1 DEF IInv, TypeOK, wifiVars
<1>6. BufferUnique'
  <2>1. \A b \in Acceptors : Listening(b)' => Listening(b) /\ acc'[b] = acc[b]
    BY <1>4, EspNodeAssumption DEF Listening
  <2> QED BY <1>1, <2>1, BufferDropped DEF IInv
<1>7. RunningAndIdle'
  BY <1>3 DEF IInv, TellInv, RunningAndIdle, TypeOK
<1>8. OffTold'
  <2> SUFFICES ASSUME hrun', ~cfg.enable, "http.enable" \notin dropped, ~erased
               PROVE  \E b \in Acceptors : acc'[b] # "idle" /\ "http.enable" \in Seen(unread'[b])
    BY <1>1 DEF OffTold
  <2>1. hrun /\ acc' = acc /\ Key(a) # "http.enable"
    BY <1>3
  <2>2. PICK b \in Acceptors : acc[b] # "idle" /\ "http.enable" \in Seen(unread[b])
    BY <2>1 DEF IInv, TellInv, OffTold
  <2> QED BY <1>0, <1>2, <2>1, <2>2
<1>9. OnTold'
  <2> SUFFICES ASSUME ~hrun', cfg.enable, "http.enable" \notin dropped
               PROVE  \E b \in Acceptors : acc'[b] = "idle" /\ unread'[b] # <<>>
    BY <1>1 DEF OnTold
  <2>1. ~hrun /\ ~hkick /\ acc' = acc
    BY <1>3
  <2>2. PICK b \in Acceptors : acc[b] = "idle" /\ unread[b] # <<>>
    BY <2>1 DEF IInv, TellInv, OnTold
  <2> QED BY <1>0, <1>2, <2>1, <2>2
<1>10. CredsTold'
  BY <1>0, <1>1, <1>2 DEF IInv, TellInv, CredsTold, wifiVars
<1> QED BY <1>5, <1>6, <1>7, <1>8, <1>9, <1>10 DEF IInv, TellInv

(* handler_task takes a connection, and gives its buffer back.             *)
LEMMA ServeStep ==
  ASSUME IInv, Serve
  PROVE  IInv'
<1> USE DEF Serve
<1>0. conn \in Seq(Bufs) /\ conn # <<>> /\ conn' = Tail(conn) /\ serving' = Head(conn)
  BY DEF IInv, TypeOK
<1>1. /\ Head(conn) \in Bufs /\ Tail(conn) \in Seq(Bufs) /\ Len(Tail(conn)) = Len(conn) - 1
      /\ Len(conn) \in Nat /\ Len(conn) # 0
      /\ \A i \in 1..Len(conn) - 1 : Tail(conn)[i] = conn[i + 1]
      /\ Seen(Tail(conn)) \subseteq Seen(conn)
  BY <1>0, SeenOfTail
<1>2. TypeOK'
  BY <1>0, <1>1 DEF IInv, TypeOK, cfgVars, wifiVars
<1>3. BufferUnique'
  <2>1. DOMAIN conn = 1..Len(conn) /\ DOMAIN conn' = 1..Len(conn) - 1 /\ Head(conn) = conn[1]
    BY <1>0, <1>1
  <2>2. \A i, j \in 1..Len(conn) : conn[i] = conn[j] => i = j
    BY <2>1 DEF IInv, BufferUnique
  <2>3. \A i \in 1..Len(conn) - 1 : conn'[i] = conn[i + 1] /\ i + 1 \in 1..Len(conn) /\ i + 1 # 1
    BY <1>0, <1>1
  <2>4. \A i, j \in DOMAIN conn' : conn'[i] = conn'[j] => i = j
    <3> SUFFICES ASSUME NEW i \in 1..Len(conn) - 1, NEW j \in 1..Len(conn) - 1, conn'[i] = conn'[j]
                 PROVE  i = j
      BY <2>1
    <3>1. i + 1 = j + 1
      BY <2>2, <2>3
    <3> QED BY <3>1, <1>1
  <2>5. Head(conn) \in Seen(conn) \ Seen(conn')
    <3>1. 1 \in 1..Len(conn)
      BY <1>1
    <3>2. conn[1] \in Seen(conn)
      BY <2>1, <3>1 DEF Seen
    <3>3. \A i \in 1..Len(conn) - 1 : conn'[i] # conn[1]
      BY <2>2, <2>3, <3>1
    <3> QED BY <2>1, <3>2, <3>3 DEF Seen
  <2>6. acc' = acc /\ free' = free /\ Seen(conn') \subseteq Seen(conn)
    BY <1>0, <1>1
  <2>7. \A b, c \in Acceptors : Listening(b)' /\ acc'[b] = acc'[c] => b = c
    BY <2>6 DEF IInv, BufferUnique, Listening
  <2> DEFINE held == {acc[b] : b \in {c \in Acceptors : Listening(c)}}
             held1 == {acc'[b] : b \in {c \in Acceptors : Listening(c)'}}
  <2>8. held1 = held
    BY <2>6 DEF Listening
  <2>9. /\ free \cap (Seen(conn) \cup held) = {} /\ Seen(conn) \cap held = {}
    BY DEF IInv, BufferUnique
  <2>10. /\ free' \cap (Seen(conn') \cup held1 \cup {serving'}) = {}
         /\ Seen(conn') \cap (held1 \cup {serving'}) = {} /\ serving' \notin held1
    <3> HIDE DEF held, held1
    <3> QED BY <1>0, <2>5, <2>6, <2>8, <2>9
  <2> QED BY <2>4, <2>7, <2>10 DEF BufferUnique
<1>4. TellInv'
  BY HttpTellKept, CfgKept DEF IInv, TellInv, cfgVars
<1> QED BY <1>2, <1>3, <1>4 DEF IInv

LEMMA ServedStep ==
  ASSUME IInv, Served
  PROVE  IInv'
<1> USE DEF Served
<1>1. TypeOK'
  BY DEF IInv, TypeOK, cfgVars, wifiVars
<1>2. BufferUnique'
  <2>1. None \notin Bufs /\ conn' = conn /\ acc' = acc
    BY EspNodeAssumption
  <2>2. Seen(conn') \subseteq Bufs
    BY DEF Seen, IInv, TypeOK
  <2> DEFINE held == {acc[b] : b \in {c \in Acceptors : Listening(c)}}
             held1 == {acc'[b] : b \in {c \in Acceptors : Listening(c)'}}
  <2>3. held1 = held /\ held \subseteq Bufs
    BY <2>1 DEF Listening
  <2>4. /\ free \cap (Seen(conn) \cup held \cup {serving}) = {}
        /\ Seen(conn) \cap (held \cup {serving}) = {} /\ serving \notin held
    BY DEF IInv, BufferUnique
  <2>5. /\ free' \cap (Seen(conn') \cup held1 \cup {serving'}) = {}
        /\ Seen(conn') \cap (held1 \cup {serving'}) = {} /\ serving' \notin held1
    <3>1. None \notin free' \cup Seen(conn') \cup held1
      BY <2>1, <2>2, <2>3 DEF IInv, TypeOK
    <3>2. Seen(conn') = Seen(conn)
      BY <2>1
    <3> HIDE DEF held, held1
    <3> QED BY <2>3, <2>4, <3>1, <3>2
  <2>6. \A b, c \in Acceptors : Listening(b)' /\ acc'[b] = acc'[c] => b = c
    BY <2>1 DEF IInv, BufferUnique, Listening
  <2>7. \A i, j \in DOMAIN conn' : conn'[i] = conn'[j] => i = j
    BY <2>1 DEF IInv, BufferUnique
  <2> QED BY <2>5, <2>6, <2>7 DEF BufferUnique
<1>3. TellInv'
  BY HttpTellKept, CfgKept DEF IInv, TellInv, cfgVars
<1> QED BY <1>1, <1>2, <1>3 DEF IInv

-----------------------------------------------------------------------------
(* Every step, and the theorems.                                           *)

LEMMA NextIInv ==
  ASSUME IInv, [Next]_vars
  PROVE  IInv'
<1>1. CASE WifiTask \/ ApLost
  BY <1>1, WifiStep
<1>2. CASE Ssdp \/ Datagram
  BY <1>2, SsdpStep
<1>3. CASE Serve \/ Served
  BY <1>3, ServeStep, ServedStep
<1>4. ASSUME NEW a \in Acceptors, AccTask(a) PROVE IInv'
  BY <1>4, AccIdleStep, AccTakeStep, AccKickStep, AccMsgStep DEF AccTask
<1>5. ASSUME NEW a \in Acceptors, AccConn(a) \/ AccErr(a) PROVE IInv'
  BY <1>5, AccConnStep, AccErrStep
<1>6. ASSUME NEW s \in Others, OtherReads(s) PROVE IInv'
  BY <1>6, OtherReadsStep
<1>7. CASE Commands
  BY <1>7, CommandsStep
<1>8. CASE UNCHANGED vars
  <2>1. TypeOK'
    BY <1>8 DEF IInv, TypeOK, vars, cfgVars, wifiVars, httpVars
  <2>2. BufferUnique'
    BY <1>8, BufferKept DEF IInv, vars, httpVars
  <2>3. RunningAndIdle' /\ OffTold' /\ OnTold'
    BY <1>8, HttpTellKept DEF IInv, vars, cfgVars, httpVars
  <2>4. CredsTold'
    BY <1>8, CfgKept DEF IInv, vars
  <2> QED BY <2>1, <2>2, <2>3, <2>4 DEF IInv, TellInv
<1> QED BY <1>1, <1>2, <1>3, <1>4, <1>5, <1>6, <1>7, <1>8 DEF Next, World

(* What the tasks of cfg.rs, wifi.rs and httpd.rs keep together: the types,*)
(* one owner per socket buffer, and a notification ahead of every service  *)
(* that acts on an old value.                                              *)
THEOREM IInvHolds == Spec => []IInv
<1> QED BY InitIInv, NextIInv, PTL DEF Spec

(* The registry, the queues of CHANGED, the watchdog and the acceptors     *)
(* stay in their ranges; no queue outgrows CAP (cfg.rs CHANGED).           *)
THEOREM TypeCorrect == Spec => []TypeOK
<1>1. IInv => TypeOK
  BY DEF IInv
<1> QED BY <1>1, IInvHolds, PTL

(* httpd.rs "no two live sockets can ever share a buffer".                 *)
THEOREM BufferUniqueHolds == Spec => []BufferUnique
<1>1. IInv => BufferUnique
  BY DEF IInv
<1> QED BY <1>1, IInvHolds, PTL

(* cfg.rs "services subscribe and re-read what they care about": a service *)
(* that acts on an old value has the notification of the new one ahead.    *)
THEOREM ServicesToldHolds == Spec => []ServicesTold
<1>1. IInv => ServicesTold
  <2> SUFFICES ASSUME IInv PROVE ServicesTold
    OBVIOUS
  <2>1. hrun /\ ~cfg.enable /\ "http.enable" \notin dropped /\ ~erased
          => \E a \in Acceptors : "http.enable" \in Seen(unread[a])
    BY DEF IInv, TellInv, OffTold
  <2>2. ~hrun /\ cfg.enable /\ "http.enable" \notin dropped
          => hkick \/ \E a \in Acceptors : unread[a] # <<>>
    BY DEF IInv, TellInv, OnTold
  <2>3. wphase = "poll" /\ cfg.wifi # cur /\ "wifi" \notin dropped /\ ~erased
          => "wifi" \in Seen(unread["wifi"])
    BY DEF IInv, TellInv, CredsTold
  <2> QED BY <2>1, <2>2, <2>3 DEF ServicesTold
<1> QED BY <1>1, IInvHolds, PTL
=============================================================================
