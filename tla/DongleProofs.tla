---------------------------- MODULE DongleProofs ----------------------------
(***************************************************************************)
(* Machine-checked invariants of Dongle, for any set of keyboards, any     *)
(* list, queue and retry limits.                                           *)
(***************************************************************************)
EXTENDS Dongle, SequenceTheorems, TLAPS

-----------------------------------------------------------------------------
(* The parts of TypeOK, by what a step touches.                            *)
Requests == {"disc", "write", "read"}

ListOK ==
  /\ dgl_scan_list \in Seq(Devs) /\ Len(dgl_scan_list) <= DGL_MAX_SCAN_RES
  /\ dgl_pend_scan \in BOOLEAN
  /\ dgl_pend_conn \in (1..DGL_MAX_SCAN_RES) \cup {None}
  /\ dgl_watch \in DevOrNone /\ want \in DevOrNone

AutoOK ==
  /\ dgl_auto \in BOOLEAN /\ dgl_auto_hold \in BOOLEAN
  /\ dgl_auto_fails \in 0..(DGL_AUTO_MAX_FAILS - 1)
  /\ attempts \in Nat

StackOK ==
  /\ dgl_state \in {"IDLE", "SCANNING", "CONNECTING", "CONNECTED", "ARMED", "AUTOCONN"}
  /\ dgl_conn_handle \in DevOrNone /\ bond \in DevOrNone /\ peer \in DevOrNone
  /\ gap \in {"idle", "scan", "init", "cancel", "up", "closing"}
  /\ evts \in SUBSET {"SVC_DISC", "AUTO", "LINK_TIMEOUT", "SCAN", "CONN"}
  /\ timers \in SUBSET {"SVC_DISC", "AUTO", "LINK_TIMEOUT"}

CharOK ==
  /\ dgl_disc_state \in {"IDLE", "SVC", "BOOT_CHAR", "PROTO_CHAR", "RPT_CHAR", "CCCD",
                         "BATT_SVC", "BATT_CHAR"}
  /\ dgl_disc_retries \in 0..DiscRetries
  /\ boot \in BOOLEAN /\ proto \in BOOLEAN
  /\ dgl_cccd_count \in 0..DGL_MAX_CCCD /\ dgl_cccd_wr \in 0..DGL_MAX_CCCD
  /\ dgl_proto_pending \in BOOLEAN /\ batt \in BOOLEAN /\ dgl_batt_reading \in BOOLEAN
  /\ enabled \in Nat

-----------------------------------------------------------------------------
(* The inductive invariant.                                                *)

(* Requests are outstanding only on a link. *)
LinkInv ==
  /\ LinkKnown
  /\ att # <<>> => dgl_state \in {"CONNECTED", "ARMED"}

(* An index travels with its event; while no scan rebuilds the list, what  *)
(* it points at, if anything, is the device that was named.                *)
NameInv ==
  /\ gap = "init" => dgl_state \in {"CONNECTING", "AUTOCONN"}
  /\ gap = "scan" => dgl_state = "SCANNING"
  /\ dgl_state = "CONNECTING" => "CONN" \notin evts
  /\ dgl_pend_conn # None => "CONN" \in evts
  /\ gap # "scan" /\ dgl_pend_conn \in DOMAIN dgl_scan_list
       => dgl_scan_list[dgl_pend_conn] = want
  /\ ConnectsToNamed

(* Every attempt that is over has been counted as a failed cycle, unless   *)
(* the count reached its limit and auto-reconnect is held.                 *)
FailInv ==
  /\ \/ attempts <= dgl_auto_fails
     \/ gap \notin {"idle", "scan"} /\ attempts <= dgl_auto_fails + 1
     \/ dgl_auto_hold /\ gap \in {"idle", "scan"} /\ attempts <= DGL_AUTO_MAX_FAILS
  /\ dgl_state = "ARMED" => attempts = 0

(* No request is outstanding where discovery may start; the CCCD queue is  *)
(* written in its own phase.                                               *)
GattInv ==
  /\ OneAttRequest
  /\ dgl_state = "CONNECTED" /\ dgl_disc_state = "IDLE" => att = <<>>
  /\ dgl_state # "ARMED" =>
       dgl_cccd_wr = 0 \/ (dgl_disc_state = "CCCD" /\ dgl_cccd_wr < dgl_cccd_count)
  /\ dgl_state = "ARMED" => dgl_disc_state \in {"IDLE", "BATT_SVC", "BATT_CHAR"}

IInv == TypeOK /\ LinkInv /\ NameInv /\ FailInv /\ GattInv

LEMMA TypeParts ==
  ASSUME TypeOK
  PROVE  ListOK /\ AutoOK /\ StackOK /\ CharOK /\ att \in Seq(Requests)
BY DEF TypeOK, ListOK, AutoOK, StackOK, CharOK, Requests

LEMMA TypePartsNext ==
  ASSUME ListOK', AutoOK', StackOK', CharOK', att' \in Seq(Requests)
  PROVE  TypeOK'
BY DEF TypeOK, ListOK, AutoOK, StackOK, CharOK, Requests

(* A step that leaves the list, the stack and the counters alone.          *)
LEMMA CoreKept ==
  ASSUME IInv,
         UNCHANGED <<dgl_state, dgl_conn_handle, bond, scanVars, autoVars, gapVars, attempts>>,
         evts' \in SUBSET {"SVC_DISC", "AUTO", "LINK_TIMEOUT", "SCAN", "CONN"},
         timers' \in SUBSET {"SVC_DISC", "AUTO", "LINK_TIMEOUT"},
         "CONN" \in evts' <=> "CONN" \in evts
  PROVE  ListOK' /\ AutoOK' /\ StackOK' /\ LinkKnown' /\ NameInv' /\ FailInv'
<1>1. ListOK /\ AutoOK /\ StackOK
  BY TypeParts DEF IInv
<1>2. /\ UNCHANGED <<dgl_state, dgl_conn_handle, bond, gap, peer, attempts>>
      /\ UNCHANGED <<dgl_scan_list, dgl_pend_scan, dgl_pend_conn, dgl_watch, want>>
      /\ UNCHANGED <<dgl_auto, dgl_auto_hold, dgl_auto_fails>>
  BY DEF scanVars, listVars, autoVars, gapVars
<1>3. ListOK'
  BY <1>1, <1>2 DEF ListOK
<1>4. AutoOK' /\ StackOK'
  BY <1>1, <1>2 DEF AutoOK, StackOK
<1>5. LinkKnown' /\ FailInv'
  BY <1>2 DEF IInv, LinkInv, LinkKnown, FailInv
<1>6. NameInv'
  BY <1>2 DEF IInv, NameInv, ConnectsToNamed
<1> QED BY <1>3, <1>4, <1>5, <1>6

-----------------------------------------------------------------------------
(* GATT.                                                                   *)
LEMMA NoRequest == <<>> \in Seq(Requests) /\ Len(<<>>) = 0
  BY EmptySeq

LEMMA Taken ==
  ASSUME IInv, att # <<>>
  PROVE  Tail(att) = <<>>
<1>1. att \in Seq(Requests) /\ Len(att) <= 1
  BY TypeParts DEF IInv, GattInv, OneAttRequest
<1>2. Len(att) # 0
  BY <1>1, EmptySeq
<1>3. Tail(att) \in Seq(Requests) /\ Len(Tail(att)) = Len(att) - 1
  BY <1>1, HeadTailProperties
<1>4. Len(Tail(att)) = 0
  BY <1>1, <1>2, <1>3
<1> QED BY <1>3, <1>4, EmptySeq

LEMMA OneAsked ==
  ASSUME NEW req \in Requests, NEW a, a = Append(<<>>, req)
  PROVE  a \in Seq(Requests) /\ Len(a) = 1
<1>1. <<>> \in Seq(Requests) /\ Len(<<>>) = 0
  BY NoRequest
<1> QED BY <1>1, AppendProperties

(* An answer: one request less, perhaps the next one.                      *)
LEMMA Answered ==
  ASSUME IInv, att # <<>>,
         att' = att \/ att' = Tail(att) \/ \E req \in Requests : Ask(req)
  PROVE  att' \in Seq(Requests) /\ OneAttRequest'
<1>1. att \in Seq(Requests) /\ Len(att) <= 1 /\ Tail(att) = <<>>
  BY TypeParts, Taken DEF IInv, GattInv, OneAttRequest
<1>2. CASE att' = att
  BY <1>1, <1>2 DEF OneAttRequest
<1>3. CASE att' = <<>>
  BY <1>3, NoRequest DEF OneAttRequest
<1>4. CASE \E req \in Requests : att' = Append(<<>>, req)
  BY <1>4, OneAsked DEF OneAttRequest
<1> QED BY <1>1, <1>2, <1>3, <1>4 DEF Ask

(* The messages of discovery, and the battery's value.                     *)
Disc(found, n) ==
  \/ SvcRsp(found) \/ BootCharRsp(found) \/ ProtoCharRsp(found) \/ RptCharRsp(found)
  \/ BattCharRsp(found) \/ CccdPacket(n) \/ CccdRsp(n) \/ InsufficientAuthen \/ BattSvcRsp
  \/ BattCharPacket \/ BattReadRsp

LEMMA DiscFrame ==
  ASSUME NEW found \in BOOLEAN, NEW n \in 0..DGL_MAX_CCCD, Disc(found, n)
  PROVE  /\ att # <<>>
         /\ UNCHANGED <<dgl_state, dgl_conn_handle, bond, scanVars, autoVars, evts, gapVars,
                        enabled, attempts>>
         /\ timers' = timers \/ timers' = timers \cup {"SVC_DISC"}
         /\ att' = att \/ att' = Tail(att) \/ \E req \in Requests : Ask(req)
         /\ dgl_disc_state' = "IDLE" /\ att' # Tail(att) => UNCHANGED <<att, dgl_disc_state>>
<1> USE DEF Requests
<1>1. CASE SvcRsp(found)
  BY <1>1 DEF SvcRsp, Answer, FindChar, DiscoveryFailed, DiscUnchanged, taskVars
<1>2. CASE BootCharRsp(found)
  BY <1>2 DEF BootCharRsp, Answer, FindChar, DiscUnchanged, taskVars
<1>3. CASE ProtoCharRsp(found)
  BY <1>3 DEF ProtoCharRsp, Answer, FindChar, DiscUnchanged, taskVars
<1>4. CASE RptCharRsp(found)
  BY <1>4 DEF RptCharRsp, Answer, FindChar, DiscoveryFailed, DiscUnchanged, taskVars
<1>5. CASE BattCharRsp(found)
  BY <1>5 DEF BattCharRsp, Answer, DiscUnchanged
<1>6. CASE CccdPacket(n)
  BY <1>6 DEF CccdPacket, Answer, DiscUnchanged
<1>7. CASE CccdRsp(n)
  BY <1>7 DEF CccdRsp, Answer, DiscoveryFailed, DiscUnchanged
<1>8. CASE InsufficientAuthen
  BY <1>8 DEF InsufficientAuthen, DiscUnchanged
<1>9. CASE BattSvcRsp
  BY <1>9 DEF BattSvcRsp, Answer, FindChar, DiscUnchanged, taskVars
<1>10. CASE BattCharPacket
  BY <1>10 DEF BattCharPacket, Answer, DiscUnchanged
<1>11. CASE BattReadRsp
  BY <1>11 DEF BattReadRsp, taskVars, charVars
<1> QED BY <1>1, <1>2, <1>3, <1>4, <1>5, <1>6, <1>7, <1>8, <1>9, <1>10, <1>11 DEF Disc

LEMMA DiscChars ==
  ASSUME IInv, NEW found \in BOOLEAN, NEW n \in 0..DGL_MAX_CCCD, Disc(found, n)
  PROVE  /\ CharOK'
         /\ dgl_state # "ARMED" =>
              dgl_cccd_wr' = 0 \/ (dgl_disc_state' = "CCCD" /\ dgl_cccd_wr' < dgl_cccd_count')
         /\ dgl_state = "ARMED" => dgl_disc_state' \in {"IDLE", "BATT_SVC", "BATT_CHAR"}
<1>1. CharOK /\ StackOK /\ DGL_MAX_CCCD \in Nat
  BY TypeParts, SizesAssumption DEF IInv
<1>2. /\ dgl_state # "ARMED" =>
           dgl_cccd_wr = 0 \/ (dgl_disc_state = "CCCD" /\ dgl_cccd_wr < dgl_cccd_count)
      /\ dgl_state = "ARMED" => dgl_disc_state \in {"IDLE", "BATT_SVC", "BATT_CHAR"}
  BY DEF IInv, GattInv
<1> USE <1>1, <1>2 DEF CharOK
<1>3. CASE SvcRsp(found)
  BY <1>3, SizesAssumption DEF SvcRsp, Answer, FindChar, DiscoveryFailed, DiscUnchanged
<1>4. CASE BootCharRsp(found)
  BY <1>4 DEF BootCharRsp, Answer, FindChar, DiscUnchanged
<1>5. CASE ProtoCharRsp(found)
  BY <1>5 DEF ProtoCharRsp, Answer, FindChar, DiscUnchanged
<1>6. CASE RptCharRsp(found)
  BY <1>6, SizesAssumption DEF RptCharRsp, Answer, FindChar, DiscoveryFailed, DiscUnchanged
<1>7. CASE BattCharRsp(found)
  BY <1>7 DEF BattCharRsp, Answer, DiscUnchanged
<1>8. CASE CccdPacket(n)
  BY <1>8 DEF CccdPacket, Answer, DiscUnchanged
<1>9. CASE CccdRsp(n)
  BY <1>9, SizesAssumption DEF CccdRsp, Answer, DiscoveryFailed, DiscUnchanged
<1>10. CASE InsufficientAuthen
  BY <1>10 DEF InsufficientAuthen, DiscUnchanged
<1>11. CASE BattSvcRsp
  BY <1>11 DEF BattSvcRsp, Answer, FindChar, DiscUnchanged
<1>12. CASE BattCharPacket
  BY <1>12 DEF BattCharPacket, Answer, DiscUnchanged
<1>13. CASE BattReadRsp
  BY <1>13 DEF BattReadRsp, charVars
<1> QED BY <1>3, <1>4, <1>5, <1>6, <1>7, <1>8, <1>9, <1>10, <1>11, <1>12, <1>13 DEF Disc

LEMMA DiscStep ==
  ASSUME IInv, NEW found \in BOOLEAN, NEW n \in 0..DGL_MAX_CCCD, Disc(found, n)
  PROVE  IInv'
<1>1. /\ att # <<>>
      /\ UNCHANGED <<dgl_state, dgl_conn_handle, bond, scanVars, autoVars, evts, gapVars,
                     enabled, attempts>>
      /\ timers' = timers \/ timers' = timers \cup {"SVC_DISC"}
      /\ att' = att \/ att' = Tail(att) \/ \E req \in Requests : Ask(req)
      /\ dgl_disc_state' = "IDLE" /\ att' # Tail(att) => UNCHANGED <<att, dgl_disc_state>>
  BY DiscFrame
<1>2. StackOK
  BY TypeParts DEF IInv
<1>3. ListOK' /\ AutoOK' /\ StackOK' /\ LinkKnown' /\ NameInv' /\ FailInv'
  BY <1>1, <1>2, CoreKept DEF StackOK
<1>4. att' \in Seq(Requests) /\ OneAttRequest'
  BY <1>1, Answered
<1>5. LinkInv'
  BY <1>1, <1>3 DEF IInv, LinkInv
<1>6. dgl_state' = "CONNECTED" /\ dgl_disc_state' = "IDLE" => att' = <<>>
  BY <1>1, Taken DEF IInv, GattInv
<1>7. CharOK' /\ GattInv'
  BY <1>1, <1>4, <1>6, DiscChars DEF GattInv
<1>8. TypeOK'
  BY <1>3, <1>4, <1>7, TypePartsNext
<1> QED BY <1>3, <1>5, <1>7, <1>8 DEF IInv

LEMMA WriteRspStep ==
  ASSUME IInv, NEW ok \in BOOLEAN, WriteRsp(ok)
  PROVE  IInv'
<1>1. ListOK /\ AutoOK /\ StackOK /\ CharOK
  BY TypeParts DEF IInv
<1>2. /\ att # <<>> /\ dgl_cccd_count > 0 /\ dgl_disc_state = "CCCD"
      /\ UNCHANGED <<dgl_conn_handle, bond, scanVars, dgl_auto, dgl_auto_hold, taskVars, gapVars,
                     dgl_disc_retries, boot, proto, dgl_cccd_count, batt, dgl_batt_reading>>
  BY DEF WriteRsp
<1>3. dgl_state = "CONNECTED"
  BY <1>2 DEF IInv, LinkInv, GattInv
<1>4. \/ /\ dgl_cccd_wr' < dgl_cccd_count
         /\ UNCHANGED <<dgl_state, dgl_disc_state, dgl_auto_fails, attempts>>
      \/ dgl_state' = "ARMED" /\ dgl_disc_state' = "BATT_SVC" /\ dgl_auto_fails' = 0
         /\ attempts' = 0
  BY DEF WriteRsp
<1>5. att' \in Seq(Requests) /\ OneAttRequest'
  BY <1>2, Answered DEF WriteRsp, Requests
<1>6. dgl_cccd_wr' \in 0..DGL_MAX_CCCD /\ dgl_proto_pending' \in BOOLEAN /\ enabled' \in Nat
  <2>1. dgl_cccd_wr' = dgl_cccd_wr \/ dgl_cccd_wr' = dgl_cccd_wr + 1
    BY DEF WriteRsp
  <2>2. dgl_cccd_wr < dgl_cccd_count
    BY <1>1, <1>2, <1>3 DEF IInv, GattInv, CharOK
  <2>3. dgl_cccd_wr' \in 0..DGL_MAX_CCCD
    BY <1>1, <2>1, <2>2, SizesAssumption DEF CharOK
  <2>4. dgl_proto_pending' = FALSE /\ (enabled' = enabled \/ enabled' = enabled + 1)
    BY DEF WriteRsp
  <2>5. enabled' \in Nat
    BY <1>1, <2>4 DEF CharOK
  <2>6. dgl_proto_pending' \in BOOLEAN
    BY <2>4
  <2> QED BY <2>3, <2>5, <2>6
<1>7. ListOK'
  BY <1>1, <1>2 DEF ListOK, scanVars, listVars
<1>8. AutoOK'
  BY <1>1, <1>2, <1>4, SizesAssumption DEF AutoOK
<1>9. StackOK'
  BY <1>1, <1>2, <1>4 DEF StackOK, gapVars, taskVars
<1>10. CharOK'
  BY <1>1, <1>2, <1>4, <1>6 DEF CharOK
<1>11. LinkInv'
  BY <1>2, <1>3, <1>4 DEF IInv, LinkInv, LinkKnown, gapVars
<1>12. NameInv'
  BY <1>2, <1>3, <1>4 DEF IInv, NameInv, ConnectsToNamed, gapVars, taskVars, scanVars, listVars
<1>13. FailInv'
  BY <1>1, <1>2, <1>3, <1>4 DEF IInv, FailInv, AutoOK, LinkInv, LinkKnown, gapVars
<1>14. GattInv'
  BY <1>2, <1>3, <1>4, <1>5 DEF GattInv
<1>15. TypeOK'
  BY <1>5, <1>7, <1>8, <1>9, <1>10, TypePartsNext
<1> QED BY <1>11, <1>12, <1>13, <1>14, <1>15 DEF IInv

(* A discovery starts only where nothing is outstanding.                   *)
LEMMA SvcDiscStep ==
  ASSUME IInv, SvcDiscEvt
  PROVE  IInv'
<1>1. StackOK /\ CharOK /\ att \in Seq(Requests)
  BY TypeParts DEF IInv
<1>2. /\ UNCHANGED <<dgl_state, dgl_conn_handle, bond, scanVars, autoVars, gapVars, dgl_cccd_count,
                     dgl_cccd_wr, dgl_proto_pending, batt, enabled, dgl_batt_reading, attempts>>
      /\ evts' = evts \ {"SVC_DISC"}
      /\ timers' = timers \/ timers' = timers \cup {"SVC_DISC"}
  BY DEF SvcDiscEvt, DiscoveryFailed
<1>3. ListOK' /\ AutoOK' /\ StackOK' /\ LinkKnown' /\ NameInv' /\ FailInv'
  BY <1>1, <1>2, CoreKept DEF StackOK
<1>4. CASE ~MayDiscover
  <2>1. UNCHANGED <<boot, proto, dgl_disc_state, att, dgl_disc_retries>>
    BY <1>4 DEF SvcDiscEvt
  <2>2. CharOK' /\ att' \in Seq(Requests)
    BY <1>1, <1>2, <2>1 DEF CharOK
  <2>3. LinkInv' /\ GattInv'
    BY <1>2, <1>3, <2>1 DEF IInv, LinkInv, GattInv, OneAttRequest
  <2> QED BY <1>3, <2>2, <2>3, TypePartsNext DEF IInv
<1>5. CASE MayDiscover
  <2>1. dgl_state = "CONNECTED" /\ att = <<>> /\ dgl_cccd_wr = 0
    BY <1>5 DEF MayDiscover, IInv, GattInv
  <2>2. /\ boot' = FALSE /\ proto' = FALSE
        /\ \/ dgl_disc_state' = "SVC" /\ att' = Append(<<>>, "disc") /\ UNCHANGED dgl_disc_retries
           \/ /\ dgl_disc_state' = "IDLE" /\ att' = <<>>
              /\ dgl_disc_retries' = dgl_disc_retries
                   \/ (dgl_disc_retries > 0 /\ dgl_disc_retries' = dgl_disc_retries - 1)
    BY <1>5, <2>1 DEF SvcDiscEvt, DiscoveryFailed
  <2>3. att' \in Seq(Requests) /\ Len(att') <= 1
    <3>1. CASE att' = <<>>
      BY <3>1, NoRequest
    <3>2. CASE att' = Append(<<>>, "disc")
      BY <3>2, OneAsked DEF Requests
    <3> QED BY <2>2, <3>1, <3>2
  <2>4. CharOK'
    <3>1. dgl_disc_retries' \in 0..DiscRetries
      BY <1>1, <2>2, SizesAssumption DEF CharOK
    <3>2. boot' \in BOOLEAN /\ proto' \in BOOLEAN
      BY <2>2
    <3>3. dgl_disc_state' \in {"IDLE", "SVC"}
      BY <2>2
    <3> QED BY <1>1, <1>2, <3>1, <3>2, <3>3 DEF CharOK
  <2>5. LinkInv'
    BY <1>2, <1>3, <2>1 DEF LinkInv
  <2>6. GattInv'
    BY <1>2, <2>1, <2>2, <2>3 DEF GattInv, OneAttRequest
  <2> QED BY <1>3, <2>3, <2>4, <2>5, <2>6, TypePartsNext DEF IInv
<1> QED BY <1>4, <1>5

-----------------------------------------------------------------------------
(* AT commands.  What only asks for something leaves the link alone.       *)

(* GATT is left alone by a step within a link or outside of one.           *)
LEMMA GattKept ==
  ASSUME IInv, UNCHANGED gattVars,
         dgl_state' = dgl_state \/ (dgl_state \notin {"CONNECTED", "ARMED"}
                                      /\ dgl_state' \notin {"CONNECTED", "ARMED"})
  PROVE  /\ CharOK' /\ att' \in Seq(Requests) /\ GattInv'
         /\ att' # <<>> => dgl_state' \in {"CONNECTED", "ARMED"}
<1>1. CharOK /\ att \in Seq(Requests)
  BY TypeParts DEF IInv
<1>2. UNCHANGED <<dgl_disc_state, dgl_disc_retries, boot, proto, dgl_cccd_count, dgl_cccd_wr,
                  dgl_proto_pending, batt, enabled, dgl_batt_reading, att>>
  BY DEF gattVars, charVars
<1>3. CharOK' /\ att' \in Seq(Requests)
  BY <1>1, <1>2 DEF CharOK
<1>4. att' # <<>> => dgl_state' \in {"CONNECTED", "ARMED"}
  BY <1>2 DEF IInv, LinkInv
<1>5. GattInv'
  BY <1>2 DEF IInv, GattInv, OneAttRequest
<1> QED BY <1>3, <1>4, <1>5

LEMMA ScanCmdStep ==
  ASSUME IInv, BtScan \/ \E d \in Devs : BtConnWatch(d)
  PROVE  IInv'
<1>1. ListOK /\ AutoOK /\ StackOK
  BY TypeParts DEF IInv
<1>2. /\ dgl_pend_scan' = TRUE /\ evts' = evts \cup {"SCAN"} /\ attempts' = 0
      /\ dgl_watch' = dgl_watch \/ dgl_watch' \in Devs
      /\ UNCHANGED <<dgl_state, dgl_conn_handle, bond, dgl_scan_list, dgl_pend_conn, want,
                     autoVars, timers, gapVars, gattVars>>
  BY DEF BtScan, BtConnWatch, Scan
<1>3. ListOK'
  <2>1. dgl_pend_scan' \in BOOLEAN /\ dgl_watch' \in DevOrNone
    BY <1>1, <1>2 DEF ListOK, DevOrNone
  <2> QED BY <1>1, <1>2, <2>1 DEF ListOK
<1>4. AutoOK' /\ StackOK'
  BY <1>1, <1>2 DEF AutoOK, StackOK, autoVars, gapVars
<1>5. CharOK' /\ att' \in Seq(Requests) /\ GattInv'
      /\ (att' # <<>> => dgl_state' \in {"CONNECTED", "ARMED"})
  BY <1>2, GattKept
<1>6. LinkInv'
  BY <1>2, <1>5 DEF IInv, LinkInv, LinkKnown, gapVars
<1>7. NameInv'
  BY <1>2 DEF IInv, NameInv, ConnectsToNamed, gapVars
<1>8. FailInv'
  BY <1>1, <1>2, SizesAssumption DEF AutoOK, FailInv, autoVars
<1> QED BY <1>3, <1>4, <1>5, <1>6, <1>7, <1>8, TypePartsNext DEF IInv

LEMMA ConnIndexStep ==
  ASSUME IInv, NEW i \in 1..DGL_MAX_SCAN_RES, BtConnIndex(i)
  PROVE  IInv'
<1>1. ListOK /\ AutoOK /\ StackOK
  BY TypeParts DEF IInv
<1>2. /\ dgl_state = "IDLE" /\ i \in DOMAIN dgl_scan_list
      /\ dgl_pend_conn' = i /\ want' = dgl_scan_list[i]
      /\ evts' = evts \cup {"CONN"} /\ attempts' = 0
      /\ UNCHANGED <<dgl_state, dgl_conn_handle, bond, dgl_scan_list, dgl_pend_scan, dgl_watch,
                     autoVars, timers, gapVars, gattVars>>
  BY DEF BtConnIndex
<1>3. ListOK'
  <2>1. want' \in DevOrNone
    BY <1>1, <1>2 DEF ListOK, DevOrNone
  <2> QED BY <1>1, <1>2, <2>1 DEF ListOK
<1>4. AutoOK' /\ StackOK'
  BY <1>1, <1>2 DEF AutoOK, StackOK, autoVars, gapVars
<1>5. CharOK' /\ att' \in Seq(Requests) /\ GattInv'
      /\ (att' # <<>> => dgl_state' \in {"CONNECTED", "ARMED"})
  BY <1>2, GattKept
<1>6. LinkInv'
  BY <1>2, <1>5 DEF IInv, LinkInv, LinkKnown, gapVars
<1>7. NameInv'
  BY <1>2 DEF IInv, NameInv, ConnectsToNamed, gapVars
<1>8. FailInv'
  BY <1>1, <1>2, SizesAssumption DEF AutoOK, FailInv, autoVars
<1> QED BY <1>3, <1>4, <1>5, <1>6, <1>7, <1>8, TypePartsNext DEF IInv

(* AT+BT_DISC, AT+BT_PAIR, AT+BT_AUTO: the link is asked to end, the       *)
(* automatic is held, switched or started over.                            *)
LEMMA AutoCmdStep ==
  ASSUME IInv, BtDisc \/ BtPair \/ \E on \in BOOLEAN : BtAuto(on)
  PROVE  IInv'
<1>1. ListOK /\ AutoOK /\ StackOK
  BY TypeParts DEF IInv
<1>2. /\ UNCHANGED <<dgl_state, dgl_conn_handle, scanVars, timers, peer, gattVars>>
      /\ attempts' = 0
      /\ bond' = bond \/ bond' = None
      /\ gap' = gap \/ (gap' = "closing" /\ dgl_conn_handle # None)
      /\ evts' = evts \/ evts' = evts \cup {"AUTO"}
      /\ dgl_auto_fails' = dgl_auto_fails \/ dgl_auto_fails' = 0
  BY DEF BtDisc, BtPair, BtAuto, Disconnect, autoVars, gapVars
<1>3. dgl_auto' \in BOOLEAN /\ dgl_auto_hold' \in BOOLEAN
  <2>1. CASE BtDisc \/ BtPair
    <3>1. UNCHANGED dgl_auto /\ (dgl_auto_hold' = TRUE \/ UNCHANGED dgl_auto_hold)
      BY <2>1 DEF BtDisc, BtPair, Disconnect
    <3> QED BY <1>1, <3>1 DEF AutoOK
  <2>2. CASE \E on \in BOOLEAN : BtAuto(on)
    BY <2>2 DEF BtAuto
  <2> QED BY <2>1, <2>2
<1>4. ListOK'
  BY <1>1, <1>2 DEF ListOK, scanVars, listVars
<1>5. AutoOK'
  BY <1>1, <1>2, <1>3, SizesAssumption DEF AutoOK
<1>6. StackOK'
  BY <1>1, <1>2 DEF StackOK, DevOrNone
<1>7. CharOK' /\ att' \in Seq(Requests) /\ GattInv'
      /\ (att' # <<>> => dgl_state' \in {"CONNECTED", "ARMED"})
  BY <1>2, GattKept
<1>8. LinkInv'
  BY <1>2, <1>7 DEF IInv, LinkInv, LinkKnown
<1>9. NameInv'
  <2>1. gap' \in {"scan", "init"} <=> gap \in {"scan", "init"}
    BY <1>2 DEF IInv, LinkInv, LinkKnown
  <2>2. gap' = "closing" => gap # "scan"
    BY <1>2 DEF IInv, LinkInv, LinkKnown
  <2> QED BY <1>2, <2>1, <2>2 DEF IInv, NameInv, ConnectsToNamed, scanVars, listVars
<1>10. FailInv'
  <2>1. dgl_auto_fails' \in Nat
    BY <1>5, SizesAssumption DEF AutoOK
  <2>2. attempts' <= dgl_auto_fails'
    BY <1>2, <2>1
  <2> QED BY <1>2, <2>2 DEF FailInv
<1> QED BY <1>4, <1>5, <1>6, <1>7, <1>8, <1>9, <1>10, TypePartsNext DEF IInv

LEMMA BattStep ==
  ASSUME IInv, BtBatt
  PROVE  IInv'
<1>1. StackOK /\ CharOK
  BY TypeParts DEF IInv
<1>2. /\ dgl_state = "ARMED" /\ att = <<>>
      /\ dgl_batt_reading' = TRUE /\ att' = Append(<<>>, "read")
      /\ UNCHANGED <<dgl_state, dgl_conn_handle, bond, scanVars, autoVars, evts, timers, gapVars,
                     dgl_disc_state, dgl_disc_retries, boot, proto, dgl_cccd_count, dgl_cccd_wr,
                     dgl_proto_pending, batt, enabled, attempts>>
  BY DEF BtBatt, taskVars, charVars
<1>3. ListOK' /\ AutoOK' /\ StackOK' /\ LinkKnown' /\ NameInv' /\ FailInv'
  BY <1>1, <1>2, CoreKept DEF StackOK
<1>4. att' \in Seq(Requests) /\ Len(att') = 1
  BY <1>2, OneAsked DEF Requests
<1>5. CharOK'
  <2>1. dgl_batt_reading' \in BOOLEAN
    BY <1>2
  <2> QED BY <1>1, <1>2, <2>1 DEF CharOK
<1>6. LinkInv' /\ GattInv'
  BY <1>2, <1>3, <1>4 DEF IInv, LinkInv, GattInv, OneAttRequest
<1> QED BY <1>3, <1>4, <1>5, <1>6, TypePartsNext DEF IInv

-----------------------------------------------------------------------------
(* Events of the dongle task.                                              *)

LEMMA FiresStep ==
  ASSUME IInv, NEW e \in timers, Fires(e)
  PROVE  IInv'
<1>1. StackOK
  BY TypeParts DEF IInv
<1>2. /\ timers' = timers \ {e} /\ evts' = evts \cup {e} /\ e # "CONN"
      /\ UNCHANGED <<dgl_state, dgl_conn_handle, bond, scanVars, autoVars, gapVars, gattVars,
                     attempts>>
  BY <1>1 DEF Fires, StackOK
<1>3. ListOK' /\ AutoOK' /\ StackOK' /\ LinkKnown' /\ NameInv' /\ FailInv'
  BY <1>1, <1>2, CoreKept DEF StackOK
<1>4. CharOK' /\ att' \in Seq(Requests) /\ GattInv'
      /\ (att' # <<>> => dgl_state' \in {"CONNECTED", "ARMED"})
  BY <1>2, GattKept
<1> QED BY <1>3, <1>4, TypePartsNext DEF IInv, LinkInv

LEMMA AutoStep ==
  ASSUME IInv, AutoEvt
  PROVE  IInv'
<1>1. ListOK /\ AutoOK /\ StackOK
  BY TypeParts DEF IInv
<1>2. /\ evts' = evts \ {"AUTO"}
      /\ UNCHANGED <<dgl_conn_handle, bond, scanVars, autoVars, gattVars>>
  BY DEF AutoEvt
<1>3. CASE AutoNothing \/ AutoRetry
  <2>1. /\ timers' = timers \/ timers' = timers \cup {"AUTO"}
        /\ UNCHANGED <<dgl_state, gapVars, attempts>>
    BY <1>3 DEF AutoNothing, AutoRetry
  <2>2. ListOK' /\ AutoOK' /\ StackOK' /\ LinkKnown' /\ NameInv' /\ FailInv'
    BY <1>1, <1>2, <2>1, CoreKept DEF StackOK
  <2>3. CharOK' /\ att' \in Seq(Requests) /\ GattInv'
        /\ (att' # <<>> => dgl_state' \in {"CONNECTED", "ARMED"})
    BY <1>2, <2>1, GattKept
  <2> QED BY <2>2, <2>3, TypePartsNext DEF IInv, LinkInv
<1>4. CASE AutoAbort \/ AutoEstablish
  <2>1. \/ /\ dgl_state = "AUTOCONN" /\ dgl_state' = "IDLE"
           /\ gap' = (IF gap = "init" THEN "cancel" ELSE gap)
           /\ UNCHANGED <<timers, peer, attempts>>
        \/ /\ dgl_state = "IDLE" /\ dgl_state' = "AUTOCONN" /\ ~dgl_auto_hold
           /\ gap = "idle" /\ gap' = "init" /\ peer' = bond
           /\ attempts' = attempts + 1 /\ UNCHANGED timers
    BY <1>4 DEF AutoAbort, AutoEstablish, MayKick, CancelEstablish
  <2>2. ListOK'
    BY <1>1, <1>2 DEF ListOK, scanVars, listVars
  <2>3. AutoOK' /\ StackOK'
    <3>1. AutoOK'
      BY <1>1, <1>2, <2>1 DEF AutoOK, autoVars
    <3>2. gap' \in {"idle", "scan", "init", "cancel", "up", "closing"}
      BY <1>1, <2>1 DEF StackOK
    <3>3. peer' \in DevOrNone /\ timers' = timers
      BY <1>1, <2>1 DEF StackOK
    <3> QED BY <1>1, <1>2, <2>1, <3>1, <3>2, <3>3 DEF StackOK
  <2>4. CharOK' /\ att' \in Seq(Requests) /\ GattInv'
        /\ (att' # <<>> => dgl_state' \in {"CONNECTED", "ARMED"})
    BY <1>2, <2>1, GattKept
  <2>5. LinkInv'
    BY <1>2, <2>1, <2>4 DEF IInv, LinkInv, LinkKnown
  <2>6. NameInv'
    BY <1>2, <2>1 DEF IInv, NameInv, ConnectsToNamed, scanVars, listVars
  <2>7. FailInv'
    BY <1>1, <1>2, <2>1, SizesAssumption DEF IInv, FailInv, AutoOK, autoVars
  <2> QED BY <2>2, <2>3, <2>4, <2>5, <2>6, <2>7, TypePartsNext DEF IInv
<1> QED BY <1>3, <1>4 DEF AutoEvt

LEMMA LinkTimeoutStep ==
  ASSUME IInv, LinkTimeoutEvt
  PROVE  IInv'
<1>1. ListOK /\ AutoOK /\ StackOK
  BY TypeParts DEF IInv
<1>2. /\ evts' = evts \ {"LINK_TIMEOUT"}
      /\ UNCHANGED <<dgl_conn_handle, bond, scanVars, autoVars, timers, peer, gattVars, attempts>>
      /\ \/ /\ dgl_state = "CONNECTING" /\ dgl_state' = "IDLE"
            /\ gap' = (IF gap = "init" THEN "cancel" ELSE gap)
         \/ UNCHANGED <<gap, dgl_state>>
  BY DEF LinkTimeoutEvt, WatchdogBites, CancelEstablish
<1>3. ListOK'
  BY <1>1, <1>2 DEF ListOK, scanVars, listVars
<1>4. AutoOK' /\ StackOK'
  BY <1>1, <1>2 DEF AutoOK, StackOK, autoVars
<1>5. CharOK' /\ att' \in Seq(Requests) /\ GattInv'
      /\ (att' # <<>> => dgl_state' \in {"CONNECTED", "ARMED"})
  BY <1>2, GattKept
<1>6. LinkInv'
  BY <1>2, <1>5 DEF IInv, LinkInv, LinkKnown
<1>7. NameInv'
  BY <1>2 DEF IInv, NameInv, ConnectsToNamed, scanVars, listVars
<1>8. FailInv'
  BY <1>2 DEF IInv, FailInv, autoVars
<1> QED BY <1>3, <1>4, <1>5, <1>6, <1>7, <1>8, TypePartsNext DEF IInv

LEMMA ScanEvtStep ==
  ASSUME IInv, ScanEvt
  PROVE  IInv'
<1>1. ListOK /\ AutoOK /\ StackOK
  BY TypeParts DEF IInv
<1>2. /\ evts' = evts \ {"SCAN"} /\ dgl_pend_scan' = FALSE
      /\ UNCHANGED <<dgl_conn_handle, bond, dgl_pend_conn, dgl_watch, want, autoVars, timers,
                     peer, gattVars, attempts>>
      /\ \/ /\ dgl_state = "IDLE" /\ dgl_scan_list' = <<>> /\ dgl_state' = "SCANNING"
            /\ gap' = gap \/ (gap = "idle" /\ gap' = "scan")
         \/ UNCHANGED <<dgl_scan_list, dgl_state, gap>>
  BY DEF ScanEvt
<1>3. ListOK'
  <2>0. <<>> \in Seq(Devs) /\ Len(<<>>) = 0 /\ DGL_MAX_SCAN_RES \in Nat
    BY EmptySeq, SizesAssumption
  <2>1. dgl_scan_list' \in Seq(Devs) /\ Len(dgl_scan_list') <= DGL_MAX_SCAN_RES
    <3>1. CASE dgl_scan_list' = <<>>
      BY <2>0, <3>1
    <3>2. CASE dgl_scan_list' = dgl_scan_list
      BY <1>1, <3>2 DEF ListOK
    <3> QED BY <1>2, <3>1, <3>2
  <2>2. dgl_pend_scan' \in BOOLEAN
    BY <1>2
  <2> QED BY <1>1, <1>2, <2>1, <2>2 DEF ListOK
<1>4. AutoOK' /\ StackOK'
  BY <1>1, <1>2 DEF AutoOK, StackOK, autoVars
<1>5. CharOK' /\ att' \in Seq(Requests) /\ GattInv'
      /\ (att' # <<>> => dgl_state' \in {"CONNECTED", "ARMED"})
  BY <1>2, GattKept
<1>6. LinkInv'
  BY <1>2, <1>5 DEF IInv, LinkInv, LinkKnown
<1>7. NameInv'
  <2>1. CASE UNCHANGED <<dgl_scan_list, dgl_state, gap>>
    BY <1>2, <2>1 DEF IInv, NameInv, ConnectsToNamed
  <2>2. CASE dgl_state = "IDLE" /\ dgl_scan_list' = <<>> /\ dgl_state' = "SCANNING"
             /\ (gap' = gap \/ (gap = "idle" /\ gap' = "scan"))
    <3>1. DOMAIN dgl_scan_list' = {}
      BY <2>2
    <3> QED BY <1>2, <2>2, <3>1 DEF IInv, NameInv, ConnectsToNamed
  <2> QED BY <1>2, <2>1, <2>2
<1>8. FailInv'
  BY <1>2 DEF IInv, FailInv, autoVars
<1> QED BY <1>3, <1>4, <1>5, <1>6, <1>7, <1>8, TypePartsNext DEF IInv

(* The index is used: the list still names the device that was meant.      *)
LEMMA ConnEvtStep ==
  ASSUME IInv, ConnEvt
  PROVE  IInv'
<1>1. ListOK /\ AutoOK /\ StackOK
  BY TypeParts DEF IInv
<1>2. /\ evts' = evts \ {"CONN"} /\ "CONN" \in evts /\ dgl_pend_conn' = None
      /\ UNCHANGED <<dgl_conn_handle, bond, dgl_scan_list, dgl_pend_scan, dgl_watch, autoVars,
                     gattVars>>
  BY DEF ConnEvt, Serve
<1>3. dgl_state # "CONNECTING"
  BY <1>2 DEF IInv, NameInv
<1>4. \/ /\ dgl_state = "IDLE" /\ dgl_state' = "CONNECTING"
         /\ dgl_pend_conn \in DOMAIN dgl_scan_list
         /\ timers' = timers \cup {"LINK_TIMEOUT"} /\ attempts' = 0 /\ want' = want
         /\ \/ gap = "idle" /\ gap' = "init" /\ peer' = dgl_scan_list[dgl_pend_conn]
            \/ UNCHANGED <<gap, peer>>
      \/ want' = None /\ UNCHANGED <<dgl_state, timers, gap, peer, attempts>>
  BY DEF ConnEvt, StartWatchdog, gapVars
<1>5. None \notin DOMAIN dgl_scan_list
  BY <1>1, DevsAssumption DEF ListOK
<1>6. ListOK'
  BY <1>1, <1>2, <1>4 DEF ListOK, DevOrNone
<1>7. AutoOK'
  BY <1>1, <1>2, <1>4 DEF AutoOK, autoVars
<1>8. StackOK'
  <2>1. peer' \in DevOrNone
    BY <1>1, <1>4 DEF ListOK, StackOK, DevOrNone
  <2>2. gap' \in {"idle", "scan", "init", "cancel", "up", "closing"}
    BY <1>1, <1>4 DEF StackOK
  <2> QED BY <1>1, <1>2, <1>4, <2>1, <2>2 DEF StackOK
<1>9. CharOK' /\ att' \in Seq(Requests) /\ GattInv'
      /\ (att' # <<>> => dgl_state' \in {"CONNECTED", "ARMED"})
  BY <1>2, <1>4, GattKept
<1>10. LinkInv'
  BY <1>2, <1>4, <1>9 DEF IInv, LinkInv, LinkKnown
<1>11. NameInv'
  <2>1. CASE want' = None /\ UNCHANGED <<dgl_state, timers, gap, peer, attempts>>
    BY <1>2, <1>3, <1>5, <2>1 DEF IInv, NameInv, ConnectsToNamed
  <2>2. CASE dgl_state = "IDLE" /\ dgl_state' = "CONNECTING" /\ want' = want
             /\ UNCHANGED <<gap, peer>>
    BY <1>2, <1>5, <2>2 DEF IInv, NameInv, ConnectsToNamed
  <2>3. CASE dgl_state = "IDLE" /\ dgl_state' = "CONNECTING" /\ want' = want
             /\ dgl_pend_conn \in DOMAIN dgl_scan_list
             /\ gap = "idle" /\ gap' = "init" /\ peer' = dgl_scan_list[dgl_pend_conn]
    <3>1. peer' = want'
      BY <2>3 DEF IInv, NameInv
    <3> QED BY <1>2, <1>5, <2>3, <3>1 DEF NameInv, ConnectsToNamed
  <2> QED BY <1>4, <2>1, <2>2, <2>3
<1>12. FailInv'
  <2>1. CASE attempts' = 0 /\ dgl_state' = "CONNECTING"
    <3>1. dgl_auto_fails' \in Nat
      BY <1>7, SizesAssumption DEF AutoOK
    <3>2. attempts' <= dgl_auto_fails'
      BY <2>1, <3>1
    <3> QED BY <2>1, <3>2 DEF FailInv
  <2>2. CASE UNCHANGED <<dgl_state, gap, attempts>>
    BY <1>2, <2>2 DEF IInv, FailInv, autoVars
  <2> QED BY <1>4, <2>1, <2>2
<1> QED BY <1>6, <1>7, <1>8, <1>9, <1>10, <1>11, <1>12, TypePartsNext DEF IInv

-----------------------------------------------------------------------------
(* GAP callbacks.                                                          *)

(* The list after an insertion that may push out its tail.                 *)
Inserted(list, pos, d) ==
  LET all == InsertAt(list, pos, d)
  IN  SubSeq(all, 1, IF Len(all) > DGL_MAX_SCAN_RES THEN DGL_MAX_SCAN_RES ELSE Len(all))

LEMMA InsertedFacts ==
  ASSUME NEW list \in Seq(Devs), NEW d \in Devs, NEW pos \in 1..(Len(list) + 1),
         pos <= DGL_MAX_SCAN_RES
  PROVE  /\ Inserted(list, pos, d) \in Seq(Devs)
         /\ Len(Inserted(list, pos, d)) <= DGL_MAX_SCAN_RES
         /\ pos \in DOMAIN Inserted(list, pos, d)
         /\ Inserted(list, pos, d)[pos] = d
<1> DEFINE a == SubSeq(list, 1, pos - 1)
           c == SubSeq(list, pos, Len(list))
           ab == a \o <<d>>
           all == ab \o c
           n == IF Len(all) > DGL_MAX_SCAN_RES THEN DGL_MAX_SCAN_RES ELSE Len(all)
           r == SubSeq(all, 1, n)
<1>0. Len(list) \in Nat
  OBVIOUS
<1>1. a \in Seq(Devs) /\ Len(a) = pos - 1
  <2>1. \A i \in 1..pos - 1 : list[i] \in Devs
    BY <1>0
  <2> QED BY <1>0, <2>1, SubSeqProperties
<1>2. c \in Seq(Devs) /\ Len(c) \in Nat
  <2>1. \A i \in pos..Len(list) : list[i] \in Devs
    BY <1>0
  <2> QED BY <1>0, <2>1, SubSeqProperties
<1>3. <<d>> \in Seq(Devs) /\ Len(<<d>>) = 1 /\ <<d>>[1] = d
  OBVIOUS
<1> HIDE DEF a, c
<1>4. /\ ab \in Seq(Devs) /\ Len(ab) = pos
      /\ \A i \in 1..pos : ab[i] = IF i <= pos - 1 THEN a[i] ELSE <<d>>[i - (pos - 1)]
  BY <1>1, <1>3, ConcatProperties
<1>5. ab[pos] = d
  BY <1>3, <1>4
<1> HIDE DEF ab
<1>6. /\ all \in Seq(Devs) /\ Len(all) = pos + Len(c)
      /\ \A i \in 1..pos + Len(c) : all[i] = IF i <= pos THEN ab[i] ELSE c[i - pos]
  BY <1>2, <1>4, ConcatProperties
<1>7. all[pos] = d
  BY <1>2, <1>5, <1>6
<1> HIDE DEF all
<1>8. n \in 1..Len(all) /\ n <= DGL_MAX_SCAN_RES /\ pos <= n
  BY <1>2, <1>6, SizesAssumption
<1> HIDE DEF n
<1>9. r \in Seq(Devs) /\ Len(r) = n /\ \A i \in 1..n : r[i] = all[i]
  <2>1. \A i \in 1..n : all[i] \in Devs
    BY <1>6, <1>8
  <2> QED BY <1>6, <1>8, <2>1, SubSeqProperties
<1> HIDE DEF r
<1>10. Inserted(list, pos, d) = r
  BY DEF Inserted, InsertAt, r, n, all, ab, a, c
<1>11. r \in Seq(Devs) /\ Len(r) <= DGL_MAX_SCAN_RES /\ pos \in DOMAIN r /\ r[pos] = d
  BY <1>7, <1>8, <1>9
<1> QED BY <1>10, <1>11

LEMMA DeviceInfoStep ==
  ASSUME IInv, NEW d \in Devs, NEW pos \in 1..DGL_MAX_SCAN_RES, DeviceInfo(d, pos)
  PROVE  IInv'
<1>1. ListOK /\ AutoOK /\ StackOK
  BY TypeParts DEF IInv
<1>2. /\ gap = "scan" /\ dgl_state = "SCANNING"
      /\ pos \in 1..(Len(dgl_scan_list) + 1) /\ pos <= DGL_MAX_SCAN_RES
      /\ dgl_scan_list' = Inserted(dgl_scan_list, pos, d)
      /\ UNCHANGED <<dgl_conn_handle, bond, dgl_pend_scan, autoVars, timers, peer, gattVars,
                     attempts>>
      /\ \/ /\ dgl_watch' = None /\ gap' = "idle" /\ dgl_state' = "IDLE"
            /\ dgl_pend_conn' = pos /\ want' = d /\ evts' = evts \cup {"CONN"}
         \/ UNCHANGED <<dgl_watch, gap, dgl_state, dgl_pend_conn, want, evts>>
  BY DEF DeviceInfo, WatchHit, Inserted
<1>3. /\ dgl_scan_list' \in Seq(Devs) /\ Len(dgl_scan_list') <= DGL_MAX_SCAN_RES
      /\ pos \in DOMAIN dgl_scan_list' /\ dgl_scan_list'[pos] = d
  BY <1>1, <1>2, InsertedFacts DEF ListOK
<1>4. ListOK'
  BY <1>1, <1>2, <1>3 DEF ListOK, DevOrNone
<1>5. AutoOK' /\ StackOK'
  BY <1>1, <1>2 DEF AutoOK, StackOK, autoVars
<1>6. CharOK' /\ att' \in Seq(Requests) /\ GattInv'
      /\ (att' # <<>> => dgl_state' \in {"CONNECTED", "ARMED"})
  BY <1>2, GattKept
<1>7. LinkInv'
  BY <1>2, <1>6 DEF IInv, LinkInv, LinkKnown
<1>8. NameInv'
  BY <1>2, <1>3 DEF IInv, NameInv, ConnectsToNamed
<1>9. FailInv'
  BY <1>2 DEF IInv, FailInv, autoVars
<1> QED BY <1>4, <1>5, <1>6, <1>7, <1>8, <1>9, TypePartsNext DEF IInv

LEMMA DirectDeviceInfoStep ==
  ASSUME IInv, NEW d \in Devs, DirectDeviceInfo(d)
  PROVE  IInv'
<1>1. ListOK /\ AutoOK /\ StackOK
  BY TypeParts DEF IInv
<1>2. /\ gap = "scan" /\ dgl_state = "SCANNING" /\ Len(dgl_scan_list) < DGL_MAX_SCAN_RES
      /\ dgl_scan_list' = Append(dgl_scan_list, d)
      /\ UNCHANGED <<dgl_state, dgl_conn_handle, bond, dgl_pend_scan, dgl_pend_conn, dgl_watch,
                     want, autoVars, evts, timers, gap, peer, gattVars, attempts>>
  BY DEF DirectDeviceInfo, taskVars, gapVars
<1>3. dgl_scan_list' \in Seq(Devs) /\ Len(dgl_scan_list') <= DGL_MAX_SCAN_RES
  BY <1>1, <1>2, AppendProperties, SizesAssumption DEF ListOK
<1>4. ListOK'
  BY <1>1, <1>2, <1>3 DEF ListOK
<1>5. AutoOK' /\ StackOK'
  BY <1>1, <1>2 DEF AutoOK, StackOK, autoVars
<1>6. CharOK' /\ att' \in Seq(Requests) /\ GattInv'
      /\ (att' # <<>> => dgl_state' \in {"CONNECTED", "ARMED"})
  BY <1>2, GattKept
<1>7. LinkInv'
  BY <1>2, <1>6 DEF IInv, LinkInv, LinkKnown
<1>8. NameInv'
  BY <1>2 DEF IInv, NameInv, ConnectsToNamed
<1>9. FailInv'
  BY <1>2 DEF IInv, FailInv, autoVars
<1> QED BY <1>4, <1>5, <1>6, <1>7, <1>8, <1>9, TypePartsNext DEF IInv

LEMMA DiscoveryDoneStep ==
  ASSUME IInv, DiscoveryDone
  PROVE  IInv'
<1>1. ListOK /\ AutoOK /\ StackOK
  BY TypeParts DEF IInv
<1>2. /\ gap = "scan" /\ gap' = "idle" /\ evts = {} /\ dgl_watch' = None
      /\ dgl_state = "SCANNING" /\ dgl_state' = "IDLE"
      /\ UNCHANGED <<dgl_conn_handle, bond, dgl_scan_list, dgl_pend_scan, dgl_pend_conn, want,
                     autoVars, evts, timers, peer, gattVars, attempts>>
  BY DEF DiscoveryDone, taskVars, IInv, NameInv
<1>3. ListOK'
  BY <1>1, <1>2 DEF ListOK, DevOrNone
<1>4. AutoOK' /\ StackOK'
  BY <1>1, <1>2 DEF AutoOK, StackOK, autoVars
<1>5. CharOK' /\ att' \in Seq(Requests) /\ GattInv'
      /\ (att' # <<>> => dgl_state' \in {"CONNECTED", "ARMED"})
  BY <1>2, GattKept
<1>6. LinkInv'
  BY <1>2, <1>5 DEF IInv, LinkInv, LinkKnown
<1>7. NameInv'
  <2>1. dgl_pend_conn' = None
    BY <1>2 DEF IInv, NameInv
  <2>2. None \notin DOMAIN dgl_scan_list'
    BY <1>1, <1>2, DevsAssumption DEF ListOK
  <2> QED BY <1>2, <2>1, <2>2 DEF NameInv, ConnectsToNamed
<1>8. FailInv'
  BY <1>2 DEF IInv, FailInv, autoVars
<1> QED BY <1>3, <1>4, <1>5, <1>6, <1>7, <1>8, TypePartsNext DEF IInv

(* A link is up, late or in time: the stack says with whom.                *)
LEMMA ResetFacts ==
  ASSUME ResetLinkState, dgl_disc_retries' \in 0..DiscRetries, dgl_state' # "ARMED"
  PROVE  CharOK' /\ att' = <<>> /\ att' \in Seq(Requests) /\ GattInv'
<1>1. /\ dgl_disc_state' = "IDLE" /\ boot' = FALSE /\ proto' = FALSE
      /\ dgl_cccd_count' = 0 /\ dgl_cccd_wr' = 0 /\ dgl_proto_pending' = FALSE
      /\ batt' = FALSE /\ dgl_batt_reading' = FALSE /\ att' = <<>> /\ enabled' = 0
  BY DEF ResetLinkState
<1>2. DGL_MAX_CCCD \in Nat
  BY SizesAssumption
<1>3. /\ boot' \in BOOLEAN /\ proto' \in BOOLEAN /\ dgl_proto_pending' \in BOOLEAN
      /\ batt' \in BOOLEAN /\ dgl_batt_reading' \in BOOLEAN
  BY <1>1
<1>4. dgl_cccd_count' \in 0..DGL_MAX_CCCD /\ dgl_cccd_wr' \in 0..DGL_MAX_CCCD /\ enabled' \in Nat
  BY <1>1, <1>2
<1>5. CharOK'
  BY <1>1, <1>3, <1>4 DEF CharOK
<1>6. att' \in Seq(Requests) /\ Len(att') = 0
  BY <1>1, NoRequest
<1>7. GattInv'
  BY <1>1, <1>6 DEF GattInv, OneAttRequest
<1> QED BY <1>1, <1>5, <1>6, <1>7

LEMMA LinkEstablishedStep ==
  ASSUME IInv, LinkEstablished
  PROVE  IInv'
<1>1. ListOK /\ AutoOK /\ StackOK
  BY TypeParts DEF IInv
<1>2. /\ gap \in {"init", "cancel"} /\ gap' = "up"
      /\ dgl_conn_handle' = peer /\ dgl_state' = "CONNECTED" /\ dgl_auto_hold' = FALSE
      /\ timers' = (timers \ {"LINK_TIMEOUT"}) \cup {"SVC_DISC"}
      /\ UNCHANGED <<bond, dgl_scan_list, dgl_pend_scan, dgl_pend_conn, dgl_watch, dgl_auto,
                     dgl_auto_fails, evts, peer, attempts>>
      /\ want' = IF dgl_pend_conn = None THEN None ELSE want
  BY DEF LinkEstablished, Over, listVars
<1>3. ListOK'
  BY <1>1, <1>2 DEF ListOK, DevOrNone
<1>4. AutoOK'
  BY <1>1, <1>2 DEF AutoOK
<1>5. StackOK'
  BY <1>1, <1>2 DEF StackOK
<1>6. CharOK' /\ att' = <<>> /\ att' \in Seq(Requests) /\ GattInv'
  <2>1. ResetLinkState /\ dgl_disc_retries' = DiscRetries
    BY DEF LinkEstablished
  <2>2. dgl_disc_retries' \in 0..DiscRetries
    BY <2>1, SizesAssumption
  <2> QED BY <1>2, <2>1, <2>2, ResetFacts
<1>7. LinkInv'
  BY <1>2, <1>6 DEF LinkInv, LinkKnown
<1>8. None \notin DOMAIN dgl_scan_list
  BY <1>1, DevsAssumption DEF ListOK
<1>9. NameInv'
  BY <1>2, <1>8 DEF IInv, NameInv, ConnectsToNamed
<1>10. FailInv'
  BY <1>1, <1>2 DEF IInv, FailInv, AutoOK
<1> QED BY <1>3, <1>4, <1>5, <1>6, <1>7, <1>9, <1>10, TypePartsNext DEF IInv

(* A cycle that fails is counted, and the limit holds the automatic.       *)
LEMMA FailCounted ==
  ASSUME IInv, AutoFailCount, gap \notin {"idle", "scan"}, gap' = "idle",
         dgl_state' # "ARMED", attempts' = attempts
  PROVE  /\ FailInv' /\ dgl_auto_hold' \in BOOLEAN
         /\ dgl_auto_fails' \in 0..(DGL_AUTO_MAX_FAILS - 1)
<1>1. AutoOK
  BY TypeParts DEF IInv
<1>2. DGL_AUTO_MAX_FAILS \in Nat \ {0}
  BY SizesAssumption
<1>3. attempts <= dgl_auto_fails + 1
  BY <1>1, <1>2 DEF IInv, FailInv, AutoOK
<1>4. CASE dgl_auto_fails + 1 >= DGL_AUTO_MAX_FAILS
  <2>1. dgl_auto_fails' = 0 /\ dgl_auto_hold' = TRUE
    BY <1>4 DEF AutoFailCount
  <2>2. attempts <= DGL_AUTO_MAX_FAILS
    BY <1>1, <1>2, <1>3 DEF AutoOK
  <2> QED BY <1>2, <2>1, <2>2 DEF FailInv
<1>5. CASE ~(dgl_auto_fails + 1 >= DGL_AUTO_MAX_FAILS)
  <2>1. dgl_auto_fails' = dgl_auto_fails + 1 /\ dgl_auto_hold' = dgl_auto_hold
    BY <1>5 DEF AutoFailCount
  <2>2. dgl_auto_fails' \in 0..(DGL_AUTO_MAX_FAILS - 1)
    BY <1>1, <1>2, <1>5, <2>1 DEF AutoOK
  <2>3. dgl_auto_hold' \in BOOLEAN
    BY <1>1, <2>1 DEF AutoOK
  <2> QED BY <1>3, <2>1, <2>2, <2>3 DEF FailInv
<1> QED BY <1>4, <1>5

LEMMA LinkFailedStep ==
  ASSUME IInv, LinkFailed
  PROVE  IInv'
<1>1. ListOK /\ AutoOK /\ StackOK
  BY TypeParts DEF IInv
<1>2. /\ gap \in {"init", "cancel"} /\ gap' = "idle" /\ peer' = None
      /\ dgl_conn_handle' = None /\ dgl_state' = "IDLE"
      /\ timers' = (timers \ {"LINK_TIMEOUT"}) \cup {"AUTO"}
      /\ UNCHANGED <<bond, dgl_scan_list, dgl_pend_scan, dgl_pend_conn, dgl_watch, dgl_auto,
                     evts, attempts>>
      /\ want' = IF dgl_pend_conn = None THEN None ELSE want
  BY DEF LinkFailed, Over, listVars
<1>3. ListOK'
  BY <1>1, <1>2 DEF ListOK, DevOrNone
<1>4. /\ FailInv' /\ dgl_auto_hold' \in BOOLEAN
      /\ dgl_auto_fails' \in 0..(DGL_AUTO_MAX_FAILS - 1)
  BY <1>2, FailCounted DEF LinkFailed
<1>5. AutoOK'
  BY <1>1, <1>2, <1>4 DEF AutoOK
<1>6. StackOK'
  BY <1>1, <1>2 DEF StackOK, DevOrNone
<1>7. CharOK' /\ att' = <<>> /\ att' \in Seq(Requests) /\ GattInv'
  <2>1. ResetLinkState /\ dgl_disc_retries' = 0
    BY DEF LinkFailed
  <2>2. dgl_disc_retries' \in 0..DiscRetries
    BY <2>1, SizesAssumption
  <2> QED BY <1>2, <2>1, <2>2, ResetFacts
<1>8. LinkInv'
  BY <1>2, <1>7 DEF LinkInv, LinkKnown
<1>9. None \notin DOMAIN dgl_scan_list
  BY <1>1, DevsAssumption DEF ListOK
<1>10. NameInv'
  BY <1>2, <1>9 DEF IInv, NameInv, ConnectsToNamed
<1> QED BY <1>3, <1>4, <1>5, <1>6, <1>7, <1>8, <1>10, TypePartsNext DEF IInv

LEMMA LinkTerminatedStep ==
  ASSUME IInv, LinkTerminated
  PROVE  IInv'
<1>1. ListOK /\ AutoOK /\ StackOK
  BY TypeParts DEF IInv
<1>2. /\ gap \in {"up", "closing"} /\ gap' = "idle" /\ peer' = None
      /\ dgl_conn_handle' = None /\ dgl_state' = "IDLE"
      /\ evts' = evts \cup {"AUTO"}
      /\ UNCHANGED <<bond, scanVars, dgl_auto, timers, attempts>>
  BY DEF LinkTerminated
<1>3. ListOK'
  BY <1>1, <1>2 DEF ListOK, scanVars, listVars
<1>4. /\ FailInv' /\ dgl_auto_hold' \in BOOLEAN
      /\ dgl_auto_fails' \in 0..(DGL_AUTO_MAX_FAILS - 1)
  <2>1. CASE dgl_state # "ARMED"
    BY <1>2, <2>1, FailCounted DEF LinkTerminated
  <2>2. CASE dgl_state = "ARMED"
    <3>1. UNCHANGED <<dgl_auto_fails, dgl_auto_hold>> /\ attempts = 0
      BY <2>2 DEF LinkTerminated, IInv, FailInv
    <3>2. dgl_auto_fails \in Nat
      BY <1>1, SizesAssumption DEF AutoOK
    <3>3. attempts' <= dgl_auto_fails'
      BY <1>2, <3>1, <3>2
    <3> QED BY <1>1, <1>2, <3>1, <3>3 DEF FailInv, AutoOK
  <2> QED BY <2>1, <2>2
<1>5. AutoOK'
  BY <1>1, <1>2, <1>4 DEF AutoOK
<1>6. StackOK'
  BY <1>1, <1>2 DEF StackOK, DevOrNone
<1>7. CharOK' /\ att' = <<>> /\ att' \in Seq(Requests) /\ GattInv'
  <2>1. ResetLinkState /\ dgl_disc_retries' = 0
    BY DEF LinkTerminated
  <2>2. dgl_disc_retries' \in 0..DiscRetries
    BY <2>1, SizesAssumption
  <2> QED BY <1>2, <2>1, <2>2, ResetFacts
<1>8. LinkInv'
  BY <1>2, <1>7 DEF LinkInv, LinkKnown
<1>9. NameInv'
  BY <1>2 DEF IInv, NameInv, ConnectsToNamed, scanVars, listVars
<1> QED BY <1>3, <1>4, <1>5, <1>6, <1>7, <1>8, <1>9, TypePartsNext DEF IInv

LEMMA PairDoneStep ==
  ASSUME IInv, PairDone
  PROVE  IInv'
<1>1. ListOK /\ AutoOK /\ StackOK
  BY TypeParts DEF IInv
<1>2. /\ bond' = peer \/ bond' = bond
      /\ evts' = evts \/ evts' = evts \cup {"SVC_DISC"}
      /\ UNCHANGED <<dgl_state, dgl_conn_handle, scanVars, autoVars, timers, gapVars, gattVars,
                     attempts>>
  BY DEF PairDone
<1>3. ListOK'
  BY <1>1, <1>2 DEF ListOK, scanVars, listVars
<1>4. AutoOK' /\ StackOK'
  BY <1>1, <1>2 DEF AutoOK, StackOK, autoVars, gapVars
<1>5. CharOK' /\ att' \in Seq(Requests) /\ GattInv'
      /\ (att' # <<>> => dgl_state' \in {"CONNECTED", "ARMED"})
  BY <1>2, GattKept
<1>6. LinkInv'
  BY <1>2, <1>5 DEF IInv, LinkInv, LinkKnown, gapVars
<1>7. NameInv'
  BY <1>2 DEF IInv, NameInv, ConnectsToNamed, scanVars, listVars, gapVars
<1>8. FailInv'
  BY <1>2 DEF IInv, FailInv, autoVars, gapVars
<1> QED BY <1>3, <1>4, <1>5, <1>6, <1>7, <1>8, TypePartsNext DEF IInv

-----------------------------------------------------------------------------
LEMMA InitIInv == Init => IInv
<1> SUFFICES ASSUME Init PROVE IInv
  OBVIOUS
<1>0. /\ dgl_pend_scan \in BOOLEAN /\ dgl_auto \in BOOLEAN /\ dgl_auto_hold \in BOOLEAN
      /\ boot \in BOOLEAN /\ proto \in BOOLEAN /\ dgl_proto_pending \in BOOLEAN
      /\ batt \in BOOLEAN /\ dgl_batt_reading \in BOOLEAN
  BY DEF Init
<1>1. ListOK
  <2>1. <<>> \in Seq(Devs) /\ Len(<<>>) = 0 /\ DGL_MAX_SCAN_RES \in Nat
    BY EmptySeq, SizesAssumption
  <2>2. dgl_scan_list = <<>> /\ dgl_pend_conn = None /\ dgl_watch = None /\ want = None
    BY DEF Init
  <2> QED BY <1>0, <2>1, <2>2 DEF ListOK, DevOrNone
<1>2. AutoOK
  <2>1. dgl_auto_fails = 0 /\ attempts = 0
    BY DEF Init
  <2> QED BY <1>0, <2>1, SizesAssumption DEF AutoOK
<1>3. StackOK
  BY DEF Init, StackOK, DevOrNone
<1>4. CharOK
  <2>1. /\ dgl_disc_state = "IDLE" /\ dgl_disc_retries = 0 /\ enabled = 0
        /\ dgl_cccd_count = 0 /\ dgl_cccd_wr = 0
    BY DEF Init
  <2> QED BY <1>0, <2>1, SizesAssumption DEF CharOK
<1>5. att \in Seq(Requests) /\ att = <<>> /\ Len(att) = 0
  BY NoRequest DEF Init
<1>6. LinkInv /\ GattInv
  BY <1>5 DEF Init, LinkInv, LinkKnown, GattInv, OneAttRequest
<1>7. NameInv
  <2>1. DOMAIN dgl_scan_list = {}
    BY DEF Init
  <2> QED BY <2>1 DEF Init, NameInv, ConnectsToNamed
<1>8. FailInv
  BY DEF Init, FailInv
<1>9. TypeOK
  BY <1>1, <1>2, <1>3, <1>4, <1>5 DEF TypeOK, ListOK, AutoOK, StackOK, CharOK, Requests
<1> QED BY <1>6, <1>7, <1>8, <1>9 DEF IInv

LEMMA NextIInv == IInv /\ [Next]_vars => IInv'
<1> SUFFICES ASSUME IInv, [Next]_vars PROVE IInv'
  OBVIOUS
<1>1. CASE AtCmd
  BY <1>1, ScanCmdStep, AutoCmdStep, BattStep, ConnIndexStep DEF AtCmd
<1>2. CASE TaskEvent
  BY <1>2, SvcDiscStep, AutoStep, LinkTimeoutStep, ScanEvtStep, ConnEvtStep DEF TaskEvent
<1>3. CASE GapEvent
  BY <1>3, DirectDeviceInfoStep, DeviceInfoStep, DiscoveryDoneStep, LinkEstablishedStep,
     LinkFailedStep, LinkTerminatedStep, PairDoneStep DEF GapEvent
<1>4. CASE GattMsg
  <2>1. ASSUME NEW found \in BOOLEAN, WriteRsp(found) PROVE IInv'
    BY <2>1, WriteRspStep
  <2>2. ASSUME NEW found \in BOOLEAN, NEW n \in 0..DGL_MAX_CCCD, Disc(found, n) PROVE IInv'
    BY <2>2, DiscStep
  <2>3. TRUE \in BOOLEAN /\ 0 \in 0..DGL_MAX_CCCD
    BY SizesAssumption
  <2>4. \/ \E found \in BOOLEAN : WriteRsp(found)
        \/ \E found \in BOOLEAN : Disc(found, 0)
        \/ \E n \in 0..DGL_MAX_CCCD : Disc(TRUE, n)
    BY <1>4, <2>3 DEF GattMsg, Disc
  <2> QED BY <2>1, <2>2, <2>3, <2>4
<1>5. CASE \E e \in timers : Fires(e)
  BY <1>5, FiresStep
<1>6. CASE UNCHANGED vars
  <2>1. StackOK
    BY TypeParts DEF IInv
  <2>2. /\ UNCHANGED <<dgl_state, dgl_conn_handle, bond, scanVars, autoVars, gapVars, attempts,
                       gattVars>>
        /\ evts' = evts /\ timers' = timers
    BY <1>6 DEF vars, taskVars
  <2>3. ListOK' /\ AutoOK' /\ StackOK' /\ LinkKnown' /\ NameInv' /\ FailInv'
    BY <2>1, <2>2, CoreKept DEF StackOK
  <2>4. CharOK' /\ att' \in Seq(Requests) /\ GattInv'
        /\ (att' # <<>> => dgl_state' \in {"CONNECTED", "ARMED"})
    BY <2>2, GattKept
  <2> QED BY <2>3, <2>4, TypePartsNext DEF IInv, LinkInv
<1> QED BY <1>1, <1>2, <1>3, <1>4, <1>5, <1>6 DEF Next

(* The inductive invariant of the dongle holds in every reachable state.   *)
THEOREM IInvHolds == Spec => []IInv
BY InitIInv, NextIInv, PTL DEF Spec

(* Every state of the dongle has its types: the scan list, the CCCD queue  *)
(* and the fail counter stay within their bounds.                          *)
THEOREM TypeCorrect == Spec => []TypeOK
<1>1. IInv => TypeOK
  BY DEF IInv
<1> QED BY <1>1, IInvHolds, PTL

(* Whatever watchdogs, aborts, late and failed establishes cross in        *)
(* dgl_event_cb, the dongle believes in a link just while the stack has    *)
(* one, and holds its handle.                                              *)
THEOREM LinkKnownHolds == Spec => []LinkKnown
<1>1. IInv => LinkKnown
  BY DEF IInv, LinkInv
<1> QED BY <1>1, IInvHolds, PTL

(* AT+BT_CONN: the index that travels to the dongle task names, where it   *)
(* is used, the keyboard that was meant, for lists and scans of any size.  *)
THEOREM ConnectsToNamedHolds == Spec => []ConnectsToNamed
<1>1. IInv => ConnectsToNamed
  BY DEF IInv, NameInv
<1> QED BY <1>1, IInvHolds, PTL

(* dgl_auto_fail_count: no more than DGL_AUTO_MAX_FAILS attempts without a *)
(* command or an armed link.                                               *)
THEOREM NoReconnectStormHolds == Spec => []NoReconnectStorm
<1>1. IInv => NoReconnectStorm
  <2> SUFFICES ASSUME IInv PROVE NoReconnectStorm
    OBVIOUS
  <2>1. AutoOK /\ DGL_AUTO_MAX_FAILS \in Nat \ {0}
    BY TypeParts, SizesAssumption DEF IInv
  <2> QED BY <2>1 DEF IInv, FailInv, AutoOK, NoReconnectStorm
<1> QED BY <1>1, IInvHolds, PTL

(* DGL_SVC_DISC_EVT's guard: delayed kick, retry and restart after pairing *)
(* never put a second request on the link.                                 *)
THEOREM OneAttRequestHolds == Spec => []OneAttRequest
<1>1. IInv => OneAttRequest
  BY DEF IInv, GattInv
<1> QED BY <1>1, IInvHolds, PTL
=============================================================================
