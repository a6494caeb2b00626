---------------------------- MODULE SerialProofs ----------------------------
(***************************************************************************)
(* Machine-checked facts about Serial, for rings, packets and lines of any *)
(* size: the receive ring is a queue, although the interrupt handler runs  *)
(* between any two steps of its reader.                                    *)
(***************************************************************************)
EXTENDS Serial, SequenceTheorems, TLAPS

-----------------------------------------------------------------------------
(* Positions in a ring of n cells.  Cell(a, n) is a % n, under a name that *)
(* the proofs below do not look behind.                                    *)

Cell(a, n) == a % n

LEMMA CellUp ==
  ASSUME NEW n \in Nat \ {0}, NEW a \in 0..2 * n - 1
  PROVE  Cell(a, n) = (IF a < n THEN a ELSE a - n) /\ Cell(a, n) \in 0..n - 1
  BY DEF Cell

LEMMA CellDown ==
  ASSUME NEW n \in Nat \ {0}, NEW a \in Int, -n <= a, a < n
  PROVE  Cell(a, n) = (IF a < 0 THEN a + n ELSE a) /\ Cell(a, n) \in 0..n - 1
  BY DEF Cell

LEMMA CellRange ==
  ASSUME NEW n \in Nat \ {0}, NEW a \in Int
  PROVE  Cell(a, n) \in 0..n - 1
  BY DEF Cell

(* How many bytes lie between two positions.                               *)
LEMMA Distance ==
  ASSUME NEW n \in Nat \ {0}, NEW h \in 0..n - 1, NEW t \in 0..n - 1
  PROVE  /\ Cell(h - t, n) = IF h >= t THEN h - t ELSE h - t + n
         /\ Cell(h - t, n) \in 0..n - 1
<1> DEFINE a == h - t
<1>1. -n <= a /\ a < n /\ a \in Int
  OBVIOUS
<1>2. a < 0 <=> ~(h >= t)
  OBVIOUS
<1> HIDE DEF a
<1>3. Cell(a, n) = (IF a < 0 THEN a + n ELSE a) /\ Cell(a, n) \in 0..n - 1
  BY <1>1, CellDown
<1> QED BY <1>2, <1>3 DEF a

(* A ring takes what fits: it never fills its last cell.                   *)
LEMMA FitsFacts ==
  ASSUME NEW n \in Nat \ {0}, NEW h \in 0..n - 1, NEW t \in 0..n - 1, NEW m \in Nat
  PROVE  /\ Fits(m, h, t, n) \in 0..m
         /\ Cell(h - t, n) + Fits(m, h, t, n) <= n - 1
<1> DEFINE a == t - h - 1
<1>1. -n <= a /\ a < n /\ a \in Int
  OBVIOUS
<1> HIDE DEF a
<1>2. Cell(a, n) = (IF a < 0 THEN a + n ELSE a) /\ Cell(a, n) \in 0..n - 1
  BY <1>1, CellDown
<1>3. Fits(m, h, t, n) = IF m < Cell(a, n) THEN m ELSE Cell(a, n)
  BY DEF Fits, Cell, a
<1>4. Cell(h - t, n) = IF h >= t THEN h - t ELSE h - t + n
  BY Distance
<1> QED BY <1>2, <1>3, <1>4 DEF a

(* The cell of the i-th byte behind tail t.                                *)
Nth(t, i, n) == IF t + i - 1 < n THEN t + i - 1 ELSE t + i - 1 - n

(* A ring of n cells for elements of B, its head and its tail.             *)
Ring(B, n, buf, h, t) ==
  n \in Nat \ {0} /\ buf \in [0..n - 1 -> B] /\ h \in 0..n - 1 /\ t \in 0..n - 1

(* What a ring holds is a sequence.                                        *)
LEMMA ContentsFacts ==
  ASSUME NEW B, NEW n, NEW buf, NEW h, NEW t, Ring(B, n, buf, h, t)
  PROVE  /\ Contents(buf, h, t, n) \in Seq(B)
         /\ Len(Contents(buf, h, t, n)) = Cell(h - t, n)
         /\ \A i \in 1..Cell(h - t, n) :
              Contents(buf, h, t, n)[i] = buf[Nth(t, i, n)]
<1> USE DEF Ring
<1> DEFINE len == Cell(h - t, n)
<1>1. len \in 0..n - 1
  BY Distance
<1>2. Contents(buf, h, t, n) = [i \in 1..len |-> buf[Cell(t + i - 1, n)]]
  BY DEF Contents, Cell
<1> HIDE DEF len
<1>3. ASSUME NEW i \in 1..len
      PROVE  /\ Cell(t + i - 1, n) = Nth(t, i, n)
             /\ Cell(t + i - 1, n) \in 0..n - 1
  <2> DEFINE a == t + i - 1
  <2>1. a \in 0..2 * n - 1
    BY <1>1
  <2> HIDE DEF a
  <2>2. Cell(a, n) = (IF a < n THEN a ELSE a - n) /\ Cell(a, n) \in 0..n - 1
    BY <2>1, CellUp
  <2> QED BY <2>2 DEF a, Nth
<1>4. \A i \in 1..len : buf[Cell(t + i - 1, n)] \in B
  BY <1>3
<1>5. Contents(buf, h, t, n) \in [1..len -> B]
  BY <1>2, <1>4
<1>6. Contents(buf, h, t, n) \in Seq(B) /\ Len(Contents(buf, h, t, n)) = len
  BY <1>1, <1>5
<1> QED BY <1>2, <1>3, <1>6 DEF len

(* Storing k bytes of s appends them.                                      *)
LEMMA StoredFacts ==
  ASSUME NEW B, NEW n, NEW buf, NEW h, NEW t, Ring(B, n, buf, h, t),
         NEW s \in Seq(B), NEW k \in 0..Len(s), Cell(h - t, n) + k <= n - 1
  PROVE  /\ Ring(B, n, Stored(buf, h, s, k, n), Cell(h + k, n), t)
         /\ Contents(Stored(buf, h, s, k, n), Cell(h + k, n), t, n)
              = Contents(buf, h, t, n) \o SubSeq(s, 1, k)
<1>a. n \in Nat \ {0} /\ buf \in [0..n - 1 -> B] /\ h \in 0..n - 1 /\ t \in 0..n - 1
  BY DEF Ring
<1> DEFINE b1 == Stored(buf, h, s, k, n)
           h1 == Cell(h + k, n)
           len == Cell(h - t, n)
<1>0. len + k <= n - 1 /\ k \in Nat
  OBVIOUS
<1>1. len = (IF h >= t THEN h - t ELSE h - t + n) /\ len \in 0..n - 1
  BY <1>a, Distance
<1>2. b1 = [i \in 0..n - 1 |-> IF Cell(i - h, n) < k THEN s[Cell(i - h, n) + 1] ELSE buf[i]]
  BY <1>a DEF Stored, Cell
<1>3. h1 = (IF h + k < n THEN h + k ELSE h + k - n) /\ h1 \in 0..n - 1
  <2> DEFINE a == h + k
  <2> HIDE DEF len
  <2>1. a \in 0..2 * n - 1
    BY <1>a, <1>0, <1>1
  <2> HIDE DEF a
  <2>2. Cell(a, n) = (IF a < n THEN a ELSE a - n) /\ Cell(a, n) \in 0..n - 1
    BY <1>a, <2>1, CellUp
  <2> QED BY <1>a, <2>2 DEF a
<1> HIDE DEF b1, h1, len
<1>4. Cell(h1 - t, n) = len + k
  <2>1. Cell(h1 - t, n) = IF h1 >= t THEN h1 - t ELSE h1 - t + n
    BY <1>a, <1>3, Distance
  <2> QED BY <1>a, <1>0, <1>1, <1>3, <2>1
<1>5. \A i \in 0..n - 1 : /\ Cell(i - h, n) = (IF i >= h THEN i - h ELSE i - h + n)
                          /\ Cell(i - h, n) \in 0..n - 1
  BY <1>a, Distance
<1>6. b1 \in [0..n - 1 -> B]
  <2>1. ASSUME NEW i \in 0..n - 1, Cell(i - h, n) < k PROVE s[Cell(i - h, n) + 1] \in B
    <3>1. Cell(i - h, n) + 1 \in 1..Len(s)
      BY <1>a, <1>5, <2>1
    <3> QED BY <3>1
  <2> QED BY <1>a, <1>2, <2>1
<1> DEFINE c == Contents(buf, h, t, n)
           c1 == Contents(b1, h1, t, n)
           w == SubSeq(s, 1, k)
<1>7. /\ c \in Seq(B) /\ Len(c) = len
      /\ \A i \in 1..len : c[i] = buf[Nth(t, i, n)]
  <2>1. /\ c \in Seq(B) /\ Len(c) = Cell(h - t, n)
        /\ \A i \in 1..Cell(h - t, n) : c[i] = buf[Nth(t, i, n)]
    BY ContentsFacts
  <2> QED BY <2>1 DEF len
<1>8. /\ c1 \in Seq(B) /\ Len(c1) = len + k
      /\ \A i \in 1..len + k : c1[i] = b1[Nth(t, i, n)]
  <2>1. /\ c1 \in Seq(B) /\ Len(c1) = Cell(h1 - t, n)
        /\ \A i \in 1..Cell(h1 - t, n) : c1[i] = b1[Nth(t, i, n)]
    <3>1. Ring(B, n, b1, h1, t)
      BY <1>a, <1>3, <1>6 DEF Ring
    <3> QED BY <3>1, ContentsFacts
  <2> QED BY <1>4, <2>1
<1>9. w \in Seq(B) /\ Len(w) = k /\ \A i \in 1..k : w[i] = s[i]
  BY SubSeqProperties
<1> HIDE DEF c, c1, w
<1>10. /\ c \o w \in Seq(B) /\ Len(c \o w) = len + k
       /\ \A i \in 1..len + k : (c \o w)[i] = IF i <= len THEN c[i] ELSE w[i - len]
  BY <1>7, <1>9, ConcatProperties
<1>11. ASSUME NEW i \in 1..len + k PROVE c1[i] = (c \o w)[i]
  <2> DEFINE j == Nth(t, i, n)
             d == IF j >= h THEN j - h ELSE j - h + n
  <2>1. i \in Int /\ len \in Int /\ j \in Int /\ d \in Int
    BY <1>a, <1>0, <1>1 DEF Nth
  <2>2. /\ j \in 0..n - 1
        /\ i <= len => ~(d < k)
        /\ ~(i <= len) => d < k /\ d + 1 = i - len /\ i - len \in 1..k
    BY <1>a, <1>0, <1>1, <2>1 DEF Nth
  <2>3. c1[i] = b1[j] /\ (i <= len => c[i] = buf[j])
    BY <1>1, <1>7, <1>8
  <2> HIDE DEF j
  <2>4. b1[j] = IF d < k THEN s[d + 1] ELSE buf[j]
    BY <1>a, <1>2, <1>5, <2>2
  <2> HIDE DEF d
  <2>5. CASE i <= len
    BY <1>10, <2>2, <2>3, <2>4, <2>5
  <2>6. CASE ~(i <= len)
    BY <1>9, <1>10, <2>2, <2>3, <2>4, <2>6
  <2> QED BY <2>5, <2>6
<1>12. c1 = c \o w
  BY <1>8, <1>10, <1>11, SeqEqual
<1>13. Ring(B, n, b1, h1, t)
  BY <1>a, <1>3, <1>6 DEF Ring
<1> QED BY <1>12, <1>13 DEF b1, h1, c, c1, w

(* Taking the byte at the tail.                                            *)
LEMMA AdvanceFacts ==
  ASSUME NEW B, NEW n, NEW buf, NEW h, NEW t, Ring(B, n, buf, h, t), h # t
  PROVE  /\ Ring(B, n, buf, h, Cell(t + 1, n))
         /\ Contents(buf, h, t, n) # <<>> /\ Head(Contents(buf, h, t, n)) = buf[t]
         /\ Contents(buf, h, Cell(t + 1, n), n) = Tail(Contents(buf, h, t, n))
<1>a. n \in Nat \ {0} /\ buf \in [0..n - 1 -> B] /\ h \in 0..n - 1 /\ t \in 0..n - 1
  BY DEF Ring
<1> DEFINE t1 == Cell(t + 1, n)
           len == Cell(h - t, n)
<1>1. len = (IF h >= t THEN h - t ELSE h - t + n) /\ len \in 0..n - 1
  BY <1>a, Distance
<1>2. t1 = (IF t + 1 < n THEN t + 1 ELSE t + 1 - n) /\ t1 \in 0..n - 1
  <2> DEFINE a == t + 1
  <2>1. a \in 0..2 * n - 1
    BY <1>a
  <2> HIDE DEF a
  <2>2. Cell(a, n) = (IF a < n THEN a ELSE a - n) /\ Cell(a, n) \in 0..n - 1
    BY <1>a, <2>1, CellUp
  <2> QED BY <1>a, <2>2 DEF a
<1> HIDE DEF t1, len
<1>3. Cell(h - t1, n) = len - 1 /\ len # 0
  <2>1. Cell(h - t1, n) = IF h >= t1 THEN h - t1 ELSE h - t1 + n
    BY <1>a, <1>2, Distance
  <2> QED BY <1>a, <1>1, <1>2, <2>1
<1>4. Ring(B, n, buf, h, t1)
  BY <1>a, <1>2 DEF Ring
<1> DEFINE c == Contents(buf, h, t, n)
           c1 == Contents(buf, h, t1, n)
<1>5. c \in Seq(B) /\ Len(c) = len /\ \A i \in 1..len : c[i] = buf[Nth(t, i, n)]
  <2>1. /\ c \in Seq(B) /\ Len(c) = Cell(h - t, n)
        /\ \A i \in 1..Cell(h - t, n) : c[i] = buf[Nth(t, i, n)]
    BY ContentsFacts
  <2> QED BY <2>1 DEF len
<1>6. c1 \in Seq(B) /\ Len(c1) = len - 1 /\ \A i \in 1..len - 1 : c1[i] = buf[Nth(t1, i, n)]
  <2>1. /\ c1 \in Seq(B) /\ Len(c1) = Cell(h - t1, n)
        /\ \A i \in 1..Cell(h - t1, n) : c1[i] = buf[Nth(t1, i, n)]
    BY <1>4, ContentsFacts
  <2> QED BY <1>3, <2>1
<1> HIDE DEF c, c1
<1>7. c # <<>>
  BY <1>1, <1>3, <1>5, EmptySeq
<1>8. Head(c) = buf[t]
  <2>1. Nth(t, 1, n) = t /\ 1 \in 1..len
    BY <1>a, <1>1, <1>3 DEF Nth
  <2>2. Head(c) = c[1]
    BY <1>5
  <2> QED BY <1>5, <2>1, <2>2
<1>9. /\ Tail(c) \in Seq(B) /\ Len(Tail(c)) = len - 1
      /\ \A i \in 1..len - 1 : Tail(c)[i] = c[i + 1]
  BY <1>5, <1>7, HeadTailProperties
<1>10. ASSUME NEW i \in 1..len - 1 PROVE c1[i] = Tail(c)[i]
  <2>1. Nth(t1, i, n) = Nth(t, i + 1, n) /\ i + 1 \in 1..len
    BY <1>a, <1>1, <1>2 DEF Nth
  <2> QED BY <1>5, <1>6, <1>9, <2>1
<1>11. c1 = Tail(c)
  BY <1>6, <1>9, <1>10, SeqEqual
<1> QED BY <1>4, <1>7, <1>8, <1>11 DEF t1, c, c1

LEMMA ConcatFacts ==
  ASSUME NEW S, NEW s, NEW w, s \in Seq(S), w \in Seq(S)
  PROVE  s \o w \in Seq(S) /\ Len(s \o w) = Len(s) + Len(w) /\ Len(s) \in Nat
  BY ConcatProperties

LEMMA TailOfConcat ==
  ASSUME NEW S, NEW s \in Seq(S), NEW w \in Seq(S), s # <<>>
  PROVE  Tail(s \o w) = Tail(s) \o w
<1>1. Len(s) \in Nat \ {0} /\ Len(w) \in Nat
  BY EmptySeq
<1>2. /\ s \o w \in Seq(S) /\ Len(s \o w) = Len(s) + Len(w)
      /\ \A i \in 1..Len(s) + Len(w) : (s \o w)[i] = IF i <= Len(s) THEN s[i] ELSE w[i - Len(s)]
  BY ConcatProperties
<1>3. s \o w # <<>>
  BY <1>1, <1>2, EmptySeq
<1>4. /\ Tail(s) \in Seq(S) /\ Len(Tail(s)) = Len(s) - 1
      /\ \A i \in 1..Len(s) - 1 : Tail(s)[i] = s[i + 1]
  BY HeadTailProperties
<1>5. /\ Tail(s \o w) \in Seq(S) /\ Len(Tail(s \o w)) = Len(s) + Len(w) - 1
      /\ \A i \in 1..Len(s) + Len(w) - 1 : Tail(s \o w)[i] = (s \o w)[i + 1]
  BY <1>2, <1>3, HeadTailProperties
<1>6. /\ Tail(s) \o w \in Seq(S) /\ Len(Tail(s) \o w) = Len(s) - 1 + Len(w)
      /\ \A i \in 1..Len(s) - 1 + Len(w) :
           (Tail(s) \o w)[i] = IF i <= Len(s) - 1 THEN Tail(s)[i] ELSE w[i - (Len(s) - 1)]
  BY <1>4, ConcatProperties
<1>7. ASSUME NEW i \in 1..Len(s) + Len(w) - 1 PROVE Tail(s \o w)[i] = (Tail(s) \o w)[i]
  <2>1. /\ i + 1 \in 1..Len(s) + Len(w) /\ (i + 1 <= Len(s) <=> i <= Len(s) - 1)
        /\ i + 1 - Len(s) = i - (Len(s) - 1) /\ i \in 1..Len(s) - 1 + Len(w)
    BY <1>1
  <2>2. CASE i <= Len(s) - 1
    <3>1. i \in 1..Len(s) - 1
      BY <1>1, <2>2
    <3> QED BY <1>2, <1>4, <1>5, <1>6, <2>1, <2>2, <3>1
  <2>3. CASE ~(i <= Len(s) - 1)
    BY <1>2, <1>5, <1>6, <2>1, <2>3
  <2> QED BY <2>2, <2>3
<1> DEFINE u == Tail(s \o w)
           v == Tail(s) \o w
<1>8. u \in Seq(S) /\ v \in Seq(S) /\ Len(u) = Len(v) /\ \A i \in 1..Len(u) : u[i] = v[i]
  BY <1>1, <1>5, <1>6, <1>7
<1> HIDE DEF u, v
<1>9. u = v
  BY <1>8, SeqEqual
<1> QED BY <1>9 DEF u, v

-----------------------------------------------------------------------------
(* The inductive invariant: while a byte is being taken the ring is not    *)
(* empty, and AT_Poll holds bytes just while it reads and parses.          *)

ReaderInv ==
  /\ pc = "advance" => cdc_rx_head # cdc_rx_tail
  /\ pc \in {"read", "advance", "parse"} <=> cdc_buf # <<>>

IInv == TypeOK /\ ReaderInv

RxRing == Ring(Byte, CDC_RX_BUF_SIZE, cdc_rx_buf, cdc_rx_head, cdc_rx_tail)
TxRing == Ring(Out, CDC_TX_BUF_SIZE, cdc_tx_buf, cdc_tx_head, cdc_tx_tail)
Ctrl == [t_res : {"ACK", "NAK", "STALL"}, r_res : {"ACK", "STALL"}, r_tog : {0, 1}]

LEMMA TypeRings ==
  ASSUME TypeOK
  PROVE  RxRing /\ TxRing /\ R8_UEP1_CTRL \in Ctrl /\ ctrl \in Ctrl
<1>1. CDC_RX_BUF_SIZE \in Nat \ {0} /\ CDC_TX_BUF_SIZE \in Nat \ {0}
  BY SizesAssumption
<1> QED BY <1>1 DEF TypeOK, RxRing, TxRing, Ring, Ctrl

(* TypeOK, by what a step touches.                                         *)
UsbOK  == DevConfig \in BOOLEAN /\ cdcReady \in BOOLEAN /\ cdc_tx_evt \subseteq {"set", "timer"}
EpOK   == R8_UEP1_CTRL \in Ctrl /\ ctrl \in Ctrl /\ ep1_in \in Seq(Out)
HostOK == h_tog \in {0, 1} /\ h_pkt \in Seq(Byte) /\ packets \in 0..MaxPackets
TaskOK ==
  /\ pc \in {"idle", "read", "advance", "parse", "arm"}
  /\ cdc_buf \in Seq(Byte) /\ Len(cdc_buf) <= EP1_SIZE
LineOK ==
  /\ at_line \in Seq({"uart", "cdc"}) /\ Len(at_line) < AT_LINE_MAX
  /\ at_channel \in {"uart", "cdc"} /\ uarts \in 0..MaxUart

LEMMA TypeParts == TypeOK <=> RxRing /\ TxRing /\ UsbOK /\ EpOK /\ HostOK /\ TaskOK /\ LineOK
<1>1. CDC_RX_BUF_SIZE \in Nat \ {0} /\ CDC_TX_BUF_SIZE \in Nat \ {0}
  BY SizesAssumption
<1>2. TypeOK => RxRing /\ TxRing /\ EpOK
  BY TypeRings DEF TypeOK, EpOK
<1>3. TypeOK => UsbOK /\ HostOK /\ TaskOK /\ LineOK
  BY DEF TypeOK, UsbOK, HostOK, TaskOK, LineOK
<1>4. RxRing /\ TxRing =>
        /\ cdc_rx_buf \in [0..(CDC_RX_BUF_SIZE - 1) -> Byte]
        /\ {cdc_rx_head, cdc_rx_tail} \subseteq 0..(CDC_RX_BUF_SIZE - 1)
        /\ cdc_tx_buf \in [0..(CDC_TX_BUF_SIZE - 1) -> Out]
        /\ {cdc_tx_head, cdc_tx_tail} \subseteq 0..(CDC_TX_BUF_SIZE - 1)
  BY DEF RxRing, TxRing, Ring
<1>5. EpOK => {R8_UEP1_CTRL, ctrl} \subseteq
         [t_res : {"ACK", "NAK", "STALL"}, r_res : {"ACK", "STALL"}, r_tog : {0, 1}]
  BY DEF EpOK, Ctrl
<1>6. RxRing /\ TxRing /\ UsbOK /\ EpOK /\ HostOK /\ TaskOK /\ LineOK => TypeOK
  BY <1>4, <1>5 DEF TypeOK, UsbOK, EpOK, HostOK, TaskOK, LineOK
<1> QED BY <1>2, <1>3, <1>6

LEMMA TypePartsNext ==
  ASSUME RxRing', TxRing', UsbOK', EpOK', HostOK', TaskOK', LineOK'
  PROVE  TypeOK'
<1>1. /\ cdc_rx_buf' \in [0..(CDC_RX_BUF_SIZE - 1) -> Byte]
      /\ {cdc_rx_head', cdc_rx_tail'} \subseteq 0..(CDC_RX_BUF_SIZE - 1)
      /\ cdc_tx_buf' \in [0..(CDC_TX_BUF_SIZE - 1) -> Out]
      /\ {cdc_tx_head', cdc_tx_tail'} \subseteq 0..(CDC_TX_BUF_SIZE - 1)
  BY DEF RxRing, TxRing, Ring
<1>2. {R8_UEP1_CTRL', ctrl'} \subseteq
         [t_res : {"ACK", "NAK", "STALL"}, r_res : {"ACK", "STALL"}, r_tog : {0, 1}]
  BY DEF EpOK, Ctrl
<1> QED BY <1>1, <1>2 DEF TypeOK, UsbOK, EpOK, HostOK, TaskOK, LineOK

-----------------------------------------------------------------------------
(* The queue of the refinement, while the ring is touched.                 *)

RxHeld == Contents(cdc_rx_buf, cdc_rx_head, cdc_rx_tail, CDC_RX_BUF_SIZE)

LEMMA RxQueueFacts ==
  ASSUME IInv
  PROVE  /\ RxHeld \in Seq(Byte) /\ RxQueue \in Seq(Byte)
         /\ pc = "advance" => RxHeld # <<>> /\ RxQueue = Tail(RxHeld)
         /\ pc # "advance" => RxQueue = RxHeld
         /\ Len(RxQueue) <= Len(RxHeld)
         /\ Len(RxHeld) = Cell(cdc_rx_head - cdc_rx_tail, CDC_RX_BUF_SIZE)
<1>1. RxRing
  BY TypeRings DEF IInv
<1>2. /\ RxHeld \in Seq(Byte)
      /\ Len(RxHeld) = Cell(cdc_rx_head - cdc_rx_tail, CDC_RX_BUF_SIZE)
  BY <1>1, ContentsFacts DEF RxRing, RxHeld
<1>3. pc = "advance" => RxHeld # <<>>
  BY <1>1, AdvanceFacts DEF RxRing, RxHeld, IInv, ReaderInv
<1>4. RxQueue = IF pc = "advance" THEN Tail(RxHeld) ELSE RxHeld
  BY DEF RxQueue, RxHeld
<1> HIDE DEF RxHeld
<1>5. pc = "advance" => Tail(RxHeld) \in Seq(Byte) /\ Len(Tail(RxHeld)) = Len(RxHeld) - 1
  BY <1>2, <1>3, HeadTailProperties
<1>6. Len(RxHeld) \in Nat
  BY <1>2
<1> QED BY <1>2, <1>3, <1>4, <1>5, <1>6

(* The interrupt handler stores a packet: the queue takes what fits, or    *)
(* nothing.                                                                *)
LEMMA RxPut ==
  ASSUME IInv, NEW p \in Seq(Byte), cdc_recv_data(p), UNCHANGED <<pc, cdc_buf>>
  PROVE  RxRing' /\ (pc = "advance" => cdc_rx_head' # cdc_rx_tail') /\ (Rx!Put \/ UNCHANGED Rx!fifo)
<1> DEFINE n == CDC_RX_BUF_SIZE
           k == Fits(Len(p), cdc_rx_head, cdc_rx_tail, n)
           w == SubSeq(p, 1, k)
<1>1. RxRing /\ n \in Nat \ {0}
  BY TypeRings, SizesAssumption DEF IInv
<1>2. cdc_rx_head \in 0..n - 1 /\ cdc_rx_tail \in 0..n - 1 /\ Len(p) \in Nat
  BY <1>1 DEF RxRing, Ring
<1>3. k \in 0..Len(p) /\ Cell(cdc_rx_head - cdc_rx_tail, n) + k <= n - 1
  BY <1>1, <1>2, FitsFacts
<1>4. /\ cdc_rx_buf' = Stored(cdc_rx_buf, cdc_rx_head, p, k, n)
      /\ cdc_rx_head' = Cell(cdc_rx_head + k, n) /\ cdc_rx_tail' = cdc_rx_tail
  BY DEF cdc_recv_data, Cell
<1> HIDE DEF k
<1>5. /\ Ring(Byte, n, cdc_rx_buf', cdc_rx_head', cdc_rx_tail)
      /\ Contents(cdc_rx_buf', cdc_rx_head', cdc_rx_tail, n) = RxHeld \o w
  BY <1>1, <1>3, <1>4, StoredFacts DEF RxRing, RxHeld
<1>6. RxHeld' = RxHeld \o w /\ RxRing'
  BY <1>4, <1>5 DEF RxHeld, RxRing
<1>7. w \in Seq(Byte) /\ Len(w) = k
  BY <1>3, SubSeqProperties
<1> HIDE DEF w
<1>8. /\ RxHeld \in Seq(Byte) /\ RxQueue \in Seq(Byte) /\ Len(RxQueue) <= Len(RxHeld)
      /\ Len(RxHeld) = Cell(cdc_rx_head - cdc_rx_tail, n)
  BY RxQueueFacts
<1>9. RxQueue' = RxQueue \o w
  <2>1. RxQueue' = IF pc = "advance" THEN Tail(RxHeld') ELSE RxHeld'
    BY DEF RxQueue, RxHeld
  <2>2. CASE pc = "advance"
    BY <1>6, <1>7, <1>8, <2>1, <2>2, RxQueueFacts, TailOfConcat
  <2>3. CASE pc # "advance"
    BY <1>6, <2>1, <2>3, RxQueueFacts
  <2> QED BY <2>2, <2>3
<1>10. /\ RxQueue \o w \in Seq(Byte) /\ Len(RxQueue \o w) = Len(RxQueue) + k
       /\ RxHeld \o w \in Seq(Byte) /\ Len(RxHeld \o w) = Len(RxHeld) + k
       /\ Len(RxQueue) \in Nat /\ Len(RxHeld) \in Nat
  <2> DEFINE c == RxHeld
             q == RxQueue
  <2>1. c \in Seq(Byte) /\ q \in Seq(Byte)
    BY <1>8
  <2> HIDE DEF c, q
  <2>2. c \o w \in Seq(Byte) /\ Len(c \o w) = Len(c) + k /\ Len(c) \in Nat
    BY <1>7, <2>1, ConcatFacts
  <2>3. q \o w \in Seq(Byte) /\ Len(q \o w) = Len(q) + k /\ Len(q) \in Nat
    BY <1>7, <2>1, ConcatFacts
  <2> QED BY <2>2, <2>3 DEF c, q
<1>11. pc = "advance" => cdc_rx_head' # cdc_rx_tail'
  <2> SUFFICES ASSUME pc = "advance", cdc_rx_head' = cdc_rx_tail' PROVE FALSE
    OBVIOUS
  <2>1. Len(RxHeld) \in Nat \ {0}
    BY <1>8, RxQueueFacts, EmptySeq
  <2>2. Len(RxHeld') = Cell(cdc_rx_head' - cdc_rx_tail', n)
    BY <1>6, ContentsFacts DEF RxRing, RxHeld
  <2>3. Cell(cdc_rx_head' - cdc_rx_tail', n) = 0
    <3>1. cdc_rx_head' \in 0..n - 1 /\ cdc_rx_tail' \in 0..n - 1
      BY <1>6 DEF RxRing, Ring
    <3>2. Cell(cdc_rx_head' - cdc_rx_tail', n)
            = IF cdc_rx_head' >= cdc_rx_tail' THEN cdc_rx_head' - cdc_rx_tail'
              ELSE cdc_rx_head' - cdc_rx_tail' + n
      BY <1>1, <3>1, Distance
    <3> QED BY <3>1, <3>2
  <2> QED BY <1>3, <1>6, <1>10, <2>1, <2>2, <2>3
<1>12. CASE k = 0
  <2>1. w = <<>>
    BY <1>7, <1>12, EmptySeq
  <2>2. RxQueue' = RxQueue
    BY <1>8, <1>9, <2>1, ConcatEmptySeq
  <2> QED BY <1>6, <1>11, <2>2 DEF Rx!fifo
<1>13. CASE k # 0
  <2>1. Len(RxQueue') > Len(RxQueue) /\ Len(RxQueue') <= n - 1
    <3> DEFINE held == Len(RxHeld)
               queued == Len(RxQueue)
    <3>1. /\ queued \in Nat /\ held \in Nat /\ queued <= held /\ held + k <= n - 1
          /\ Len(RxQueue') = queued + k
      BY <1>3, <1>8, <1>9, <1>10
    <3> HIDE DEF held, queued
    <3>2. queued + k > queued /\ queued + k <= n - 1
      BY <1>1, <1>3, <1>13, <3>1
    <3> QED BY <3>1, <3>2 DEF queued
  <2>2. SubSeq(RxQueue', 1, Len(RxQueue)) = RxQueue
    <3>1. CASE RxQueue = <<>>
      <4>1. Len(RxQueue) = 0 /\ SubSeq(RxQueue', 1, 0) = <<>>
        BY <3>1, EmptySeq, SubSeqEmpty
      <4> QED BY <3>1, <4>1
    <3>2. CASE RxQueue # <<>>
      <4>1. 1 \in 1..Len(RxQueue) /\ Len(RxQueue) \in 1..Len(RxQueue)
        BY <1>8, <3>2, EmptySeq
      <4>2. SubSeq(RxQueue \o w, 1, Len(RxQueue)) = SubSeq(RxQueue, 1, Len(RxQueue))
        BY <1>7, <1>8, <4>1, SubSeqOfConcat1
      <4>3. SubSeq(RxQueue, 1, Len(RxQueue)) = RxQueue
        BY <1>8, SubSeqFull
      <4> QED BY <1>9, <4>2, <4>3
    <3> QED BY <3>1, <3>2
  <2>3. \A i \in 1..Len(RxQueue') : RxQueue'[i] \in Byte
    BY <1>9, <1>10, ElementOfSeq
  <2>4. Rx!Put
    BY <2>1, <2>2, <2>3 DEF Rx!Put
  <2> QED BY <1>6, <1>11, <2>4
<1> QED BY <1>12, <1>13

(* A byte is copied out: it leaves the queue.                              *)
LEMMA RxGet ==
  ASSUME IInv, ReadByte
  PROVE  Rx!Get /\ cdc_buf' \in Seq(Byte) /\ cdc_buf' # <<>> /\ Len(cdc_buf') <= EP1_SIZE
<1>1. /\ RxRing /\ cdc_buf \in Seq(Byte) /\ cdc_rx_head # cdc_rx_tail /\ pc # "advance"
      /\ Len(cdc_buf) < EP1_SIZE /\ pc' = "advance" /\ UNCHANGED rx
      /\ cdc_buf' = Append(cdc_buf, cdc_rx_buf[cdc_rx_tail])
  BY TypeRings DEF IInv, TypeOK, ReadByte
<1>2. RxHeld # <<>> /\ Head(RxHeld) = cdc_rx_buf[cdc_rx_tail]
  <2>1. /\ Ring(Byte, CDC_RX_BUF_SIZE, cdc_rx_buf, cdc_rx_head, cdc_rx_tail)
        /\ cdc_rx_head # cdc_rx_tail
    BY <1>1 DEF RxRing
  <2>2. /\ Ring(Byte, CDC_RX_BUF_SIZE, cdc_rx_buf, cdc_rx_head,
                 Cell(cdc_rx_tail + 1, CDC_RX_BUF_SIZE))
        /\ Contents(cdc_rx_buf, cdc_rx_head, cdc_rx_tail, CDC_RX_BUF_SIZE) # <<>>
        /\ Head(Contents(cdc_rx_buf, cdc_rx_head, cdc_rx_tail, CDC_RX_BUF_SIZE))
             = cdc_rx_buf[cdc_rx_tail]
    BY <2>1, AdvanceFacts
  <2> QED BY <2>2 DEF RxHeld
<1>3. RxHeld \in Seq(Byte) /\ RxQueue = RxHeld
  BY <1>1, RxQueueFacts
<1>4. RxQueue' = Tail(RxHeld)
  BY <1>1 DEF RxQueue, RxHeld, rx
<1> HIDE DEF RxHeld
<1>5. Len(RxHeld) \in Nat \ {0} /\ Head(RxHeld) \in Byte /\ Head(RxHeld) = RxHeld[1]
  BY <1>2, <1>3, EmptySeq, HeadTailProperties
<1>6. Tail(RxHeld) = SubSeq(RxHeld, 2, Len(RxHeld))
  BY <1>2, <1>3, TailIsSubSeq
<1>7. SubSeq(RxHeld, 1, 1) = <<Head(RxHeld)>>
  <2>1. /\ SubSeq(RxHeld, 1, 1) \in Seq(Byte) /\ Len(SubSeq(RxHeld, 1, 1)) = 1
        /\ SubSeq(RxHeld, 1, 1)[1] = RxHeld[1]
    <3>1. \A i \in 1..1 : RxHeld[i] \in Byte
      BY <1>5
    <3> QED BY <3>1, SubSeqProperties
  <2>2. /\ <<Head(RxHeld)>> \in Seq(Byte) /\ Len(<<Head(RxHeld)>>) = 1
        /\ <<Head(RxHeld)>>[1] = RxHeld[1]
    BY <1>5
  <2> DEFINE u == SubSeq(RxHeld, 1, 1)
             v == <<Head(RxHeld)>>
  <2>3. u \in Seq(Byte) /\ v \in Seq(Byte) /\ Len(u) = 1 /\ Len(v) = 1 /\ u[1] = v[1]
    BY <2>1, <2>2
  <2> HIDE DEF u, v
  <2>4. \A i \in 1..Len(u) : u[i] = v[i]
    BY <2>3
  <2>5. u = v
    BY <2>3, <2>4, SeqEqual
  <2> QED BY <2>5 DEF u, v
<1>8. cdc_buf' = cdc_buf \o SubSeq(RxHeld, 1, 1)
  BY <1>1, <1>2, <1>5, <1>7, AppendIsConcat
<1>9. Rx!Get
  <2>1. 1 \in 1..Len(RxQueue) /\ RxQueue' = SubSeq(RxQueue, 1 + 1, Len(RxQueue))
    BY <1>3, <1>4, <1>5, <1>6
  <2> QED BY <1>3, <1>8, <2>1 DEF Rx!Get
<1>10. cdc_buf' \in Seq(Byte) /\ cdc_buf' # <<>> /\ Len(cdc_buf') <= EP1_SIZE
  <2>1. cdc_buf' \in Seq(Byte) /\ cdc_buf' # <<>> /\ Len(cdc_buf') = Len(cdc_buf) + 1
    BY <1>1, <1>2, <1>5, AppendProperties
  <2>2. Len(cdc_buf) \in Nat /\ EP1_SIZE \in Nat
    BY <1>1, SizesAssumption
  <2> QED BY <1>1, <2>1, <2>2
<1> QED BY <1>9, <1>10

(* Its place is given back: the queue has let it go already.               *)
LEMMA RxAdvance ==
  ASSUME IInv, ReadAdvance
  PROVE  RxRing' /\ UNCHANGED Rx!fifo
<1>1. /\ RxRing /\ pc = "advance" /\ pc' = "read" /\ cdc_rx_head # cdc_rx_tail
      /\ UNCHANGED <<cdc_rx_buf, cdc_rx_head, cdc_buf>>
      /\ cdc_rx_tail' = Cell(cdc_rx_tail + 1, CDC_RX_BUF_SIZE)
  BY TypeRings DEF IInv, ReaderInv, ReadAdvance, Cell
<1>2. /\ Ring(Byte, CDC_RX_BUF_SIZE, cdc_rx_buf, cdc_rx_head, cdc_rx_tail')
      /\ Contents(cdc_rx_buf, cdc_rx_head, cdc_rx_tail', CDC_RX_BUF_SIZE) = Tail(RxHeld)
  BY <1>1, AdvanceFacts DEF RxRing, RxHeld
<1>3. RxQueue' = Tail(RxHeld) /\ RxQueue = Tail(RxHeld)
  BY <1>1, <1>2 DEF RxQueue, RxHeld
<1> QED BY <1>1, <1>2, <1>3 DEF Rx!fifo, RxRing

(* The parser is done with a byte.                                         *)
LEMMA RxUsed ==
  ASSUME IInv, ParseCdc
  PROVE  /\ Rx!Used /\ cdc_buf' \in Seq(Byte) /\ Len(cdc_buf') <= EP1_SIZE
         /\ Head(cdc_buf) \in Byte
         /\ pc' = "parse" \/ pc' = "idle"
         /\ pc' = "parse" <=> cdc_buf' # <<>>
<1>1. /\ cdc_buf \in Seq(Byte) /\ cdc_buf # <<>> /\ cdc_buf' = Tail(cdc_buf) /\ UNCHANGED rx
      /\ pc = "parse" /\ pc' = (IF Len(cdc_buf) = 1 THEN "idle" ELSE "parse")
      /\ Len(cdc_buf) <= EP1_SIZE
  BY DEF IInv, TypeOK, ReaderInv, ParseCdc
<1>2. /\ Tail(cdc_buf) \in Seq(Byte) /\ Len(Tail(cdc_buf)) = Len(cdc_buf) - 1
      /\ Head(cdc_buf) \in Byte /\ Len(cdc_buf) \in Nat \ {0}
  BY <1>1, HeadTailProperties, EmptySeq
<1>3. Tail(cdc_buf) = SubSeq(cdc_buf, 2, Len(cdc_buf))
  BY <1>1, TailIsSubSeq
<1>4. RxQueue' = RxQueue
  BY <1>1 DEF RxQueue, rx
<1>5. Rx!Used
  <2>1. 1 \in 1..Len(cdc_buf) /\ cdc_buf' = SubSeq(cdc_buf, 1 + 1, Len(cdc_buf))
    BY <1>1, <1>2, <1>3
  <2> QED BY <1>1, <1>4, <2>1 DEF Rx!Used
<1>6. Len(cdc_buf') <= EP1_SIZE
  BY <1>1, <1>2, SizesAssumption
<1>7. pc' = "parse" <=> cdc_buf' # <<>>
  <2>1. Tail(cdc_buf) = <<>> <=> Len(Tail(cdc_buf)) = 0
    BY <1>2, EmptySeq
  <2>2. Len(Tail(cdc_buf)) = 0 <=> Len(cdc_buf) = 1
    BY <1>2
  <2> QED BY <1>1, <2>1, <2>2
<1> QED BY <1>1, <1>2, <1>5, <1>6, <1>7

-----------------------------------------------------------------------------
(* Every step keeps the invariant and is one of the queue, or none.        *)

(* The reader and its ring are left alone.                                 *)
LEMMA ReaderKept ==
  ASSUME IInv, UNCHANGED <<rx, cdc_buf>>, pc' = "advance" <=> pc = "advance",
         pc' \in {"read", "advance", "parse"} <=> pc \in {"read", "advance", "parse"}
  PROVE  RxRing' /\ ReaderInv' /\ UNCHANGED Rx!fifo
<1>1. RxRing
  BY TypeRings DEF IInv
<1>2. RxRing' /\ ReaderInv'
  BY <1>1 DEF RxRing, rx, IInv, ReaderInv
<1>3. RxQueue' = RxQueue
  BY DEF RxQueue, rx
<1> QED BY <1>2, <1>3 DEF Rx!fifo

LEMMA TokenOutStep ==
  ASSUME IInv, NEW p \in Packets, TokenOut(p)
  PROVE  IInv' /\ (Rx!Put \/ UNCHANGED Rx!fifo)
<1> USE DEF TokenOut
<1>1. /\ RxRing /\ TxRing /\ UsbOK /\ EpOK /\ HostOK /\ TaskOK /\ LineOK
  BY TypeParts DEF IInv
<1>2. p \in Seq(Byte)
  BY DEF Packets
<1>3. R8_UEP1_CTRL' \in Ctrl
  BY <1>1 DEF EpOK, Ctrl
<1>4. HostOK'
  <2>1. packets' \in 0..MaxPackets
    BY <1>1, SizesAssumption DEF HostOK
  <2>2. h_pkt' = <<>> \/ h_pkt' = p
    OBVIOUS
  <2>3. h_pkt' \in Seq(Byte)
    BY <1>2, <2>2, EmptySeq
  <2>4. h_tog' = 1 - h_tog \/ h_tog' = h_tog
    OBVIOUS
  <2>5. h_tog' \in {0, 1}
    BY <1>1, <2>4 DEF HostOK
  <2> QED BY <2>1, <2>3, <2>5 DEF HostOK
<1>5. TxRing' /\ UsbOK' /\ EpOK' /\ TaskOK' /\ LineOK'
  BY <1>1, <1>3 DEF TxRing, UsbOK, EpOK, TaskOK, LineOK, tx, usb, task, parser
<1>6. RxRing' /\ ReaderInv' /\ (Rx!Put \/ UNCHANGED Rx!fifo)
  <2>1. CASE h_tog = R8_UEP1_CTRL.r_tog
    BY <1>2, <2>1, RxPut DEF task, IInv, ReaderInv
  <2>2. CASE h_tog # R8_UEP1_CTRL.r_tog
    BY <2>2, ReaderKept DEF task
  <2> QED BY <2>1, <2>2
<1>7. TypeOK'
  BY <1>4, <1>5, <1>6, TypePartsNext
<1> QED BY <1>6, <1>7 DEF IInv

LEMMA UsbStep ==
  ASSUME IInv, TokenIn \/ SetConfiguration \/ SetControlLine \/ Feature \/ BusReset
  PROVE  IInv' /\ UNCHANGED Rx!fifo
<1>1. /\ RxRing /\ TxRing /\ UsbOK /\ EpOK /\ HostOK /\ TaskOK /\ LineOK
  BY TypeParts DEF IInv
<1>2. UNCHANGED <<rx, tx, task, parser, cdc_tx_evt, packets>>
  BY DEF TokenIn, SetConfiguration, SetControlLine, Feature, BusReset, host
<1>3. DevConfig' \in BOOLEAN /\ cdcReady' \in BOOLEAN
  BY <1>1 DEF TokenIn, SetConfiguration, SetControlLine, Feature, BusReset, usb, UsbOK
<1>4. R8_UEP1_CTRL' \in Ctrl
  <2>1. R8_UEP1_CTRL \in Ctrl
    BY <1>1 DEF EpOK
  <2>2. CASE TokenIn
    BY <2>1, <2>2 DEF TokenIn, Ctrl
  <2>3. CASE SetConfiguration \/ SetControlLine
    BY <2>1, <2>3 DEF SetConfiguration, SetControlLine
  <2>4. CASE Feature
    BY <2>1, <2>4 DEF Feature, Ctrl
  <2>5. CASE BusReset
    BY <2>5 DEF BusReset, UepReset, Ctrl
  <2> QED BY <2>2, <2>3, <2>4, <2>5
<1>5. ep1_in' \in Seq(Out)
  BY <1>1, EmptySeq DEF TokenIn, SetConfiguration, SetControlLine, Feature, BusReset, EpOK
<1>6. h_tog' \in {0, 1} /\ h_pkt' \in Seq(Byte)
  BY <1>1, EmptySeq
     DEF TokenIn, SetConfiguration, SetControlLine, Feature, BusReset, host, HostOK
<1>7. TxRing' /\ UsbOK' /\ EpOK' /\ HostOK' /\ TaskOK' /\ LineOK'
  BY <1>1, <1>2, <1>3, <1>4, <1>5, <1>6
     DEF TxRing, UsbOK, EpOK, HostOK, TaskOK, LineOK, tx, task, parser
<1>8. RxRing' /\ ReaderInv' /\ UNCHANGED Rx!fifo
  BY <1>2, ReaderKept DEF task
<1>9. TypeOK'
  BY <1>7, <1>8, TypePartsNext
<1> QED BY <1>8, <1>9 DEF IInv

(* What the transmit task loads.                                           *)
LEMMA TxLoadFacts ==
  ASSUME IInv, TxLoad
  PROVE  TxRing' /\ ep1_in' \in Seq(Out)
<1>1. TxRing
  BY TypeRings DEF IInv
<1>2. /\ CDC_TX_BUF_SIZE \in Nat \ {0} /\ CDC_TX_BUF_SIZE <= 65536
      /\ cdc_tx_buf \in [0..CDC_TX_BUF_SIZE - 1 -> Out]
      /\ cdc_tx_head \in 0..CDC_TX_BUF_SIZE - 1 /\ cdc_tx_tail \in 0..CDC_TX_BUF_SIZE - 1
  BY <1>1, SizesAssumption DEF TxRing, Ring
<1>3. TxCount \in Nat
  BY <1>2, SizesAssumption DEF TxCount
<1>4. /\ ep1_in' = [i \in 1..TxCount |-> cdc_tx_buf[Cell(cdc_tx_tail + i - 1, CDC_TX_BUF_SIZE)]]
      /\ cdc_tx_tail' = Cell(cdc_tx_tail + TxCount, CDC_TX_BUF_SIZE)
      /\ UNCHANGED <<cdc_tx_buf, cdc_tx_head>>
  BY DEF TxLoad, Cell
<1> DEFINE k == TxCount
<1> HIDE DEF k
<1>5. k \in Nat
  BY <1>3 DEF k
<1>6. ep1_in' = [i \in 1..k |-> cdc_tx_buf[Cell(cdc_tx_tail + i - 1, CDC_TX_BUF_SIZE)]]
  BY <1>4 DEF k
<1>7. ASSUME NEW i \in 1..k
      PROVE  cdc_tx_buf[Cell(cdc_tx_tail + i - 1, CDC_TX_BUF_SIZE)] \in Out
  <2> DEFINE a == cdc_tx_tail + i - 1
  <2>1. a \in Int
    BY <1>2
  <2> HIDE DEF a
  <2>2. Cell(a, CDC_TX_BUF_SIZE) \in 0..CDC_TX_BUF_SIZE - 1
    BY <1>2, <2>1, CellRange
  <2>3. cdc_tx_buf[Cell(a, CDC_TX_BUF_SIZE)] \in Out
    BY <1>2, <2>2
  <2> QED BY <2>3 DEF a
<1>8. ep1_in' \in [1..k -> Out]
  BY <1>6, <1>7
<1>9. ep1_in' \in Seq(Out)
  BY <1>5, <1>8
<1>10. cdc_tx_tail' \in 0..CDC_TX_BUF_SIZE - 1
  <2> DEFINE a == cdc_tx_tail + TxCount
  <2>1. a \in Int
    BY <1>2, <1>3
  <2> HIDE DEF a
  <2>2. Cell(a, CDC_TX_BUF_SIZE) \in 0..CDC_TX_BUF_SIZE - 1
    BY <1>2, <2>1, CellRange
  <2> QED BY <1>4, <2>2 DEF a
<1>11. TxRing'
  BY <1>2, <1>4, <1>10 DEF TxRing, Ring
<1> QED BY <1>9, <1>11

LEMMA TxStep ==
  ASSUME IInv, TxTask
  PROVE  IInv' /\ UNCHANGED Rx!fifo
<1>1. /\ RxRing /\ TxRing /\ UsbOK /\ EpOK /\ HostOK /\ TaskOK /\ LineOK
  BY TypeParts DEF IInv
<1>2. UNCHANGED <<usb, rx, host, cdc_buf, parser>>
  BY DEF TxTask, TxTimer, TxEmpty, TxBusy, TxLoad, TxArm, task
<1>3. cdc_tx_evt' \subseteq {"set", "timer"}
  BY <1>1 DEF TxTask, TxTimer, TxEmpty, TxBusy, TxLoad, TxArm, UsbOK
<1>4. pc' \in {"idle", "arm"} /\ pc \in {"idle", "arm"}
  BY DEF TxTask, TxTimer, TxEmpty, TxBusy, TxLoad, TxArm, task
<1>5. R8_UEP1_CTRL' \in Ctrl /\ ctrl' \in Ctrl
  BY <1>1 DEF TxTask, TxTimer, TxEmpty, TxBusy, TxLoad, TxArm, task, EpOK, Ctrl, UepReset
<1>6. TxRing' /\ ep1_in' \in Seq(Out)
  <2>1. CASE TxLoad
    BY <2>1, TxLoadFacts
  <2>2. CASE ~TxLoad
    BY <1>1, <2>2 DEF TxTask, TxTimer, TxEmpty, TxBusy, TxArm, tx, TxRing, EpOK
  <2> QED BY <2>1, <2>2
<1>7. UsbOK' /\ EpOK' /\ HostOK' /\ TaskOK' /\ LineOK'
  BY <1>1, <1>2, <1>3, <1>4, <1>5, <1>6 DEF UsbOK, EpOK, HostOK, TaskOK, LineOK, usb, host, parser
<1>8. RxRing' /\ ReaderInv' /\ UNCHANGED Rx!fifo
  BY <1>2, <1>4, ReaderKept
<1>9. TypeOK'
  BY <1>6, <1>7, <1>8, TypePartsNext
<1> QED BY <1>8, <1>9 DEF IInv

(* What a task writes for the host goes into the transmit ring.            *)
LEMMA CdcWrite ==
  ASSUME IInv, NEW s \in Seq(Out), USB_CDC_Write(s)
  PROVE  TxRing' /\ cdc_tx_evt' \subseteq {"set", "timer"}
<1>1. TxRing /\ cdc_tx_evt \subseteq {"set", "timer"}
  BY TypeRings DEF IInv, TypeOK
<1>2. CASE ~DevConfig \/ ~cdcReady
  BY <1>1, <1>2 DEF USB_CDC_Write, TxRing, tx
<1>3. CASE DevConfig /\ cdcReady
  <2> DEFINE n == CDC_TX_BUF_SIZE
             k == Fits(Len(s), cdc_tx_head, cdc_tx_tail, n)
  <2>1. /\ cdc_tx_buf' = Stored(cdc_tx_buf, cdc_tx_head, s, k, n)
        /\ cdc_tx_head' = Cell(cdc_tx_head + k, n) /\ cdc_tx_tail' = cdc_tx_tail
        /\ cdc_tx_evt' = cdc_tx_evt \cup {"set"}
    BY <1>3 DEF USB_CDC_Write, Cell
  <2>2. n \in Nat \ {0} /\ cdc_tx_head \in 0..n - 1 /\ cdc_tx_tail \in 0..n - 1
    BY <1>1 DEF TxRing, Ring
  <2>3. k \in 0..Len(s) /\ Cell(cdc_tx_head - cdc_tx_tail, n) + k <= n - 1
    BY <2>2, FitsFacts
  <2> HIDE DEF k
  <2>4. /\ Ring(Out, n, Stored(cdc_tx_buf, cdc_tx_head, s, k, n), Cell(cdc_tx_head + k, n),
                cdc_tx_tail)
        /\ Contents(Stored(cdc_tx_buf, cdc_tx_head, s, k, n), Cell(cdc_tx_head + k, n),
                    cdc_tx_tail, n)
             = Contents(cdc_tx_buf, cdc_tx_head, cdc_tx_tail, n) \o SubSeq(s, 1, k)
    BY <1>1, <2>3, StoredFacts DEF TxRing
  <2> QED BY <1>1, <2>1, <2>4 DEF TxRing
<1> QED BY <1>2, <1>3

(* The parser's line stays within its buffer.                              *)
LEMMA CollectedFacts ==
  ASSUME NEW line \in Seq({"uart", "cdc"}), Len(line) < AT_LINE_MAX, NEW c \in {"uart", "cdc"}
  PROVE  /\ Collected(line, c) \in Seq({"uart", "cdc"})
         /\ Len(Collected(line, c)) < AT_LINE_MAX
<1>1. /\ Append(line, c) \in Seq({"uart", "cdc"}) /\ Len(Append(line, c)) = Len(line) + 1
      /\ Len(line) \in Nat
  BY AppendProperties
<1> QED BY <1>1, SizesAssumption DEF Collected

LEMMA LineEmptied == <<>> \in Seq({"uart", "cdc"}) /\ Len(<<>>) < AT_LINE_MAX
  BY EmptySeq, SizesAssumption

LEMMA AnswerFacts == ASSUME NEW line PROVE Answer(line) \in Seq(Out)
<1>1. <<>> \in Seq(Out)
  BY EmptySeq
<1>2. "answer" \in Out
  BY DEF Out
<1>3. <<"answer">> \in Seq(Out)
  BY <1>2
<1> QED BY <1>1, <1>3 DEF Answer

LEMMA PollUartStep ==
  ASSUME IInv, NEW b \in Byte, PollUart(b)
  PROVE  IInv' /\ UNCHANGED Rx!fifo
<1>1. /\ RxRing /\ TxRing /\ UsbOK /\ EpOK /\ HostOK /\ TaskOK /\ LineOK
  BY TypeParts DEF IInv
<1>2. UNCHANGED <<usb, rx, tx, cdc_tx_evt, R8_UEP1_CTRL, ep1_in, host, task>>
  BY DEF PollUart
<1>3. LineOK'
  <2>1. uarts' \in 0..MaxUart
    BY <1>1, SizesAssumption DEF LineOK, PollUart
  <2>2. at_channel' \in {"uart", "cdc"}
    BY <1>1 DEF LineOK, PollUart
  <2>3. at_line' = <<>> \/ at_line' = Collected(at_line, "uart")
    BY DEF PollUart
  <2>4. at_line' \in Seq({"uart", "cdc"}) /\ Len(at_line') < AT_LINE_MAX
    BY <1>1, <2>3, CollectedFacts, LineEmptied DEF LineOK
  <2> QED BY <2>1, <2>2, <2>4 DEF LineOK
<1>4. TxRing' /\ UsbOK' /\ EpOK' /\ HostOK' /\ TaskOK'
  BY <1>1, <1>2 DEF TxRing, UsbOK, EpOK, HostOK, TaskOK, usb, tx, host, task
<1>5. RxRing' /\ ReaderInv' /\ UNCHANGED Rx!fifo
  BY <1>2, ReaderKept DEF task
<1>6. TypeOK'
  BY <1>3, <1>4, <1>5, TypePartsNext
<1> QED BY <1>5, <1>6 DEF IInv

LEMMA ReadByteStep ==
  ASSUME IInv, ReadByte
  PROVE  IInv' /\ Rx!Get
<1>1. /\ RxRing /\ TxRing /\ UsbOK /\ EpOK /\ HostOK /\ TaskOK /\ LineOK
  BY TypeParts DEF IInv
<1>2. /\ Rx!Get /\ cdc_buf' \in Seq(Byte) /\ cdc_buf' # <<>> /\ Len(cdc_buf') <= EP1_SIZE
  BY RxGet
<1>3. /\ UNCHANGED <<usb, rx, tx, cdc_tx_evt, R8_UEP1_CTRL, ep1_in, host, ctrl, parser>>
      /\ pc' = "advance" /\ cdc_rx_tail # cdc_rx_head
  BY DEF ReadByte
<1>4. RxRing' /\ TxRing' /\ UsbOK' /\ EpOK' /\ HostOK' /\ TaskOK' /\ LineOK'
  BY <1>1, <1>2, <1>3
     DEF RxRing, TxRing, UsbOK, EpOK, HostOK, TaskOK, LineOK, usb, rx, tx, host, parser
<1>5. ReaderInv'
  BY <1>2, <1>3 DEF ReaderInv, rx
<1>6. TypeOK'
  BY <1>4, TypePartsNext
<1> QED BY <1>2, <1>5, <1>6 DEF IInv

LEMMA ReadAdvanceStep ==
  ASSUME IInv, ReadAdvance
  PROVE  IInv' /\ UNCHANGED Rx!fifo
<1>1. /\ RxRing /\ TxRing /\ UsbOK /\ EpOK /\ HostOK /\ TaskOK /\ LineOK /\ ReaderInv
  BY TypeParts DEF IInv
<1>2. /\ UNCHANGED <<usb, tx, cdc_tx_evt, R8_UEP1_CTRL, ep1_in, host, cdc_buf, ctrl, parser>>
      /\ pc = "advance" /\ pc' = "read"
  BY DEF ReadAdvance
<1>3. TxRing' /\ UsbOK' /\ EpOK' /\ HostOK' /\ TaskOK' /\ LineOK'
  BY <1>1, <1>2 DEF TxRing, UsbOK, EpOK, HostOK, TaskOK, LineOK, usb, tx, host, parser
<1>4. RxRing' /\ UNCHANGED Rx!fifo
  BY RxAdvance
<1>5. ReaderInv'
  BY <1>1, <1>2 DEF ReaderInv
<1>6. TypeOK'
  BY <1>3, <1>4, TypePartsNext
<1> QED BY <1>4, <1>5, <1>6 DEF IInv

LEMMA ReadEndsStep ==
  ASSUME IInv, ReadEnds
  PROVE  IInv' /\ UNCHANGED Rx!fifo
<1>1. /\ RxRing /\ TxRing /\ UsbOK /\ EpOK /\ HostOK /\ TaskOK /\ LineOK
  BY TypeParts DEF IInv
<1>2. /\ UNCHANGED <<usb, rx, tx, cdc_tx_evt, R8_UEP1_CTRL, ep1_in, host, cdc_buf, ctrl, parser>>
      /\ pc = "read" /\ pc' = "parse"
  BY DEF ReadEnds
<1>3. TxRing' /\ UsbOK' /\ EpOK' /\ HostOK' /\ TaskOK' /\ LineOK'
  BY <1>1, <1>2 DEF TxRing, UsbOK, EpOK, HostOK, TaskOK, LineOK, usb, tx, host, parser
<1>4. RxRing' /\ ReaderInv' /\ UNCHANGED Rx!fifo
  BY <1>2, ReaderKept
<1>5. TypeOK'
  BY <1>3, <1>4, TypePartsNext
<1> QED BY <1>4, <1>5 DEF IInv

LEMMA ParseCdcStep ==
  ASSUME IInv, ParseCdc
  PROVE  IInv' /\ Rx!Used
<1>1. /\ RxRing /\ TxRing /\ UsbOK /\ EpOK /\ HostOK /\ TaskOK /\ LineOK
  BY TypeParts DEF IInv
<1>2. /\ Rx!Used /\ cdc_buf' \in Seq(Byte) /\ Len(cdc_buf') <= EP1_SIZE
      /\ pc' = "parse" \/ pc' = "idle"
      /\ pc' = "parse" <=> cdc_buf' # <<>>
  BY RxUsed
<1>3. UNCHANGED <<usb, rx, R8_UEP1_CTRL, ep1_in, host, ctrl, uarts>>
  BY DEF ParseCdc
<1>4. /\ TxRing' /\ cdc_tx_evt' \subseteq {"set", "timer"}
      /\ at_channel' \in {"uart", "cdc"}
      /\ at_line' = <<>> \/ at_line' = Collected(at_line, "cdc")
  <2>1. CASE Head(cdc_buf) = "nl"
    <3> DEFINE e == [i \in 1..(Len(at_line) + 1) |-> "echo"]
    <3>1. /\ at_channel' = "cdc" /\ at_line' = <<>>
          /\ USB_CDC_Write(e \o Answer(at_line))
      BY <2>1 DEF ParseCdc
    <3>2. Len(at_line) + 1 \in Nat
      BY <1>1 DEF LineOK
    <3>3. e \in Seq(Out)
      BY <3>2 DEF Out
    <3>4. Answer(at_line) \in Seq(Out)
      BY AnswerFacts
    <3> HIDE DEF e
    <3>5. e \o Answer(at_line) \in Seq(Out)
      BY <3>3, <3>4, ConcatProperties
    <3>6. TxRing' /\ cdc_tx_evt' \subseteq {"set", "timer"}
      BY <3>1, <3>5, CdcWrite
    <3> QED BY <3>1, <3>6
  <2>2. CASE Head(cdc_buf) # "nl"
    <3>1. UNCHANGED <<at_channel, tx, cdc_tx_evt>> /\ at_line' = Collected(at_line, "cdc")
      BY <2>2 DEF ParseCdc
    <3> QED BY <1>1, <3>1 DEF TxRing, tx, UsbOK, LineOK
  <2> QED BY <2>1, <2>2
<1>5. LineOK'
  <2>1. at_line' \in Seq({"uart", "cdc"}) /\ Len(at_line') < AT_LINE_MAX
    BY <1>1, <1>4, CollectedFacts, LineEmptied DEF LineOK
  <2> QED BY <1>1, <1>3, <1>4, <2>1 DEF LineOK
<1>6. RxRing' /\ UsbOK' /\ EpOK' /\ HostOK' /\ TaskOK'
  BY <1>1, <1>2, <1>3, <1>4 DEF RxRing, UsbOK, EpOK, HostOK, TaskOK, usb, rx, host
<1>7. ReaderInv'
  BY <1>2 DEF ReaderInv
<1>8. TypeOK'
  BY <1>4, <1>5, <1>6, TypePartsNext
<1> QED BY <1>2, <1>7, <1>8 DEF IInv

-----------------------------------------------------------------------------
LEMMA InitIInv == Init => IInv /\ Rx!Init
<1> SUFFICES ASSUME Init PROVE IInv /\ Rx!Init
  OBVIOUS
<1>1. RxRing /\ TxRing
  BY SizesAssumption DEF Init, RxRing, TxRing, Ring, Byte, Out
<1>2. UsbOK /\ EpOK /\ HostOK /\ TaskOK /\ LineOK
  <2>1. UepReset \in Ctrl
    BY DEF UepReset, Ctrl
  <2>2. UsbOK
    BY DEF Init, UsbOK
  <2>3. EpOK
    BY <2>1, EmptySeq DEF Init, EpOK
  <2>4. HostOK
    BY SizesAssumption, EmptySeq DEF Init, HostOK
  <2>5. TaskOK
    BY SizesAssumption, EmptySeq DEF Init, TaskOK
  <2>6. LineOK
    BY SizesAssumption, LineEmptied DEF Init, LineOK
  <2> QED BY <2>2, <2>3, <2>4, <2>5, <2>6
<1>3. IInv
  BY <1>1, <1>2, TypeParts DEF IInv, ReaderInv, Init
<1>4. RxQueue = <<>>
  <2>1. RxQueue = RxHeld /\ RxHeld \in Seq(Byte)
        /\ Len(RxHeld) = Cell(cdc_rx_head - cdc_rx_tail, CDC_RX_BUF_SIZE)
    BY <1>3, RxQueueFacts DEF Init
  <2>2. Cell(cdc_rx_head - cdc_rx_tail, CDC_RX_BUF_SIZE) = 0
    BY SizesAssumption DEF Init, Cell
  <2> QED BY <2>1, <2>2, EmptySeq
<1> QED BY <1>3, <1>4 DEF Init, Rx!Init

LEMMA NextIInv == IInv /\ [Next]_vars => IInv' /\ [Rx!Next]_Rx!fifo
<1> SUFFICES ASSUME IInv, [Next]_vars PROVE IInv' /\ [Rx!Next]_Rx!fifo
  OBVIOUS
<1>1. CASE \E p \in Packets : TokenOut(p)
  BY <1>1, TokenOutStep DEF Rx!Next
<1>2. CASE TokenIn \/ SetConfiguration \/ SetControlLine \/ Feature \/ BusReset
  BY <1>2, UsbStep
<1>3. CASE TxTask
  BY <1>3, TxStep
<1>4. CASE \E b \in Byte : PollUart(b)
  BY <1>4, PollUartStep
<1>5. CASE ReadByte
  BY <1>5, ReadByteStep DEF Rx!Next
<1>6. CASE ReadAdvance
  BY <1>6, ReadAdvanceStep
<1>7. CASE ReadEnds
  BY <1>7, ReadEndsStep
<1>8. CASE ParseCdc
  BY <1>8, ParseCdcStep DEF Rx!Next
<1>9. CASE UNCHANGED vars
  <2>1. /\ RxRing /\ TxRing /\ UsbOK /\ EpOK /\ HostOK /\ TaskOK /\ LineOK
    BY TypeParts DEF IInv
  <2>2. UNCHANGED <<usb, rx, tx, cdc_tx_evt, R8_UEP1_CTRL, ep1_in, host, task, parser>>
    BY <1>9 DEF vars
  <2>3. TxRing' /\ UsbOK' /\ EpOK' /\ HostOK' /\ TaskOK' /\ LineOK'
    BY <2>1, <2>2 DEF TxRing, UsbOK, EpOK, HostOK, TaskOK, LineOK, usb, tx, host, parser, task
  <2>4. RxRing' /\ ReaderInv' /\ UNCHANGED Rx!fifo
    BY <2>2, ReaderKept DEF task
  <2>5. TypeOK'
    BY <2>3, <2>4, TypePartsNext
  <2> QED BY <2>4, <2>5 DEF IInv
<1> QED BY <1>1, <1>2, <1>3, <1>4, <1>5, <1>6, <1>7, <1>8, <1>9 DEF Next, Isr, AtTask

(* Every state of the channel has its types: both rings' indices stay in   *)
(* their buffers and at_line within AT_LINE_MAX, for every size.           *)
THEOREM TypeCorrect == Spec => []TypeOK
<1>1. IInv => TypeOK
  BY DEF IInv
<1> QED BY <1>1, InitIInv, NextIInv, PTL DEF Spec

(* The receive ring implements a bounded queue: cdc_recv_data in the       *)
(* interrupt appends and drops only what does not fit, USB_CDC_Read takes  *)
(* every byte once and in order, though the handler runs between its copy  *)
(* of a byte and the step of cdc_rx_tail.                                  *)
THEOREM RxIsFifoHolds == Spec => RxIsFifo
BY InitIInv, NextIInv, PTL DEF Spec, RxIsFifo, Rx!Spec
=============================================================================
