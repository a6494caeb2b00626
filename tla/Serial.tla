------------------------------- MODULE Serial -------------------------------
(***************************************************************************)
(* The CH582's command channel: the CDC endpoint of usb_dev.c and the line *)
(* parser of at_parser.c.                                                  *)
(*                                                                         *)
(* Two contexts share the state.  USB_IRQHandler runs to its end between   *)
(* any two accesses of a task; the TMOS tasks (AT_Poll every 10 ms and     *)
(* cdc_tx_process) run one after the other.  A task is split where the     *)
(* interrupt can come between an access and the next one that depends on   *)
(* it: the receive ring is read byte by byte, and the endpoint's control   *)
(* register is read, then written back.                                    *)
(*                                                                         *)
(* A byte is a character or a newline (carriage returns are dropped by     *)
(* both channels); a byte of the transmit ring is the echo or the answer.  *)
(***************************************************************************)
EXTENDS Integers, Sequences

CONSTANTS
  CDC_RX_BUF_SIZE, CDC_TX_BUF_SIZE,  \* 256, 2048
  EP1_SIZE,                          \* 64, the packet and the read chunk
  AT_LINE_MAX,                       \* 1024
  MaxPackets,                        \* bound: packets the host sends
  MaxUart                            \* bound: bytes that come in on UART1

ASSUME SizesAssumption ==
  /\ CDC_RX_BUF_SIZE \in Nat /\ CDC_RX_BUF_SIZE > 1
  /\ CDC_TX_BUF_SIZE \in Nat /\ CDC_TX_BUF_SIZE > 1 /\ CDC_TX_BUF_SIZE <= 65536
  /\ EP1_SIZE \in Nat \ {0} /\ AT_LINE_MAX \in Nat \ {0}
  /\ MaxPackets \in Nat /\ MaxUart \in Nat

VARIABLES
  DevConfig, cdcReady,             \* the host configured the device, opened the port
  cdc_rx_buf, cdc_rx_head, cdc_rx_tail,
  cdc_tx_buf, cdc_tx_head, cdc_tx_tail,
  cdc_tx_evt,                      \* CDC_TX_EVT: it is set, its timer runs (or both)
  R8_UEP1_CTRL,                    \* endpoint 1: answers to IN and OUT, expected OUT toggle
  ep1_in,                          \* pEP1_IN_DataBuf, up to R8_UEP1_T_LEN
  h_tog, h_pkt, packets,           \* the host: toggle, unacknowledged packet, packets sent
  pc, cdc_buf, ctrl,               \* the running task: place, AT_Poll's buffer, register read
  at_line, at_channel, uarts       \* the parser; bytes UART1 received

usb == <<DevConfig, cdcReady>>
rx == <<cdc_rx_buf, cdc_rx_head, cdc_rx_tail>>
tx == <<cdc_tx_buf, cdc_tx_head, cdc_tx_tail>>
host == <<h_tog, h_pkt, packets>>
parser == <<at_line, at_channel, uarts>>
task == <<pc, cdc_buf, ctrl>>
vars == <<usb, rx, tx, cdc_tx_evt, R8_UEP1_CTRL, ep1_in, host, task, parser>>

Byte == {"x", "nl"}
Out == {"echo", "answer"}
UepReset == [t_res |-> "NAK", r_res |-> "ACK", r_tog |-> 0]
Packets == UNION {[1..n -> Byte] : n \in 1..EP1_SIZE}

Init ==
  /\ DevConfig = FALSE /\ cdcReady = FALSE
  /\ cdc_rx_buf = [i \in 0..(CDC_RX_BUF_SIZE - 1) |-> "x"]
  /\ cdc_rx_head = 0 /\ cdc_rx_tail = 0
  /\ cdc_tx_buf = [i \in 0..(CDC_TX_BUF_SIZE - 1) |-> "echo"]
  /\ cdc_tx_head = 0 /\ cdc_tx_tail = 0
  /\ cdc_tx_evt = {} /\ R8_UEP1_CTRL = UepReset /\ ep1_in = <<>>
  /\ h_tog = 0 /\ h_pkt = <<>> /\ packets = 0
  /\ pc = "idle" /\ cdc_buf = <<>> /\ ctrl = UepReset
  /\ at_line = <<>> /\ at_channel = "uart" /\ uarts = 0

-----------------------------------------------------------------------------
(* Rings.                                                                  *)

(* How many of n bytes a ring of `size' still takes: it is full when the   *)
(* next head would be the tail.                                            *)
Fits(n, head, tail, size) ==
  LET room == (tail - head - 1) % size IN IF n < room THEN n ELSE room

(* The ring after k bytes of s were stored from its head on. *)
Stored(buf, head, s, k, size) ==
  [i \in DOMAIN buf |-> LET j == (i - head) % size IN IF j < k THEN s[j + 1] ELSE buf[i]]

(* What a ring holds, oldest first. *)
Contents(buf, head, tail, size) ==
  [i \in 1..((head - tail) % size) |-> buf[(tail + i - 1) % size]]

-----------------------------------------------------------------------------
(* The interrupt handler: tokens, requests, bus reset.                     *)

(* Faulty: the packet is stored whether or not it fits. *)
cdc_recv_data_NoFullCheck(p) ==
  /\ cdc_rx_buf' = Stored(cdc_rx_buf, cdc_rx_head, p, Len(p), CDC_RX_BUF_SIZE)
  /\ cdc_rx_head' = (cdc_rx_head + Len(p)) % CDC_RX_BUF_SIZE
  /\ UNCHANGED cdc_rx_tail

(* cdc_recv_data: append the packet, drop what does not fit. *)
cdc_recv_data(p) ==
  LET k == Fits(Len(p), cdc_rx_head, cdc_rx_tail, CDC_RX_BUF_SIZE) IN
  /\ cdc_rx_buf' = Stored(cdc_rx_buf, cdc_rx_head, p, k, CDC_RX_BUF_SIZE)
  /\ cdc_rx_head' = (cdc_rx_head + k) % CDC_RX_BUF_SIZE
  /\ UNCHANGED cdc_rx_tail

(* An OUT packet arrives: a new one, or one whose acknowledgement was lost *)
(* and which the host repeats under the same toggle.  The handler takes it *)
(* if the toggle is the expected one; the host may or may not hear so.     *)
TokenOut(p) ==
  /\ DevConfig /\ R8_UEP1_CTRL.r_res = "ACK"
  /\ IF h_pkt = <<>> THEN packets < MaxPackets /\ packets' = packets + 1
                     ELSE p = h_pkt /\ UNCHANGED packets
  /\ IF h_tog = R8_UEP1_CTRL.r_tog
       THEN R8_UEP1_CTRL' = [R8_UEP1_CTRL EXCEPT !.r_tog = 1 - @] /\ cdc_recv_data(p)
       ELSE UNCHANGED <<R8_UEP1_CTRL, rx>>
  /\ \/ h_pkt' = <<>> /\ h_tog' = 1 - h_tog
     \/ h_pkt = <<>> /\ h_pkt' = p /\ UNCHANGED h_tog
  /\ UNCHANGED <<usb, tx, cdc_tx_evt, ep1_in, task, parser>>

(* The host takes the loaded packet. *)
TokenIn ==
  /\ DevConfig /\ R8_UEP1_CTRL.t_res = "ACK"
  /\ R8_UEP1_CTRL' = [R8_UEP1_CTRL EXCEPT !.t_res = "NAK"] /\ ep1_in' = <<>>
  /\ UNCHANGED <<usb, rx, tx, cdc_tx_evt, host, task, parser>>

(* SET_CONFIGURATION. *)
SetConfiguration ==
  /\ ~DevConfig
  /\ DevConfig' = TRUE
  /\ UNCHANGED <<cdcReady, rx, tx, cdc_tx_evt, R8_UEP1_CTRL, ep1_in, host, task, parser>>

(* SET_LINE_CODING or SET_CONTROL_LINE_STATE: taken for an open port. *)
SetControlLine ==
  /\ DevConfig /\ ~cdcReady
  /\ cdcReady' = TRUE
  /\ UNCHANGED <<DevConfig, rx, tx, cdc_tx_evt, R8_UEP1_CTRL, ep1_in, host, task, parser>>

(* SET_FEATURE and CLEAR_FEATURE (endpoint halt) on endpoint 1.  A packet  *)
(* that was armed is not sent; the host starts the OUT toggle anew.        *)
Feature ==
  /\ DevConfig
  /\ \/ \E res \in {"NAK", "STALL"} : /\ R8_UEP1_CTRL' = [R8_UEP1_CTRL EXCEPT !.t_res = res]
                                     /\ UNCHANGED <<h_tog, h_pkt>>
     \/ \E res \in {"ACK", "STALL"} :
          /\ R8_UEP1_CTRL' = [R8_UEP1_CTRL EXCEPT !.r_res = res, !.r_tog = 0]
          /\ h_tog' = 0 /\ h_pkt' = <<>>
  /\ ep1_in' = IF R8_UEP1_CTRL'.t_res = "ACK" \/ pc = "arm" THEN ep1_in ELSE <<>>
  /\ UNCHANGED <<usb, rx, tx, cdc_tx_evt, packets, task, parser>>

(* Bus reset: the configuration is gone; rings and cdcReady stay. *)
BusReset ==
  /\ DevConfig
  /\ DevConfig' = FALSE /\ R8_UEP1_CTRL' = UepReset
  /\ ep1_in' = IF pc = "arm" THEN ep1_in ELSE <<>>
  /\ h_tog' = 0 /\ h_pkt' = <<>>
  /\ UNCHANGED <<cdcReady, rx, tx, cdc_tx_evt, packets, task, parser>>

-----------------------------------------------------------------------------
(* The transmit task.                                                      *)

(* USB_CDC_Write(s): nothing without a host; else what fits, and the task  *)
(* is woken.                                                               *)
USB_CDC_Write(s) ==
  IF ~DevConfig \/ ~cdcReady THEN UNCHANGED <<tx, cdc_tx_evt>>
  ELSE LET k == Fits(Len(s), cdc_tx_head, cdc_tx_tail, CDC_TX_BUF_SIZE) IN
       /\ cdc_tx_buf' = Stored(cdc_tx_buf, cdc_tx_head, s, k, CDC_TX_BUF_SIZE)
       /\ cdc_tx_head' = (cdc_tx_head + k) % CDC_TX_BUF_SIZE
       /\ cdc_tx_evt' = cdc_tx_evt \cup {"set"}
       /\ UNCHANGED cdc_tx_tail

(* n = (uint16_t)((head - tail) % SIZE), capped: C's remainder keeps the   *)
(* sign of head - tail, and a negative one becomes a large uint16_t.       *)
TxCount ==
  LET n == IF cdc_tx_head >= cdc_tx_tail THEN cdc_tx_head - cdc_tx_tail
           ELSE 65536 - (cdc_tx_tail - cdc_tx_head)
  IN IF n > EP1_SIZE THEN EP1_SIZE ELSE n

(* TMOS: a timer that is over sets its event. *)
TxTimer ==
  /\ pc = "idle" /\ "timer" \in cdc_tx_evt
  /\ cdc_tx_evt' = {"set"}
  /\ UNCHANGED <<usb, rx, tx, R8_UEP1_CTRL, ep1_in, host, task, parser>>

TxEmpty ==
  /\ pc = "idle" /\ "set" \in cdc_tx_evt /\ cdc_tx_tail = cdc_tx_head
  /\ cdc_tx_evt' = cdc_tx_evt \ {"set"}
  /\ UNCHANGED <<usb, rx, tx, R8_UEP1_CTRL, ep1_in, host, task, parser>>

(* Faulty: a busy endpoint is not looked at again. *)
TxBusy_NoRetry ==
  /\ pc = "idle" /\ "set" \in cdc_tx_evt /\ cdc_tx_tail # cdc_tx_head /\ R8_UEP1_CTRL.t_res = "ACK"
  /\ cdc_tx_evt' = cdc_tx_evt \ {"set"}
  /\ UNCHANGED <<usb, rx, tx, R8_UEP1_CTRL, ep1_in, host, task, parser>>

(* The endpoint still holds a packet: look again in 2 ms. *)
TxBusy ==
  /\ pc = "idle" /\ "set" \in cdc_tx_evt /\ cdc_tx_tail # cdc_tx_head /\ R8_UEP1_CTRL.t_res = "ACK"
  /\ cdc_tx_evt' = {"timer"}
  /\ UNCHANGED <<usb, rx, tx, R8_UEP1_CTRL, ep1_in, host, task, parser>>

(* Copy up to a packet to the endpoint and read its control register ...   *)
TxLoad ==
  /\ pc = "idle" /\ "set" \in cdc_tx_evt /\ cdc_tx_tail # cdc_tx_head /\ R8_UEP1_CTRL.t_res # "ACK"
  /\ ep1_in' = [i \in 1..TxCount |-> cdc_tx_buf[(cdc_tx_tail + i - 1) % CDC_TX_BUF_SIZE]]
  /\ cdc_tx_tail' = (cdc_tx_tail + TxCount) % CDC_TX_BUF_SIZE
  /\ ctrl' = R8_UEP1_CTRL /\ pc' = "arm"
  /\ UNCHANGED <<usb, rx, cdc_tx_buf, cdc_tx_head, cdc_tx_evt, R8_UEP1_CTRL, host, cdc_buf,
                 parser>>

(* ... then write it back with the endpoint armed: whatever the interrupt  *)
(* changed in the register meanwhile is undone.                            *)
TxArm ==
  /\ pc = "arm"
  /\ R8_UEP1_CTRL' = [ctrl EXCEPT !.t_res = "ACK"]
  /\ cdc_tx_evt' = (cdc_tx_evt \ {"set"})
                     \cup (IF cdc_tx_tail # cdc_tx_head THEN {"timer"} ELSE {})
  /\ pc' = "idle" /\ ctrl' = UepReset
  /\ UNCHANGED <<usb, rx, tx, ep1_in, host, cdc_buf, parser>>

-----------------------------------------------------------------------------
(* AT_Poll.                                                                *)

(* at_line after one more character; what does not fit is dropped. *)
Collected(line, c) == IF Len(line) < AT_LINE_MAX - 1 THEN Append(line, c) ELSE line

(* What at_process_line has AT_Response send: nothing for an empty line. *)
Answer(line) == IF line = <<>> THEN <<>> ELSE <<"answer">>

(* A byte from UART1.  A newline ends the line, whoever sent its           *)
(* characters; the answer goes out on UART1 (busy wait).                   *)
PollUart(b) ==
  /\ pc = "idle" /\ uarts < MaxUart /\ uarts' = uarts + 1
  /\ IF b = "nl" THEN at_channel' = "uart" /\ at_line' = <<>>
                 ELSE at_line' = Collected(at_line, "uart") /\ UNCHANGED at_channel
  /\ UNCHANGED <<usb, rx, tx, cdc_tx_evt, R8_UEP1_CTRL, ep1_in, host, task>>

(* USB_CDC_Read: a byte is copied out of the ring ... *)
ReadByte ==
  /\ pc \in {"idle", "read"} /\ (pc = "idle" => cdc_buf = <<>>)
  /\ Len(cdc_buf) < EP1_SIZE /\ cdc_rx_tail # cdc_rx_head
  /\ cdc_buf' = Append(cdc_buf, cdc_rx_buf[cdc_rx_tail])
  /\ pc' = "advance"
  /\ UNCHANGED <<usb, rx, tx, cdc_tx_evt, R8_UEP1_CTRL, ep1_in, host, ctrl, parser>>

(* ... then its place is given back. *)
ReadAdvance ==
  /\ pc = "advance"
  /\ cdc_rx_tail' = (cdc_rx_tail + 1) % CDC_RX_BUF_SIZE
  /\ pc' = "read"
  /\ UNCHANGED <<usb, cdc_rx_buf, cdc_rx_head, tx, cdc_tx_evt, R8_UEP1_CTRL, ep1_in, host,
                 cdc_buf, ctrl, parser>>

ReadEnds ==
  /\ pc = "read" /\ (Len(cdc_buf) = EP1_SIZE \/ cdc_rx_tail = cdc_rx_head)
  /\ pc' = "parse"
  /\ UNCHANGED <<usb, rx, tx, cdc_tx_evt, R8_UEP1_CTRL, ep1_in, host, cdc_buf, ctrl, parser>>

(* The next byte of cdc_buf.  A newline echoes the line and has it         *)
(* processed; its answer goes to the CDC.                                  *)
ParseCdc ==
  /\ pc = "parse"
  /\ LET b == Head(cdc_buf) IN
     IF b = "nl"
       THEN /\ at_channel' = "cdc" /\ at_line' = <<>>
            /\ USB_CDC_Write([i \in 1..(Len(at_line) + 1) |-> "echo"] \o Answer(at_line))
       ELSE /\ at_line' = Collected(at_line, "cdc")
            /\ UNCHANGED <<at_channel, tx, cdc_tx_evt>>
  /\ cdc_buf' = Tail(cdc_buf)
  /\ pc' = IF Len(cdc_buf) = 1 THEN "idle" ELSE "parse"
  /\ UNCHANGED <<usb, rx, R8_UEP1_CTRL, ep1_in, host, ctrl, uarts>>

Isr == (\E p \in Packets : TokenOut(p)) \/ TokenIn \/ SetConfiguration \/ SetControlLine
         \/ Feature \/ BusReset
TxTask == TxTimer \/ TxEmpty \/ TxBusy \/ TxLoad \/ TxArm
AtTask == (\E b \in Byte : PollUart(b)) \/ ReadByte \/ ReadAdvance \/ ReadEnds \/ ParseCdc

Next == Isr \/ TxTask \/ AtTask

(* Both tasks are served by the TMOS loop; the host need not do anything.  *)
Fairness == /\ WF_vars(TxTask)
            /\ WF_vars(ReadByte \/ ReadAdvance \/ ReadEnds \/ ParseCdc)

Spec == Init /\ [][Next]_vars /\ Fairness

-----------------------------------------------------------------------------
TypeOK ==
  /\ DevConfig \in BOOLEAN /\ cdcReady \in BOOLEAN /\ cdc_tx_evt \subseteq {"set", "timer"}
  /\ cdc_rx_buf \in [0..(CDC_RX_BUF_SIZE - 1) -> Byte]
  /\ {cdc_rx_head, cdc_rx_tail} \subseteq 0..(CDC_RX_BUF_SIZE - 1)
  /\ cdc_tx_buf \in [0..(CDC_TX_BUF_SIZE - 1) -> Out]
  /\ {cdc_tx_head, cdc_tx_tail} \subseteq 0..(CDC_TX_BUF_SIZE - 1)
  /\ {R8_UEP1_CTRL, ctrl} \subseteq
       [t_res : {"ACK", "NAK", "STALL"}, r_res : {"ACK", "STALL"}, r_tog : {0, 1}]
  /\ ep1_in \in Seq(Out)
  /\ h_tog \in {0, 1} /\ h_pkt \in Seq(Byte) /\ packets \in 0..MaxPackets
  /\ pc \in {"idle", "read", "advance", "parse", "arm"}
  /\ cdc_buf \in Seq(Byte) /\ Len(cdc_buf) <= EP1_SIZE
  /\ at_line \in Seq({"uart", "cdc"}) /\ Len(at_line) < AT_LINE_MAX
  /\ at_channel \in {"uart", "cdc"} /\ uarts \in 0..MaxUart

(* The receive ring is a queue: every byte that the interrupt handler      *)
(* stored is handed to the parser once and in order, and only bytes that   *)
(* find the ring full are dropped - although the handler runs between the  *)
(* copy of a byte and the step of cdc_rx_tail.                             *)
RxQueue == LET c == Contents(cdc_rx_buf, cdc_rx_head, cdc_rx_tail, CDC_RX_BUF_SIZE)
           IN IF pc = "advance" THEN Tail(c) ELSE c

Rx == INSTANCE Fifo WITH
        Capacity <- CDC_RX_BUF_SIZE - 1, q <- RxQueue, out <- cdc_buf

RxIsFifo == Rx!Spec

(* The transmit ring is a queue too: "Producers enqueue into a ring        *)
(* buffer; a dedicated TMOS task drains it at the endpoint's pace."        *)
Tx == INSTANCE Fifo WITH
        Byte <- Out, Capacity <- CDC_TX_BUF_SIZE - 1, out <- ep1_in,
        q <- Contents(cdc_tx_buf, cdc_tx_head, cdc_tx_tail, CDC_TX_BUF_SIZE)

TxIsFifo == Tx!Spec

(* "Everything resumes automatically when the host returns": while the     *)
(* ring holds output and the endpoint is free, the next packet is loaded,  *)
(* whatever resets, halts and busy endpoints came before.                  *)
TxResumes == cdc_tx_head # cdc_tx_tail /\ R8_UEP1_CTRL.t_res # "ACK"
               ~> R8_UEP1_CTRL.t_res = "ACK"
=============================================================================
