----------------------------- MODULE InputProofs -----------------------------
(***************************************************************************)
(* Proofs about Input for any number of scancodes and packets, any warm-up *)
(* and timer width, and any controller.                                    *)
(***************************************************************************)
EXTENDS Input, SequenceTheorems, TLAPS

(* ticks++ stays within the timer's width. *)
LEMMA TickType ==
  ASSUME NEW t \in 0 .. TickMod - 1 PROVE (t + 1) % TickMod \in 0 .. TickMod - 1
<1>1. TickMod \in Nat \ {0} /\ t + 1 \in Nat
  BY InputAssumption
<1>2. \A n \in Nat, d \in Nat \ {0} : n % d \in 0 .. d - 1
  OBVIOUS
<1>3. QED
  BY <1>1, <1>2

(* The bytes the devices hold at `sti' are bytes. *)
LEMMA QueueTypes ==
  ASSUME Init PROVE kq \in Seq(KeyBytes) /\ mq \in Seq(MouseBytes)
<1> USE InputAssumption
<1>1. \A k \in 1 .. NKeys : Key(k) \in KeyBytes
  BY DEF Key, KeyBytes
<1>2. \A j \in 1 .. 3 * NPackets : MouseByte(j) \in MouseBytes
  <2> SUFFICES ASSUME NEW j \in 1 .. 3 * NPackets PROVE MouseByte(j) \in MouseBytes
    OBVIOUS
  <2>1. (j - 1) % 3 \in 0 .. 2 /\ (j - 1) \div 3 \in Nat
    OBVIOUS
  <2>2. Kind[((j - 1) % 3) + 1] \in {"flags", "x", "y"}
    BY <2>1 DEF Kind
  <2>3. QED
    BY <2>1, <2>2 DEF MouseByte, MouseBytes
<1>3. Ack \in MouseBytes
  BY DEF Ack, MouseBytes
<1>4. kq \in [1 .. NKeys -> KeyBytes]
  BY <1>1 DEF Init
<1>5. mq \in [1 .. Leftover + 3 * NPackets -> MouseBytes]
  <2>1. \A j \in 1 .. Leftover + 3 * NPackets :
          ~(j <= Leftover) => j - Leftover \in 1 .. 3 * NPackets
    OBVIOUS
  <2>2. \A j \in 1 .. Leftover + 3 * NPackets : FromMouse(j) \in MouseBytes
    BY <1>2, <1>3, <2>1 DEF FromMouse
  <2>3. QED
    BY <2>2 DEF Init
<1>6. Leftover + 3 * NPackets \in Nat
  OBVIOUS
<1>7. QED
  BY <1>4, <1>5, <1>6

(* Every variable of the input path keeps its type; HANDLER_CYCLE stays a case *)
(* of the switch of mouse_handler (idt.h:198-224).                            *)
THEOREM TypeCorrect == Spec => []TypeOK
<1> USE InputAssumption
<1>1. Init => TypeOK
  <2> SUFFICES ASSUME Init PROVE TypeOK
    OBVIOUS
  <2>1. Ack \in Byte
    BY DEF Ack, Byte
  <2>2. ob \in [full : BOOLEAN, byte : Byte]
    BY <2>1 DEF Init
  <2>3. current_packet \in [flags : Byte, x_mov : Byte, y_mov : Byte]
    BY <2>1 DEF Init
  <2>4. kq \in Seq(KeyBytes) /\ mq \in Seq(MouseBytes)
    BY QueueTypes
  <2>c. ctl \subseteq {"paced", "race"}
    BY DEF Init
  <2>5. keys \in Seq(Nat) /\ ticks \in 0 .. TickMod - 1
    BY DEF Init
  <2>6. irq12 \in BOOLEAN /\ slipped \in BOOLEAN
    BY DEF Init
  <2>7. /\ isr \subseteq {0, 2, 12}
        /\ cpu = "main" /\ main = "poll"
        /\ HANDLER_CYCLE \in 0 .. 2 /\ discard \in {0, 1}
    BY DEF Init
  <2>8. QED
    BY <2>2, <2>3, <2>4, <2>c, <2>5, <2>6, <2>7 DEF TypeOK
<1>2. TypeOK /\ [Next]_vars => TypeOK'
  <2> SUFFICES ASSUME TypeOK, [Next]_vars PROVE TypeOK'
    OBVIOUS
  <2> USE DEF TypeOK
  <2>0. Emptied \in [full : BOOLEAN, byte : Byte] /\ ob.byte \in Byte
    BY DEF Emptied
  <2>e. \A line \in {0, 12} : pic_eoi(line) => isr' \subseteq {0, 2, 12}
    BY DEF pic_eoi, MasterDone
  <2>1. CASE OfferKey
    <3>1. Head(kq) \in KeyBytes /\ Tail(kq) \in Seq(KeyBytes)
      BY <2>1 DEF OfferKey
    <3>2. ob' \in [full : BOOLEAN, byte : Byte]
      BY <2>1, <3>1 DEF OfferKey, KeyBytes, Byte
    <3>3. QED
      BY <2>1, <3>1, <3>2 DEF OfferKey, handler
  <2>2. CASE OfferMouse
    <3>1. Head(mq) \in MouseBytes /\ Tail(mq) \in Seq(MouseBytes)
      BY <2>2 DEF OfferMouse
    <3>2. ob' \in [full : BOOLEAN, byte : Byte]
      BY <2>2, <3>1 DEF OfferMouse, MouseBytes, Byte
    <3>3. QED
      BY <2>2, <3>1, <3>2 DEF OfferMouse, handler
  <2>3. CASE TakeTimerIrq
    BY <2>3 DEF TakeTimerIrq, device, handler
  <2>4. CASE TakeMouseIrq
    BY <2>4 DEF TakeMouseIrq, handler
  <2>5. CASE pit_handler
    <3>1. ticks' \in 0 .. TickMod - 1
      BY <2>5, TickType DEF pit_handler
    <3>2. QED
      BY <2>5, <2>e, <3>1 DEF pit_handler, device, handler
  <2>6. CASE DrainByte
    <3>1. current_packet' \in [flags : Byte, x_mov : Byte, y_mov : Byte]
      BY <2>0, <2>6 DEF DrainByte
    <3>2. slipped' \in BOOLEAN
      BY <2>6 DEF DrainByte, InPacket
    <3>3. QED
      BY <2>0, <2>6, <3>1, <3>2 DEF DrainByte
  <2>7. CASE CountByte
    <3>1. current_packet' \in [flags : Byte, x_mov : Byte, y_mov : Byte]
      <4>1. FieldOf(HANDLER_CYCLE) \in {"flags", "x_mov", "y_mov"}
        BY DEF FieldOf
      <4>2. QED
        BY <2>0, <2>7, <4>1 DEF CountByte
    <3>2. slipped' \in BOOLEAN
      BY <2>7 DEF CountByte, InPacket
    <3>3. HANDLER_CYCLE' \in 0 .. 2
      BY <2>7 DEF CountByte, NextCycle
    <3>4. discard' \in {0, 1}
      BY <2>7 DEF CountByte, NextDiscard
    <3>5. QED
      BY <2>0, <2>7, <3>1, <3>2, <3>3, <3>4 DEF CountByte
  <2>8. CASE EndMouse
    <3>1. slipped' \in BOOLEAN /\ irq12' \in BOOLEAN
      BY <2>8 DEF EndMouse, InPacket
    <3>2. QED
      BY <2>0, <2>e, <2>8, <3>1 DEF EndMouse, handler
  <2>9. CASE PollKey
    BY <2>9 DEF PollKey, device, handler
  <2>10. CASE ReadKey
    <3>1. keys' \in Seq(Nat)
      <4>1. ob.byte.n \in Nat
        BY <2>0 DEF Byte
      <4>2. QED
        BY <2>10, <4>1 DEF ReadKey
    <3>2. main' \in {"poll", "shiftpoll"}
      BY <2>10 DEF ReadKey
    <3>3. QED
      BY <2>0, <2>10, <3>1, <3>2 DEF ReadKey, handler
  <2>11. CASE UNCHANGED vars
    BY <2>11 DEF vars, device, handler
  <2>12. QED
    BY <2>1, <2>2, <2>3, <2>4, <2>5, <2>6, <2>7, <2>8, <2>9, <2>10, <2>11
    DEF Next, Handlers
<1>3. QED
  BY <1>1, <1>2, PTL DEF Spec

-----------------------------------------------------------------------------
(* No handler leaves a line in service: every interrupt is answered by the   *)
(* EOIs that its line needs (idt.h:103-109, 140, 229).                       *)
LEMMA ServiceInductive == Spec => []ServiceInv
<1>1. Init => ServiceInv
  BY DEF Init, ServiceInv, InService
<1>2. TypeOK /\ ServiceInv /\ [Next]_vars => ServiceInv'
  <2> SUFFICES ASSUME TypeOK, ServiceInv, [Next]_vars PROVE ServiceInv'
    OBVIOUS
  <2> USE DEF ServiceInv, InService
  <2>1. CASE TakeTimerIrq \/ TakeMouseIrq
    BY <2>1 DEF TakeTimerIrq, TakeMouseIrq
  <2>2. CASE pit_handler
    BY <2>2 DEF pit_handler, pic_eoi, MasterDone
  <2>3. CASE DrainByte \/ CountByte
    BY <2>3 DEF DrainByte, CountByte
  <2>4. CASE EndMouse
    BY <2>4 DEF EndMouse, pic_eoi, MasterDone
  <2>5. CASE OfferKey \/ OfferMouse \/ PollKey \/ ReadKey
    BY <2>5 DEF OfferKey, OfferMouse, PollKey, ReadKey
  <2>6. CASE UNCHANGED vars
    BY <2>6 DEF vars
  <2>7. QED
    BY <2>1, <2>2, <2>3, <2>4, <2>5, <2>6 DEF Next, Handlers
<1>3. QED
  BY <1>1, <1>2, TypeCorrect, PTL DEF Spec

(* In get_key no line is in service: no handler forgets an EOI, so neither    *)
(* IRQ 0 nor IRQ 12 is ever blocked for good (idt.h:103-109, 140, 229).       *)
THEOREM EoiBalancedCorrect == Spec => []EoiBalanced
<1>1. ServiceInv => EoiBalanced
  BY DEF ServiceInv, InService, EoiBalanced
<1>2. QED
  BY <1>1, ServiceInductive, PTL

(* The discard mark of a packet is gone when the packet is (idt.h:217-221).  *)
THEOREM DiscardInsidePacketCorrect == Spec => []DiscardInsidePacket
<1>1. Init => DiscardInsidePacket
  BY DEF Init, DiscardInsidePacket
<1>2. TypeOK /\ DiscardInsidePacket /\ [Next]_vars => DiscardInsidePacket'
  <2> SUFFICES ASSUME TypeOK, DiscardInsidePacket, [Next]_vars
               PROVE  DiscardInsidePacket'
    OBVIOUS
  <2>1. CASE CountByte
    BY <2>1 DEF CountByte, NextCycle, NextDiscard, DiscardInsidePacket, TypeOK
  <2>2. CASE UNCHANGED <<HANDLER_CYCLE, discard>>
    BY <2>2 DEF DiscardInsidePacket
  <2>3. QED
    BY <2>1, <2>2
    DEF Next, Handlers, vars, handler, OfferKey, OfferMouse, TakeTimerIrq,
        TakeMouseIrq, pit_handler, DrainByte, EndMouse, PollKey, ReadKey
<1>3. QED
  BY <1>1, <1>2, TypeCorrect, PTL DEF Spec

(* A mouse byte in the buffer always has its interrupt coming: get_key could *)
(* find it there only in the instant before the interrupt is taken.          *)
THEOREM MouseByteHasIrqCorrect == Spec => []MouseByteHasIrq
<1>1. Init => MouseByteHasIrq
  BY DEF Init, MouseByteHasIrq
<1>2. TypeOK /\ ServiceInv /\ MouseByteHasIrq /\ [Next]_vars => MouseByteHasIrq'
  <2> SUFFICES ASSUME TypeOK, ServiceInv, MouseByteHasIrq, [Next]_vars
               PROVE  MouseByteHasIrq'
    OBVIOUS
  <2> USE DEF MouseByteHasIrq
  <2>0. ob' = Emptied => ~ob'.full
    BY DEF Emptied, TypeOK
  <2>1. CASE OfferKey
    <3>1. IsKey(Head(kq))
      <4>1. kq \in Seq(KeyBytes) /\ kq # <<>>
        BY <2>1 DEF OfferKey, TypeOK
      <4>2. Head(kq) \in KeyBytes
        BY <4>1
      <4>3. QED
        BY <4>2 DEF KeyBytes, IsKey
    <3>2. QED
      BY <2>1, <3>1 DEF OfferKey
  <2>2. CASE OfferMouse
    BY <2>2 DEF OfferMouse
  <2>3. CASE TakeTimerIrq \/ pit_handler
    BY <2>3 DEF TakeTimerIrq, pit_handler, device
  <2>4. CASE TakeMouseIrq
    BY <2>4 DEF TakeMouseIrq
  <2>5. CASE DrainByte \/ CountByte \/ EndMouse \/ ReadKey
    BY <2>0, <2>5 DEF DrainByte, CountByte, EndMouse, ReadKey
  <2>6. CASE PollKey \/ UNCHANGED vars
    BY <2>6 DEF PollKey, vars, device
  <2>7. QED
    BY <2>1, <2>2, <2>3, <2>4, <2>5, <2>6 DEF Next, Handlers
<1>3. QED
  BY <1>1, <1>2, TypeCorrect, ServiceInductive, PTL DEF Spec

-----------------------------------------------------------------------------
(* As long as a poll cannot fall into the instant before an IRQ is taken,    *)
(* get_key reads a scancode whenever it reads: its test of bit 0 is still    *)
(* true, and still about the keyboard, at the time of the read               *)
(* (mstdio.h:236-242, 250-256).                                              *)
LEMMA ReadingInductive == Spec => []ReadingInv
<1>1. Init => ReadingInv
  BY DEF Init, ReadingInv
<1>2. TypeOK /\ ServiceInv /\ MouseByteHasIrq /\ ReadingInv /\ [Next]_vars
      => ReadingInv'
  <2> SUFFICES ASSUME TypeOK, ServiceInv, MouseByteHasIrq, ReadingInv, [Next]_vars
               PROVE  ReadingInv'
    OBVIOUS
  <2>0. cpu = "main" => (Deliverable <=> irq12)
    BY DEF Deliverable, ServiceInv, InService
  <2>1. CASE OfferKey \/ OfferMouse
    BY <2>1 DEF OfferKey, OfferMouse, MayOffer, ReadingInv
  <2>2. CASE TakeTimerIrq
    BY <2>2 DEF TakeTimerIrq, device, ReadingInv
  <2>3. CASE pit_handler
    BY <2>3 DEF pit_handler, device, ReadingInv
  <2>4. CASE TakeMouseIrq
    BY <2>4 DEF TakeMouseIrq, Deliverable, ReadingInv
  <2>5. CASE DrainByte \/ CountByte \/ EndMouse
    BY <2>5 DEF DrainByte, CountByte, EndMouse, ReadingInv
  <2>6. CASE PollKey
    <3> SUFFICES ASSUME "race" \notin ctl PROVE ReadingInv'
      BY <2>6 DEF PollKey, device, ReadingInv
    <3>1. ob.full /\ ~irq12 /\ cpu = "main"
      BY <2>0, <2>6 DEF PollKey, KeyWaiting
    <3>2. IsKey(ob.byte)
      BY <3>1 DEF MouseByteHasIrq
    <3>3. QED
      BY <2>6, <3>1, <3>2 DEF PollKey, device, ReadingInv
  <2>7. CASE ReadKey
    BY <2>7 DEF ReadKey, ReadingInv
  <2>8. CASE UNCHANGED vars
    BY <2>8 DEF vars, device, ReadingInv
  <2>9. QED
    BY <2>1, <2>2, <2>3, <2>4, <2>5, <2>6, <2>7, <2>8 DEF Next, Handlers
<1>3. QED
  BY <1>1, <1>2, TypeCorrect, ServiceInductive, MouseByteHasIrqCorrect, PTL DEF Spec

(* What get_key takes from port 0x60 is the scancode its test of bit 0 saw,   *)
(* unless the poll and IRQ 12 coincide (mstdio.h:236-242, 250-256).           *)
THEOREM KeyFaithfulCorrect == Spec => []KeyFaithful
<1>1. ReadingInv => KeyFaithful
  BY DEF ReadingInv, KeyFaithful
<1>2. QED
  BY <1>1, ReadingInductive, PTL

-----------------------------------------------------------------------------
(* The head of the keyboard's queue is the next scancode, and the others stay *)
(* in order behind it.                                                        *)
LEMMA NextKey ==
  ASSUME TypeOK, OrderInv, OfferKey
  PROVE  /\ Len(kq') = Len(kq) - 1
         /\ IsKey(ob'.byte) /\ ob'.full /\ ob'.byte.n = Sent + 1
         /\ Sent' = Sent + 1
         /\ \A k \in 1 .. Len(kq') : kq'[k].n = Sent' + k
<1> USE InputAssumption
<1>1. kq \in Seq(KeyBytes) /\ kq # <<>> /\ kq' = Tail(kq)
  BY DEF OfferKey, TypeOK
<1>2. ob' = [full |-> TRUE, byte |-> kq[1]]
  BY <1>1 DEF OfferKey
<1>3. Len(kq) \in Nat \ {0} /\ 1 \in 1 .. Len(kq)
  BY <1>1
<1>4. kq[1] \in KeyBytes
  BY <1>1, <1>3
<1>5. Len(kq') = Len(kq) - 1 /\ \A k \in 1 .. Len(kq') : kq'[k] = kq[k + 1]
  BY <1>1
<1>6. kq[1].n = Sent + 1 /\ \A k \in 1 .. Len(kq') : kq[k + 1].n = Sent + (k + 1)
  BY <1>3, <1>5 DEF OrderInv
<1>7. Sent' = Sent + 1 /\ Sent \in Int
  BY <1>3, <1>5 DEF Sent
<1>8. IsKey(ob'.byte)
  BY <1>2, <1>4 DEF IsKey, KeyBytes
<1>9. ob'.full /\ ob'.byte.n = Sent + 1
  BY <1>2, <1>6
<1>10. \A k \in 1 .. Len(kq') : kq'[k].n = Sent' + k
  BY <1>3, <1>5, <1>6, <1>7
<1>11. QED
  BY <1>5, <1>7, <1>8, <1>9, <1>10

(* What reading the latch does to the history. *)
LEMMA ReadAppends ==
  ASSUME TypeOK, ReadKey
  PROVE  /\ ~ob'.full /\ ob'.byte = ob.byte /\ main' \notin {"read", "shiftread"}
         /\ ~IsKey(ob.byte) => keys' = keys
         /\ IsKey(ob.byte) =>
              /\ Len(keys') = Len(keys) + 1
              /\ keys'[Len(keys) + 1] = ob.byte.n
              /\ \A i \in 1 .. Len(keys) : keys'[i] = keys[i]
<1>1. keys \in Seq(Nat) /\ ob \in [full : BOOLEAN, byte : Byte]
  BY DEF TypeOK
<1>2. ~ob'.full /\ ob'.byte = ob.byte
  BY <1>1 DEF ReadKey, Emptied
<1>3. main' \notin {"read", "shiftread"}
  BY DEF ReadKey
<1>4. ob.byte.n \in Nat
  BY <1>1 DEF Byte
<1>5. IsKey(ob.byte) => keys' = Append(keys, ob.byte.n)
  BY DEF ReadKey
<1>6. ~IsKey(ob.byte) => keys' = keys
  BY DEF ReadKey
<1>7. QED
  BY <1>1, <1>2, <1>3, <1>4, <1>5, <1>6

(* The order of the scancodes at the keyboard, in the latch and in get_key.  *)
LEMMA OrderInductive == Spec => []OrderInv
<1> USE InputAssumption
<1>1. Init => OrderInv
  <2> SUFFICES ASSUME Init PROVE OrderInv
    OBVIOUS
  <2>1. Len(kq) = NKeys /\ \A k \in 1 .. NKeys : kq[k].n = k
    BY DEF Init, Key
  <2>2. Len(keys) = 0 /\ ~IsKey(ob.byte)
    BY DEF Init, Ack, IsKey
  <2>3. QED
    BY <2>1, <2>2 DEF OrderInv, Sent
<1>2. TypeOK /\ OrderInv /\ [Next]_vars => OrderInv'
  <2> SUFFICES ASSUME TypeOK, OrderInv, [Next]_vars PROVE OrderInv'
    OBVIOUS
  <2>t. Len(kq) \in Nat /\ Len(keys) \in Nat /\ Sent \in Nat
        /\ \A i \in 1 .. Len(keys) : keys[i] \in Nat
    <3>1. kq \in Seq(KeyBytes) /\ keys \in Seq(Nat)
      BY DEF TypeOK
    <3>2. Len(kq) \in Nat /\ Len(keys) \in Nat
      BY <3>1
    <3>3. QED
      BY <3>1, <3>2 DEF OrderInv, Sent
  <2>1. CASE OfferKey
    <3>1. UNCHANGED <<keys, main>>
      BY <2>1 DEF OfferKey
    <3>2. QED
      BY <2>1, <2>t, <3>1, NextKey DEF OrderInv
  <2>2. CASE OfferMouse
    <3>1. Head(mq) \in MouseBytes
      <4>1. mq \in Seq(MouseBytes) /\ mq # <<>>
        BY <2>2 DEF OfferMouse, TypeOK
      <4>2. QED
        BY <4>1
    <3>2. ~IsKey(ob'.byte) /\ UNCHANGED <<kq, keys>>
      BY <2>2, <3>1 DEF OfferMouse, MouseBytes, IsKey
    <3>3. QED
      BY <3>2 DEF OrderInv, Sent
  <2>3. CASE DrainByte \/ CountByte \/ EndMouse
    <3>1. ob' = Emptied /\ UNCHANGED <<kq, main, keys>>
      BY <2>3 DEF DrainByte, CountByte, EndMouse, handler
    <3>2. ~ob'.full /\ ob'.byte = ob.byte
      BY <3>1 DEF Emptied, TypeOK
    <3>3. QED
      BY <3>1, <3>2 DEF OrderInv, Sent
  <2>4. CASE PollKey
    <3>1. ob.full /\ UNCHANGED <<kq, ob, keys>>
      BY <2>4 DEF PollKey, KeyWaiting, device
    <3>2. QED
      BY <3>1 DEF OrderInv, Sent
  <2>5. CASE ReadKey
    <3>1. main \in {"read", "shiftread"} /\ UNCHANGED kq
      BY <2>5 DEF ReadKey
    <3>2. CASE ~IsKey(ob.byte)
      BY <2>5, <3>1, <3>2, ReadAppends DEF OrderInv, Sent
    <3>3. CASE IsKey(ob.byte)
      <4>1. ob.byte.n = Sent /\ \A i \in 1 .. Len(keys) : keys[i] < ob.byte.n
        BY <3>1, <3>3 DEF OrderInv
      <4>2. /\ Len(keys') = Len(keys) + 1 /\ keys'[Len(keys) + 1] = Sent
            /\ \A i \in 1 .. Len(keys) : keys'[i] = keys[i] /\ keys[i] < Sent
            /\ \A i, j \in 1 .. Len(keys) : i < j => keys[i] < keys[j]
            /\ ~ob'.full /\ ob'.byte = ob.byte /\ main' \notin {"read", "shiftread"}
        BY <2>5, <3>3, <4>1, ReadAppends DEF OrderInv
      <4>4. \A i \in 1 .. Len(keys') : keys'[i] <= Sent
        BY <2>t, <4>2
      <4>5. \A i, j \in 1 .. Len(keys') : i < j => keys'[i] < keys'[j]
        <5> SUFFICES ASSUME NEW i \in 1 .. Len(keys'), NEW j \in 1 .. Len(keys'), i < j
                     PROVE  keys'[i] < keys'[j]
          OBVIOUS
        <5>1. i \in 1 .. Len(keys) /\ (j \in 1 .. Len(keys) \/ j = Len(keys) + 1)
          BY <2>t, <4>2
        <5>2. QED
          BY <4>2, <5>1
      <4>6. Sent' = Sent /\ kq' = kq
        BY <3>1 DEF Sent
      <4>7. QED
        BY <3>3, <4>1, <4>2, <4>4, <4>5, <4>6 DEF OrderInv
    <3>4. QED
      BY <3>2, <3>3
  <2>6. CASE TakeTimerIrq \/ TakeMouseIrq \/ pit_handler \/ UNCHANGED vars
    <3>1. UNCHANGED <<kq, ob, main, keys>>
      BY <2>6 DEF TakeTimerIrq, TakeMouseIrq, pit_handler, device, vars
    <3>2. QED
      BY <3>1 DEF OrderInv, Sent
  <2>7. QED
    BY <2>1, <2>2, <2>3, <2>4, <2>5, <2>6 DEF Next, Handlers
<1>3. QED
  BY <1>1, <1>2, TypeCorrect, PTL DEF Spec

(* Whatever the controller, get_key takes no scancode twice and none out of  *)
(* order (mstdio.h:242, 256).                                                *)
THEOREM KeysOnceCorrect == Spec => []KeysOnce
<1>1. TypeOK /\ OrderInv => KeysOnce
  <2> SUFFICES ASSUME TypeOK, OrderInv PROVE KeysOnce
    OBVIOUS
  <2>1. keys \in Seq(Nat)
    BY DEF TypeOK
  <2>2. DOMAIN keys = 1 .. Len(keys)
    BY <2>1
  <2>3. QED
    BY <2>2 DEF OrderInv, KeysOnce
<1>2. QED
  BY <1>1, TypeCorrect, OrderInductive, PTL

(* With a paced controller and no race every scancode is in one place: still  *)
(* to be sent, in the buffer, or read.                                        *)
LEMMA PacedInductive == Spec => []PacedInv
<1> USE InputAssumption
<1>1. Init => PacedInv
  <2> SUFFICES ASSUME Init PROVE PacedInv
    OBVIOUS
  <2>1. Len(kq) = NKeys /\ Len(keys) = 0 /\ ~irq12 /\ ~ob.full /\ cpu = "main"
    BY DEF Init
  <2>2. Len(InBuffer) = 0
    BY <2>1 DEF InBuffer
  <2>3. QED
    BY <2>1, <2>2 DEF PacedInv, Sent
<1>2. TypeOK /\ ServiceInv /\ ReadingInv /\ OrderInv /\ PacedInv /\ [Next]_vars
      => PacedInv'
  <2> SUFFICES ASSUME TypeOK, ServiceInv, ReadingInv, OrderInv, PacedInv, [Next]_vars,
                      ctl' = {"paced"}
               PROVE  PacedInv'
    BY DEF PacedInv
  <2>t. /\ Len(kq) \in Nat /\ Len(keys) \in Nat
        /\ keys \in Seq(Nat)
    BY DEF TypeOK
  <2>c. ctl = {"paced"}
    BY DEF Next, Handlers, OfferKey, OfferMouse, TakeTimerIrq, TakeMouseIrq,
           pit_handler, DrainByte, CountByte, EndMouse, PollKey, ReadKey, vars, device
  <2>p. /\ irq12 => ob.full /\ ~IsKey(ob.byte)
        /\ cpu \in {"mouse_handler", "end"} => ~irq12 /\ ~(ob.full /\ IsKey(ob.byte))
        /\ Len(keys) + Len(InBuffer) = Sent
        /\ \A i \in 1 .. Len(keys) : keys[i] = i
    BY <2>c DEF PacedInv
  <2>b. /\ ob.full /\ IsKey(ob.byte) => Len(InBuffer) = 1
        /\ ~(ob.full /\ IsKey(ob.byte)) => Len(InBuffer) = 0
    BY DEF InBuffer
  <2>n. /\ ob'.full /\ IsKey(ob'.byte) => Len(InBuffer') = 1
        /\ ~(ob'.full /\ IsKey(ob'.byte)) => Len(InBuffer') = 0
    BY DEF InBuffer
  <2>d. cpu = "main" => (Deliverable <=> irq12)
    BY DEF Deliverable, ServiceInv, InService
  <2>1. CASE OfferKey
    <3>1. ~ob.full /\ cpu = "main" /\ UNCHANGED <<irq12, cpu, keys>>
      BY <2>1, <2>c DEF OfferKey, MayOffer
    <3>2. ob'.full /\ IsKey(ob'.byte) /\ Sent' = Sent + 1
      BY <2>1, NextKey
    <3>3. ~irq12'
      BY <2>p, <3>1
    <3>4. Len(keys') + Len(InBuffer') = Sent'
      <4>1. Len(InBuffer) = 0 /\ Len(InBuffer)' = 1 /\ keys' = keys
        BY <2>b, <2>n, <3>1, <3>2
      <4>2. Len(keys) = Sent
        BY <2>t, <2>p, <4>1
      <4>3. QED
        BY <2>t, <3>2, <4>1, <4>2
    <3>5. QED
      BY <2>p, <3>1, <3>3, <3>4 DEF PacedInv
  <2>2. CASE OfferMouse
    <3>1. ~ob.full /\ cpu = "main" /\ UNCHANGED <<kq, cpu, keys>>
      BY <2>2, <2>c DEF OfferMouse, MayOffer
    <3>2. mq \in Seq(MouseBytes) /\ mq # <<>>
      BY <2>2 DEF OfferMouse, TypeOK
    <3>3. Head(mq) \in MouseBytes
      BY <3>2
    <3>4. ob'.full /\ ~IsKey(ob'.byte) /\ irq12'
      BY <2>2, <3>3 DEF OfferMouse, MouseBytes, IsKey
    <3>5. QED
      BY <2>t, <2>p, <2>b, <2>n, <3>1, <3>4 DEF PacedInv, Sent
  <2>3. CASE TakeMouseIrq
    <3>1. irq12 /\ ~irq12' /\ UNCHANGED <<kq, ob, keys>>
      BY <2>3 DEF TakeMouseIrq, Deliverable
    <3>2. QED
      BY <2>p, <2>b, <2>n, <3>1 DEF PacedInv, Sent
  <2>4. CASE DrainByte \/ CountByte \/ EndMouse
    <3>1. /\ cpu \in {"mouse_handler", "end"} /\ UNCHANGED <<kq, keys>>
          /\ ob' = Emptied
      BY <2>4 DEF DrainByte, CountByte, EndMouse, handler
    <3>2. ~ob'.full
      BY <3>1 DEF Emptied, TypeOK
    <3>3. ~irq12'
      <4>1. ~irq12
        BY <2>p, <3>1
      <4>2. irq12' = irq12 \/ irq12' = FALSE
        BY <2>4 DEF DrainByte, CountByte, EndMouse
      <4>3. QED
        BY <4>1, <4>2
    <3>4. QED
      BY <2>p, <2>b, <2>n, <3>1, <3>2, <3>3 DEF PacedInv, Sent
  <2>5. CASE ReadKey
    <3>1. /\ main \in {"read", "shiftread"} /\ cpu = "main" /\ ~irq12
          /\ UNCHANGED <<kq, irq12, cpu>>
      BY <2>5, <2>d DEF ReadKey
    <3>2. ob.full /\ IsKey(ob.byte) /\ ob.byte.n = Sent
      BY <2>c, <3>1 DEF ReadingInv, OrderInv
    <3>3. /\ ~ob'.full
          /\ Len(keys') = Len(keys) + 1 /\ keys'[Len(keys) + 1] = Sent
          /\ \A i \in 1 .. Len(keys) : keys'[i] = keys[i]
      BY <2>5, <3>2, ReadAppends
    <3>4. Sent = Len(keys) + 1 /\ Sent' = Sent
      BY <2>t, <2>p, <2>b, <3>1, <3>2 DEF Sent
    <3>5. \A i \in 1 .. Len(keys') : keys'[i] = i
      BY <2>t, <2>p, <3>3, <3>4
    <3>6. QED
      BY <2>t, <2>n, <3>1, <3>3, <3>4, <3>5 DEF PacedInv
  <2>6. CASE PollKey \/ TakeTimerIrq \/ pit_handler \/ UNCHANGED vars
    <3>1. UNCHANGED <<kq, ob, irq12, keys>>
          /\ (cpu' \in {"mouse_handler", "end"} => cpu' = cpu)
      BY <2>6 DEF PollKey, TakeTimerIrq, pit_handler, device, vars
    <3>2. QED
      BY <2>p, <2>b, <2>n, <3>1 DEF PacedInv, Sent
  <2>7. QED
    BY <2>1, <2>2, <2>3, <2>4, <2>5, <2>6 DEF Next, Handlers
<1>3. QED
  BY <1>1, <1>2, TypeCorrect, ServiceInductive, ReadingInductive, OrderInductive,
     PTL DEF Spec

(* Sequences of one length with the same elements are one sequence. *)
LEMMA SameSequence ==
  ASSUME NEW n \in Nat, NEW s \in Seq(Nat), NEW t \in Seq(Nat),
         Len(s) = n, Len(t) = n, \A i \in 1 .. n : s[i] = t[i]
  PROVE  s = t
<1>1. s \in [1 .. n -> Nat] /\ t \in [1 .. n -> Nat]
  OBVIOUS
<1>2. QED
  BY <1>1

(* With a paced controller and no race, what get_key has read, the buffer and *)
(* what the keyboard has still to send are together the scancodes typed.      *)
THEOREM KeysConservedCorrect == Spec => []KeysConserved
<1>1. TypeOK /\ OrderInv /\ PacedInv => KeysConserved
  <2> SUFFICES ASSUME TypeOK, OrderInv, PacedInv, ctl = {"paced"}
               PROVE  keys \o InBuffer \o [k \in DOMAIN kq |-> kq[k].n]
                      = [k \in 1 .. NKeys |-> k]
    BY DEF KeysConserved
  <2> USE InputAssumption
  <2> DEFINE rest == [k \in DOMAIN kq |-> kq[k].n]
             all == [k \in 1 .. NKeys |-> k]
  <2>1. /\ kq \in Seq(KeyBytes) /\ keys \in Seq(Nat)
        /\ ob.byte.n \in Nat
    BY DEF TypeOK, Byte
  <2>2. rest \in Seq(Nat) /\ Len(rest) = Len(kq)
    <3>1. \A k \in 1 .. Len(kq) : kq[k].n \in Nat
      <4>1. \A k \in 1 .. Len(kq) : kq[k] \in KeyBytes
        BY <2>1
      <4>2. QED
        BY <4>1 DEF KeyBytes
    <3>2. DOMAIN kq = 1 .. Len(kq) /\ Len(kq) \in Nat
      BY <2>1
    <3>3. rest \in [1 .. Len(kq) -> Nat]
      BY <3>1, <3>2
    <3>4. QED
      BY <3>2, <3>3
  <2>3. \A k \in 1 .. Len(kq) : rest[k] = Sent + k
    BY <2>1 DEF OrderInv
  <2>4. InBuffer \in Seq(Nat) /\ (Len(InBuffer) = 0 \/ (Len(InBuffer) = 1 /\ InBuffer[1] = Sent))
    BY <2>1 DEF InBuffer, OrderInv
  <2>5. Len(keys) + Len(InBuffer) = Sent /\ \A i \in 1 .. Len(keys) : keys[i] = i
    BY DEF PacedInv
  <2>6. Sent = NKeys - Len(kq) /\ Len(kq) \in Nat
    BY <2>1 DEF Sent
  <2> DEFINE read == keys \o InBuffer
  <2>7. read \in Seq(Nat) /\ Len(read) = Sent /\ Sent \in Nat
    BY <2>1, <2>4, <2>5
  <2>8. \A i \in 1 .. Sent : read[i] = i
    <3>1. \A i \in 1 .. Sent :
            read[i] = IF i <= Len(keys) THEN keys[i] ELSE InBuffer[i - Len(keys)]
      BY <2>1, <2>4, <2>5, ConcatProperties
    <3>2. Len(keys) \in Nat
      BY <2>1
    <3>3. SUFFICES ASSUME NEW i \in 1 .. Sent PROVE read[i] = i
      OBVIOUS
    <3>4. i <= Len(keys) \/ (i = Sent /\ i - Len(keys) = 1 /\ Len(InBuffer) = 1)
      <4>1. Sent = Len(keys) \/ (Sent = Len(keys) + 1 /\ Len(InBuffer) = 1)
        <5>1. CASE Len(InBuffer) = 0
          BY <2>5, <3>2, <5>1
        <5>2. CASE Len(InBuffer) = 1
          BY <2>5, <3>2, <5>2
        <5>3. QED
          BY <2>4, <5>1, <5>2
      <4>2. i \in Nat /\ i <= Sent
        BY <2>7
      <4>3. CASE Sent = Len(keys)
        BY <4>2, <4>3
      <4>4. CASE Sent = Len(keys) + 1 /\ Len(InBuffer) = 1
        <5>1. i <= Len(keys) \/ i = Sent
          BY <3>2, <4>2, <4>4
        <5>2. i = Sent => i - Len(keys) = 1
          BY <3>2, <4>4
        <5>3. QED
          BY <4>4, <5>1, <5>2
      <4>5. QED
        BY <4>1, <4>3, <4>4
    <3> HIDE DEF read
    <3>5. QED
      BY <2>4, <2>5, <2>7, <3>1, <3>2, <3>4
  <2> HIDE DEF read, rest
  <2>9. read \o rest \in Seq(Nat) /\ Len(read \o rest) = NKeys
    BY <2>2, <2>6, <2>7
  <2>10. \A i \in 1 .. NKeys : (read \o rest)[i] = i
    <3> SUFFICES ASSUME NEW i \in 1 .. NKeys PROVE (read \o rest)[i] = i
      OBVIOUS
    <3>1. CASE i <= Sent
      BY <2>2, <2>6, <2>7, <2>8, <3>1
    <3>2. CASE i > Sent
      <4>1. i - Sent \in 1 .. Len(kq) /\ (read \o rest)[i] = rest[i - Sent]
        BY <2>2, <2>6, <2>7, <3>2
      <4>2. QED
        BY <2>3, <2>6, <4>1
    <3>3. i <= Sent \/ i > Sent
      BY <2>7
    <3>4. QED
      BY <3>1, <3>2, <3>3
  <2>11. all \in Seq(Nat) /\ Len(all) = NKeys /\ \A i \in 1 .. NKeys : all[i] = i
    OBVIOUS
  <2> HIDE DEF all
  <2>12. read \o rest = all
    BY <2>9, <2>10, <2>11, SameSequence
  <2>13. QED
    BY <2>12 DEF read, rest, all
<1>2. QED
  BY <1>1, TypeCorrect, OrderInductive, PacedInductive, PTL

-----------------------------------------------------------------------------
(* Packet byte 3q + c + 1 is part c of movement q + 1. *)
LEMMA PartOfPacket ==
  ASSUME NEW j \in Nat, NEW q \in Nat, NEW c \in 0 .. 2, j = 3 * q + c + 1
  PROVE  MouseByte(j) = [src |-> Kind[c + 1], n |-> q + 1]
<1>1. (j - 1) % 3 = c /\ (j - 1) \div 3 = q
  OBVIOUS
<1>2. QED
  BY <1>1 DEF MouseByte

(* What the mouse sends next is the head of its queue, and the rest stays in *)
(* order behind it.                                                          *)
LEMMA NextMouseByte ==
  ASSUME TypeOK, QueueInv, OfferMouse
  PROVE  /\ Len(mq') = Len(mq) - 1 /\ Len(mq') \in Nat
         /\ MouseSent' = MouseSent + 1
         /\ ob'.full
         /\ ob'.byte = FromMouse(MouseSent')
         /\ \A j \in 1 .. Len(mq') : mq'[j] = mq[j + 1]
<1> USE InputAssumption
<1>1. mq \in Seq(MouseBytes) /\ mq # <<>> /\ mq' = Tail(mq)
  BY DEF OfferMouse, TypeOK
<1>2. ob' = [full |-> TRUE, byte |-> mq[1]]
  BY <1>1 DEF OfferMouse
<1>3. Len(mq) \in Nat \ {0} /\ 1 \in 1 .. Len(mq)
  BY <1>1
<1>4. Len(mq') = Len(mq) - 1 /\ \A j \in 1 .. Len(mq') : mq'[j] = mq[j + 1]
  BY <1>1
<1>5. MouseSent' = MouseSent + 1
  BY <1>3, <1>4 DEF MouseSent
<1>6. mq[1] = FromMouse(MouseSent + 1)
  BY <1>3 DEF QueueInv
<1>7. mq[1] = FromMouse(MouseSent')
  BY <1>5, <1>6
<1>8. ob'.full /\ ob'.byte = mq[1] /\ Len(mq') \in Nat
  BY <1>2, <1>3, <1>4
<1>9. QED
  BY <1>4, <1>5, <1>7, <1>8

(* The mouse's bytes leave it in order, and one of a packet in the buffer is *)
(* the last that left.                                                       *)
LEMMA QueueInductive == Spec => []QueueInv
<1> USE InputAssumption
<1>1. Init => QueueInv
  <2> SUFFICES ASSUME Init PROVE QueueInv
    OBVIOUS
  <2>1. Leftover + 3 * NPackets \in Nat
    OBVIOUS
  <2>2. /\ mq \in [1 .. Leftover + 3 * NPackets -> MouseBytes]
        /\ Len(mq) = Leftover + 3 * NPackets
    <3>1. mq \in Seq(MouseBytes) /\ DOMAIN mq = 1 .. Leftover + 3 * NPackets
      BY QueueTypes DEF Init
    <3>2. QED
      BY <2>1, <3>1
  <2>3. MouseSent = 0
    BY <2>2 DEF MouseSent
  <2>4. ~ob.full
    BY DEF Init
  <2>5. \A j \in 1 .. Len(mq) : mq[j] = FromMouse(MouseSent + j)
    BY <2>2, <2>3 DEF Init
  <2>6. QED
    BY <2>1, <2>2, <2>4, <2>5 DEF QueueInv
<1>2. TypeOK /\ QueueInv /\ [Next]_vars => QueueInv'
  <2> SUFFICES ASSUME TypeOK, QueueInv, [Next]_vars PROVE QueueInv'
    OBVIOUS
  <2>0. Len(mq) \in Nat
    BY DEF TypeOK
  <2>1. CASE OfferMouse
    <3>1. ob'.byte = FromMouse(MouseSent')
      BY <2>1, NextMouseByte
    <3>2. \A j \in 1 .. Len(mq') : mq'[j] = FromMouse(MouseSent' + j)
      <4> SUFFICES ASSUME NEW j \in 1 .. Len(mq')
                   PROVE  mq'[j] = FromMouse(MouseSent' + j)
        OBVIOUS
      <4>1. j + 1 \in 1 .. Len(mq) /\ mq'[j] = mq[j + 1]
        BY <2>0, <2>1, NextMouseByte
      <4>2. MouseSent' + j = MouseSent + (j + 1)
        <5>1. MouseSent \in Int /\ MouseSent' = MouseSent + 1
          <6>1. MouseSent \in Int
            BY <2>0 DEF MouseSent
          <6>2. QED
            BY <2>1, <6>1, NextMouseByte
        <5>2. j \in Int
          OBVIOUS
        <5>3. QED
          BY <5>1, <5>2
      <4>3. mq[j + 1] = FromMouse(MouseSent + (j + 1))
        BY <4>1 DEF QueueInv
      <4>4. FromMouse(MouseSent' + j) = FromMouse(MouseSent + (j + 1))
        BY ONLY <4>2, Zenon
      <4>5. QED
        BY <4>1, <4>3, <4>4
    <3>3. Len(mq') <= Leftover + 3 * NPackets
      BY <2>0, <2>1, NextMouseByte DEF QueueInv
    <3>4. QED
      BY <3>1, <3>2, <3>3 DEF QueueInv
  <2>2. CASE OfferKey
    <3>1. kq \in Seq(KeyBytes) /\ kq # <<>>
      BY <2>2 DEF OfferKey, TypeOK
    <3>2. Head(kq) \in KeyBytes
      BY <3>1
    <3>3. ~InPacket(ob'.byte) /\ mq' = mq
      BY <2>2, <3>2 DEF OfferKey, KeyBytes, InPacket
    <3>4. QED
      BY <3>3 DEF QueueInv, MouseSent
  <2>3. CASE DrainByte \/ CountByte \/ EndMouse \/ ReadKey
    <3>1. ob' = Emptied /\ mq' = mq
      BY <2>3 DEF DrainByte, CountByte, EndMouse, ReadKey
    <3>2. ~ob'.full
      BY <3>1 DEF Emptied, TypeOK
    <3>3. QED
      BY <3>1, <3>2 DEF QueueInv, MouseSent
  <2>4. CASE TakeTimerIrq \/ TakeMouseIrq \/ pit_handler \/ PollKey \/ UNCHANGED vars
    <3>1. UNCHANGED <<ob, mq>>
      BY <2>4 DEF TakeTimerIrq, TakeMouseIrq, pit_handler, PollKey, device, vars
    <3>2. QED
      BY <3>1 DEF QueueInv, MouseSent
  <2>5. QED
    BY <2>1, <2>2, <2>3, <2>4 DEF Next, Handlers
<1>3. QED
  BY <1>1, <1>2, TypeCorrect, PTL DEF Spec

(* The arrival of a byte takes none from a packet. *)
LEMMA OfferTakesNone ==
  ASSUME TypeOK, QueueInv, OfferKey \/ OfferMouse
  PROVE  Taken' = Taken
<1> USE InputAssumption
<1>1. Len(mq) \in Nat
  BY DEF TypeOK
<1>2. ~ob.full
  BY DEF OfferKey, OfferMouse, MayOffer
<1>3. CASE OfferKey
  <2>1. kq \in Seq(KeyBytes) /\ kq # <<>>
    BY <1>3 DEF OfferKey, TypeOK
  <2>2. Head(kq) \in KeyBytes
    BY <2>1
  <2>3. ~InPacket(ob'.byte) /\ mq' = mq
    BY <1>3, <2>2 DEF OfferKey, KeyBytes, InPacket
  <2>4. QED
    BY <1>2, <2>3 DEF Taken, MouseSent
<1>4. CASE OfferMouse
  <2>1. MouseSent' = MouseSent + 1 /\ MouseSent \in Int /\ ob'.full
    BY <1>1, <1>4, NextMouseByte DEF MouseSent
  <2>b. ob'.byte = FromMouse(MouseSent')
    BY <1>4, NextMouseByte
  <2>2. CASE MouseSent' <= Leftover
    <3>1. ~InPacket(ob'.byte)
      BY <2>b, <2>2 DEF FromMouse, Ack, InPacket
    <3>2. ~(MouseSent > Leftover) /\ ~(MouseSent' > Leftover)
      BY <2>1, <2>2
    <3>3. QED
      BY <1>2, <3>1, <3>2 DEF Taken
  <2>3. CASE MouseSent' > Leftover
    <3>1. ob'.byte = MouseByte(MouseSent' - Leftover)
      BY <2>1, <2>b, <2>3 DEF FromMouse
    <3>2. ((MouseSent' - Leftover) - 1) % 3 \in 0 .. 2
      BY <2>1
    <3>3. InPacket(ob'.byte)
      BY <3>1, <3>2 DEF MouseByte, Kind, InPacket
    <3>4. Taken' = (MouseSent' - Leftover) - 1
      BY <2>1, <2>3, <3>3 DEF Taken
    <3>5. Taken = MouseSent - Leftover
      <4>1. MouseSent >= Leftover
        BY <2>1, <2>3
      <4>2. Taken = IF MouseSent > Leftover THEN MouseSent - Leftover ELSE 0
        BY <1>2, <2>1 DEF Taken
      <4>3. QED
        BY <2>1, <4>1, <4>2
    <3>6. QED
      BY <2>1, <3>4, <3>5
  <2>4. QED
    BY <2>1, <2>2, <2>3
<1>5. QED
  BY <1>3, <1>4

(* A read that empties a buffer with no packet byte in it takes none. *)
LEMMA ReadTakesNone ==
  ASSUME TypeOK, ob' = Emptied, mq' = mq, ~(ob.full /\ InPacket(ob.byte))
  PROVE  Taken' = Taken
<1>1. ~ob'.full
  BY DEF Emptied, TypeOK
<1>2. QED
  BY <1>1 DEF Taken, MouseSent

(* A counted byte of a packet fills the field that is due, with the part the *)
(* field is named for, of the movement that the earlier fields belong to.    *)
LEMMA CountKeepsPackets ==
  ASSUME TypeOK, QueueInv, PacketInv, CountByte, ~slipped'
  PROVE  PacketInv'
<1> USE InputAssumption
<1>1. ~slipped /\ ob.full /\ InPacket(ob.byte)
  BY DEF CountByte, TypeOK
<1>t. Len(mq) \in Nat /\ MouseSent \in Int /\ HANDLER_CYCLE \in 0 .. 2
  BY DEF TypeOK, MouseSent
<1>2. MouseSent > Leftover /\ ob.byte = MouseByte(MouseSent - Leftover)
  <2>1. ob.byte = FromMouse(MouseSent)
    BY <1>1 DEF QueueInv
  <2>2. ~(MouseSent <= Leftover)
    BY <1>1, <2>1 DEF FromMouse, Ack, InPacket
  <2>3. QED
    BY <1>t, <2>1, <2>2 DEF FromMouse
<1>3. Taken = MouseSent - Leftover - 1
  BY <1>1, <1>2, <1>t DEF Taken
<1>4. ob' = Emptied /\ mq' = mq
  BY DEF CountByte
<1>5. ~ob'.full
  BY <1>4 DEF Emptied, TypeOK
<1>6. Taken' = MouseSent - Leftover /\ MouseSent - Leftover <= 3 * NPackets
  BY <1>2, <1>4, <1>5, <1>t DEF Taken, MouseSent
<1>7. PICK q \in 0 .. NPackets :
        /\ Taken = 3 * q + HANDLER_CYCLE
        /\ HANDLER_CYCLE > 0 => current_packet.flags = [src |-> "flags", n |-> q + 1]
        /\ HANDLER_CYCLE = 2 => current_packet.x_mov = [src |-> "x", n |-> q + 1]
  BY <1>1 DEF PacketInv
<1>8. ob.byte = [src |-> Kind[HANDLER_CYCLE + 1], n |-> q + 1]
  <2>1. MouseSent - Leftover = 3 * q + HANDLER_CYCLE + 1
    BY <1>3, <1>7, <1>t
  <2>2. MouseSent - Leftover \in Nat /\ q \in Nat
    BY <1>2, <1>t
  <2>3. MouseByte(MouseSent - Leftover) = [src |-> Kind[HANDLER_CYCLE + 1], n |-> q + 1]
    BY <1>t, <2>1, <2>2, PartOfPacket
  <2>4. QED
    BY <1>2, <2>3
<1>9. current_packet \in [flags : Byte, x_mov : Byte, y_mov : Byte]
  BY DEF TypeOK
<1>10. Taken' = 3 * q + HANDLER_CYCLE + 1
  BY <1>3, <1>6, <1>7, <1>t
<1>11. CASE HANDLER_CYCLE = 0
  <2>1. HANDLER_CYCLE' = 1
    BY <1>11 DEF CountByte, NextCycle
  <2>2. current_packet'.flags = [src |-> "flags", n |-> q + 1]
    BY <1>8, <1>9, <1>11 DEF CountByte, FieldOf, Kind
  <2>3. QED
    BY <1>10, <1>11, <2>1, <2>2 DEF PacketInv
<1>12. CASE HANDLER_CYCLE = 1
  <2>1. HANDLER_CYCLE' = 2
    BY <1>12 DEF CountByte, NextCycle
  <2>2. /\ current_packet'.flags = [src |-> "flags", n |-> q + 1]
        /\ current_packet'.x_mov = [src |-> "x", n |-> q + 1]
    BY <1>7, <1>8, <1>9, <1>12 DEF CountByte, FieldOf, Kind
  <2>3. QED
    BY <1>10, <1>12, <2>1, <2>2 DEF PacketInv
<1>13. CASE HANDLER_CYCLE = 2
  <2>1. HANDLER_CYCLE' = 0
    BY <1>13 DEF CountByte, NextCycle
  <2>2. current_packet' = [current_packet EXCEPT !.y_mov = [src |-> "y", n |-> q + 1]]
    <3>1. FieldOf(HANDLER_CYCLE) = "y_mov" /\ Kind[HANDLER_CYCLE + 1] = "y"
      BY <1>13 DEF FieldOf, Kind
    <3>2. QED
      BY <1>8, <3>1 DEF CountByte
  <2>3. current_packet' = [flags |-> [src |-> "flags", n |-> q + 1],
                           x_mov |-> [src |-> "x", n |-> q + 1],
                           y_mov |-> [src |-> "y", n |-> q + 1]]
    BY <1>7, <1>9, <1>13, <2>2
  <2>4. Taken' = 3 * (q + 1) + HANDLER_CYCLE' /\ q + 1 \in 0 .. NPackets
    BY <1>6, <1>10, <1>13, <2>1
  <2>5. QED
    BY <2>1, <2>3, <2>4 DEF PacketInv
<1>14. QED
  BY <1>11, <1>12, <1>13, <1>t

(* While nothing slipped, HANDLER_CYCLE is the number of bytes taken modulo  *)
(* three.                                                                    *)
LEMMA PacketInductive == Spec => []PacketInv
<1> USE InputAssumption
<1>1. Init => PacketInv
  <2> SUFFICES ASSUME Init PROVE PacketInv
    OBVIOUS
  <2>1. Leftover + 3 * NPackets \in Nat /\ HANDLER_CYCLE = 0 /\ ~ob.full
    BY DEF Init
  <2>2. Len(mq) = Leftover + 3 * NPackets
    <3>1. mq \in Seq(MouseBytes) /\ DOMAIN mq = 1 .. Leftover + 3 * NPackets
      BY QueueTypes DEF Init
    <3>2. QED
      BY <2>1, <3>1
  <2>3. Taken = 0
    BY <2>1, <2>2 DEF Taken, MouseSent
  <2>4. ~InPacket(current_packet.y_mov)
    BY DEF Init, Ack, InPacket
  <2>5. QED
    BY <2>1, <2>3, <2>4 DEF PacketInv
<1>2. TypeOK /\ ServiceInv /\ MouseByteHasIrq /\ QueueInv /\ PacketInv /\ [Next]_vars
      => PacketInv'
  <2> SUFFICES ASSUME TypeOK, ServiceInv, MouseByteHasIrq, QueueInv, PacketInv,
                      [Next]_vars, ~slipped'
               PROVE  PacketInv'
    BY DEF PacketInv
  <2>1. CASE CountByte
    BY <2>1, CountKeepsPackets
  <2>2. CASE DrainByte
    <3>1. ~slipped /\ ~Counted /\ ~(ob.full /\ InPacket(ob.byte))
      BY <2>2 DEF DrainByte, TypeOK
    <3>2. HANDLER_CYCLE = 0 /\ ~InPacket(current_packet.y_mov)
      BY <3>1 DEF Counted
    <3>3. HANDLER_CYCLE' = 0 /\ current_packet'.y_mov = current_packet.y_mov
      BY <2>2, <3>2 DEF DrainByte, TypeOK
    <3>4. Taken' = Taken
      BY <2>2, <3>1, ReadTakesNone DEF DrainByte
    <3>5. PICK q \in 0 .. NPackets : Taken = 3 * q + HANDLER_CYCLE
      BY <3>1 DEF PacketInv
    <3>6. QED
      BY <3>2, <3>3, <3>4, <3>5 DEF PacketInv
  <2>3. CASE OfferKey \/ OfferMouse
    <3>1. UNCHANGED <<HANDLER_CYCLE, current_packet, slipped>>
      BY <2>3 DEF OfferKey, OfferMouse, handler
    <3>2. Taken' = Taken
      BY <2>3, OfferTakesNone
    <3>3. QED
      BY <3>1, <3>2 DEF PacketInv
  <2>4. CASE EndMouse
    <3>1. UNCHANGED <<HANDLER_CYCLE, current_packet>> /\ ~slipped
          /\ ~(ob.full /\ InPacket(ob.byte))
      BY <2>4 DEF EndMouse, handler, TypeOK
    <3>2. Taken' = Taken
      BY <2>4, <3>1, ReadTakesNone DEF EndMouse
    <3>3. QED
      BY <3>1, <3>2 DEF PacketInv
  <2>5. CASE ReadKey
    <3>1. UNCHANGED <<HANDLER_CYCLE, current_packet, slipped>>
      BY <2>5 DEF ReadKey, handler
    <3>2. ~irq12
      BY <2>5 DEF ReadKey, Deliverable, ServiceInv, InService
    <3>3. ~(ob.full /\ InPacket(ob.byte))
      BY <2>5, <3>2 DEF ReadKey, MouseByteHasIrq, IsKey, InPacket
    <3>4. Taken' = Taken
      BY <2>5, <3>3, ReadTakesNone DEF ReadKey
    <3>5. QED
      BY <3>1, <3>4 DEF PacketInv
  <2>6. CASE TakeTimerIrq \/ TakeMouseIrq \/ pit_handler \/ PollKey \/ UNCHANGED vars
    <3>1. UNCHANGED <<ob, mq, HANDLER_CYCLE, current_packet, slipped>>
      BY <2>6 DEF TakeTimerIrq, TakeMouseIrq, pit_handler, PollKey, device, handler, vars
    <3>2. Taken' = Taken
      BY <3>1 DEF Taken, MouseSent
    <3>3. QED
      BY <3>1, <3>2 DEF PacketInv
  <2>7. QED
    BY <2>1, <2>2, <2>3, <2>4, <2>5, <2>6 DEF Next, Handlers
<1>3. QED
  BY <1>1, <1>2, TypeCorrect, ServiceInductive, MouseByteHasIrqCorrect, QueueInductive,
     PTL DEF Spec

(* As long as nothing slipped, the filled fields of current_packet are the   *)
(* parts their names say, of one movement, whatever the controller, the      *)
(* warm-up and the width of ticks (idt.h:198-224).                           *)
THEOREM PacketsWholeCorrect == Spec => []PacketsWhole
<1>1. TypeOK /\ PacketInv => PacketsWhole
  <2> SUFFICES ASSUME TypeOK, PacketInv, ~slipped PROVE PacketsWhole
    BY DEF PacketsWhole
  <2> DEFINE field(c) == current_packet[<<"flags", "x_mov", "y_mov">>[c + 1]]
             filled(c) == c < HANDLER_CYCLE
                          \/ (HANDLER_CYCLE = 0 /\ InPacket(current_packet.y_mov))
  <2>1. PICK q \in 0 .. NPackets :
          /\ HANDLER_CYCLE > 0 => current_packet.flags = [src |-> "flags", n |-> q + 1]
          /\ HANDLER_CYCLE = 2 => current_packet.x_mov = [src |-> "x", n |-> q + 1]
          /\ HANDLER_CYCLE = 0 /\ InPacket(current_packet.y_mov) =>
               current_packet = [flags |-> [src |-> "flags", n |-> q],
                                 x_mov |-> [src |-> "x", n |-> q],
                                 y_mov |-> [src |-> "y", n |-> q]]
    BY DEF PacketInv
  <2>2. HANDLER_CYCLE \in 0 .. 2
    BY DEF TypeOK
  <2>3. field(0) = current_packet.flags /\ field(1) = current_packet.x_mov
        /\ field(2) = current_packet.y_mov
    OBVIOUS
  <2>4. Kind[0 + 1] = "flags" /\ Kind[1 + 1] = "x" /\ Kind[2 + 1] = "y"
    BY DEF Kind
  <2> SUFFICES ASSUME NEW c \in 0 .. 2, filled(c)
               PROVE  field(c).src = Kind[c + 1] /\ field(c).n = current_packet.flags.n
    BY DEF PacketsWhole
  <2> HIDE DEF field
  <2>5. CASE c = 0
    BY <2>1, <2>2, <2>3, <2>4, <2>5
  <2>6. CASE c = 1
    BY <2>1, <2>2, <2>3, <2>4, <2>6
  <2>7. CASE c = 2
    BY <2>1, <2>2, <2>3, <2>4, <2>7
  <2>8. QED
    BY <2>5, <2>6, <2>7
<1>2. QED
  BY <1>1, TypeCorrect, PacketInductive, PTL

=============================================================================
