-------------------------------- MODULE Input --------------------------------
(***************************************************************************)
(* The input path: the controller's one output buffer (port 0x60), the PIC *)
(* and the three pieces of code that meet there:                           *)
(*   - get_key (mstdio.h:229-268), polled by the terminal with interrupts  *)
(*     on: it tests bit 0 of port 0x64 in one instruction and reads port   *)
(*     0x60 in a later one, and never asks whose byte it is;               *)
(*   - mouse_handler (idt.h:186-237) on IRQ 12, which reads port 0x60      *)
(*     twice and drains without counting while ticks < 250;                *)
(*   - pit_handler (idt.h:129-141) on IRQ 0, which counts ticks.           *)
(* Both gates are interrupt gates, so handlers do not nest.  IRQ 1 stays   *)
(* masked: pic_remap masks all lines and only 0, 2 and 12 are opened.      *)
(*                                                                         *)
(* The state is taken up at `sti' (kernel.c:184).  The controller and the  *)
(* PIC are hardware, modelled from how the code drives them.               *)
(***************************************************************************)
EXTENDS Integers, Sequences

CONSTANTS
  NKeys,      \* scancodes the user will type
  NPackets,   \* movements the mouse will report, three bytes each
  Leftover,   \* replies to init_mouse that it did not read (FA after AA 00)
  ShiftKeys,  \* which of the scancodes are 0x2A
  WarmUp,     \* 250: mouse_handler counts bytes from this tick on
  TickMod,    \* 2^32, the modulus of ticks
  Controllers \* the controllers to look at, each the set of what holds of it:
              \*   "paced": it offers no new byte while a handler runs
              \*   "race": a poll may see a mouse byte before its IRQ is taken

ASSUME InputAssumption ==
  /\ NKeys \in Nat /\ NPackets \in Nat /\ Leftover \in Nat
  /\ ShiftKeys \subseteq 1 .. NKeys
  /\ WarmUp \in Nat /\ TickMod \in Nat \ {0}
  /\ Controllers \subseteq SUBSET {"paced", "race"}

VARIABLES
  ctl,            \* the controller of this PC
  kq, mq,         \* bytes the keyboard and the mouse have to send
  ob,             \* the output buffer: status bit 0 and the data latch
  irq12,          \* the PIC has latched a request on line 12
  isr,            \* lines in service at the two PICs
  cpu,            \* which code the processor is in
  main,           \* where get_key is
  ticks,
  HANDLER_CYCLE,
  discard,
  current_packet,
  keys,           \* history: the keyboard bytes get_key has read
  slipped         \* history: the handler's count and the packets went apart

device == <<ctl, kq, mq, ob, irq12>>
handler == <<HANDLER_CYCLE, discard, current_packet>>
vars == <<device, isr, cpu, main, ticks, handler, keys, slipped>>

(* A definition X_... just above a definition X is a faulty variant of it     *)
(* that the code does not contain: the properties must tell the two apart.    *)

-----------------------------------------------------------------------------
Key(k) == [src |-> "key", n |-> k]
Ack == [src |-> "ack", n |-> 0]
Kind == <<"flags", "x", "y">>
MouseByte(j) == [src |-> Kind[((j - 1) % 3) + 1], n |-> ((j - 1) \div 3) + 1]
FromMouse(i) == IF i <= Leftover THEN Ack ELSE MouseByte(i - Leftover)

KeyBytes == [src : {"key"}, n : Nat]
MouseBytes == [src : {"ack", "flags", "x", "y"}, n : Nat]
Byte == [src : {"key", "ack", "flags", "x", "y"}, n : Nat]
IsKey(byte) == byte.src = "key"
InPacket(byte) == byte.src \in {"flags", "x", "y"}

Init ==
  /\ ctl \in Controllers
  /\ kq = [k \in 1 .. NKeys |-> Key(k)]
  /\ mq = [j \in 1 .. Leftover + 3 * NPackets |-> FromMouse(j)]
  /\ ob = [full |-> FALSE, byte |-> Ack]
  /\ irq12 = FALSE
  /\ isr = {}
  /\ cpu = "main"
  /\ main = "poll"
  /\ ticks = 0
  /\ HANDLER_CYCLE = 0
  /\ discard = 0
  /\ current_packet = [flags |-> Ack, x_mov |-> Ack, y_mov |-> Ack]
  /\ keys = <<>>
  /\ slipped = FALSE

-----------------------------------------------------------------------------
(* The controller moves a byte into the empty output buffer; a mouse byte    *)
(* raises IRQ 12.                                                            *)
MayOffer == ~ob.full /\ ("paced" \in ctl => cpu = "main")

OfferKey ==
  /\ MayOffer
  /\ kq # <<>>
  /\ ob' = [full |-> TRUE, byte |-> Head(kq)]
  /\ kq' = Tail(kq)
  /\ UNCHANGED <<ctl, mq, irq12, isr, cpu, main, ticks, handler, keys, slipped>>

OfferMouse ==
  /\ MayOffer
  /\ mq # <<>>
  /\ ob' = [full |-> TRUE, byte |-> Head(mq)]
  /\ mq' = Tail(mq)
  /\ irq12' = TRUE
  /\ UNCHANGED <<ctl, kq, isr, cpu, main, ticks, handler, keys, slipped>>

(* PORT_IN(0x60): the latch, which keeps its byte when it is read empty.     *)
Emptied == [ob EXCEPT !.full = FALSE]

(* A request in service blocks its own line and those of lower priority; the *)
(* slave PIC is on line 2 of the master.                                     *)
Deliverable == irq12 /\ isr \cap {0, 2, 12} = {}

(* pic_eoi(current_vector): a non-specific EOI ends the service of the most  *)
(* urgent line of a PIC.                                                     *)
MasterDone(s) == IF 0 \in s THEN s \ {0} ELSE s \ {2}
pic_eoi_MasterOnly(line) == isr' = MasterDone(isr)
pic_eoi(line) == isr' = MasterDone(IF line >= 8 THEN isr \ {12} ELSE isr)

-----------------------------------------------------------------------------
TakeTimerIrq ==
  /\ cpu = "main"
  /\ 0 \notin isr
  /\ cpu' = "pit_handler"
  /\ isr' = isr \cup {0}
  /\ UNCHANGED <<device, main, ticks, handler, keys, slipped>>

pit_handler ==
  /\ cpu = "pit_handler"
  /\ ticks' = (ticks + 1) % TickMod
  /\ pic_eoi(0)
  /\ cpu' = "main"
  /\ UNCHANGED <<device, main, handler, keys, slipped>>

TakeMouseIrq ==
  /\ cpu = "main"
  /\ Deliverable
  /\ cpu' = "mouse_handler"
  /\ irq12' = FALSE
  /\ isr' = isr \cup {2, 12}
  /\ UNCHANGED <<ctl, kq, mq, ob, main, ticks, handler, keys, slipped>>

(* The first PORT_IN of mouse_handler, before the warm-up is over.  When      *)
(* ticks has wrapped it may overwrite the flags of a packet.                  *)
Counted == HANDLER_CYCLE # 0 \/ InPacket(current_packet.y_mov)

DrainByte ==
  /\ cpu = "mouse_handler"
  /\ ticks < WarmUp
  /\ current_packet' = [current_packet EXCEPT !.flags = ob.byte]
  /\ ob' = Emptied
  /\ slipped' = (slipped \/ Counted \/ (ob.full /\ InPacket(ob.byte)))
  /\ cpu' = "end"
  /\ UNCHANGED <<ctl, kq, mq, irq12, isr, main, ticks, HANDLER_CYCLE, discard, keys>>

(* The switch of mouse_handler.  Whether the byte taken for flags has an     *)
(* overflow bit set, or bit 3 clear, is its content: bad is free.            *)
NextCycle == HANDLER_CYCLE' = (HANDLER_CYCLE + 1) % 3

NextDiscard_NoReset(bad) == discard' = IF HANDLER_CYCLE = 0 /\ bad THEN 1 ELSE discard
NextDiscard(bad) ==
  discard' = CASE HANDLER_CYCLE = 0 -> IF bad THEN 1 ELSE discard
               [] HANDLER_CYCLE = 1 -> discard
               [] HANDLER_CYCLE = 2 -> 0

FieldOf_Swapped(cycle) == <<"flags", "y_mov", "x_mov">>[cycle + 1]
FieldOf(cycle) == <<"flags", "x_mov", "y_mov">>[cycle + 1]

CountByte ==
  /\ cpu = "mouse_handler"
  /\ ticks >= WarmUp
  /\ current_packet' = [current_packet EXCEPT ![FieldOf(HANDLER_CYCLE)] = ob.byte]
  /\ NextCycle
  /\ \E bad \in BOOLEAN : NextDiscard(bad)
  /\ ob' = Emptied
  /\ slipped' = (slipped \/ ~ob.full \/ ~InPacket(ob.byte))
  /\ cpu' = "end"
  /\ UNCHANGED <<ctl, kq, mq, irq12, isr, main, ticks, keys>>

(* end: the second PORT_IN, pic_eoi(12) and iret.  If it takes a byte that   *)
(* the mouse sent meanwhile, line 12 falls, and a PIC keeps its request or   *)
(* forgets it.                                                               *)
EndMouse ==
  /\ cpu = "end"
  /\ ob' = Emptied
  /\ \/ UNCHANGED irq12
     \/ ob.full /\ ~IsKey(ob.byte) /\ irq12' = FALSE
  /\ slipped' = (slipped \/ (ob.full /\ InPacket(ob.byte)))
  /\ pic_eoi(12)
  /\ cpu' = "main"
  /\ UNCHANGED <<ctl, kq, mq, main, ticks, handler, keys>>

-----------------------------------------------------------------------------
(* get_key.  The processor takes a pending interrupt before the next         *)
(* instruction; with "race" the poll and the arrival coincide.               *)
KeyWaiting_AlwaysSet == TRUE
KeyWaiting_NeverSet == FALSE
KeyWaiting == ob.full

PollKey ==
  /\ cpu = "main"
  /\ main \in {"poll", "shiftpoll"}
  /\ KeyWaiting
  /\ Deliverable => "race" \in ctl
  /\ main' = IF main = "poll" THEN "read" ELSE "shiftread"
  /\ UNCHANGED <<device, isr, cpu, ticks, handler, keys, slipped>>

(* 0x2A as the first scancode makes get_key wait for the next one; what it   *)
(* makes of a byte that no key sent is open.                                 *)
ReadKey ==
  /\ cpu = "main"
  /\ main \in {"read", "shiftread"}
  /\ ~Deliverable
  /\ ob' = Emptied
  /\ keys' = IF IsKey(ob.byte) THEN Append(keys, ob.byte.n) ELSE keys
  /\ \E shift \in BOOLEAN :
       /\ IsKey(ob.byte) => shift = (ob.byte.n \in ShiftKeys)
       /\ main' = IF main = "read" /\ shift THEN "shiftpoll" ELSE "poll"
  /\ UNCHANGED <<ctl, kq, mq, irq12, isr, cpu, ticks, handler, slipped>>

-----------------------------------------------------------------------------
Handlers == pit_handler \/ DrainByte \/ CountByte \/ EndMouse
Next == \/ OfferKey \/ OfferMouse
        \/ TakeTimerIrq \/ TakeMouseIrq \/ Handlers
        \/ PollKey \/ ReadKey

(* A handler runs to its iret (weak fairness); between two ticks of the 1 kHz *)
(* timer the devices send, a pending IRQ 12 is taken and get_key advances:    *)
(* strong fairness, because every interrupt disables these for a moment.      *)
Fairness ==
  /\ SF_vars(OfferKey \/ OfferMouse)
  /\ WF_vars(Handlers)
  /\ SF_vars(TakeMouseIrq)
  /\ SF_vars(PollKey) /\ SF_vars(ReadKey)

Spec == Init /\ [][Next]_vars /\ Fairness

-----------------------------------------------------------------------------
(* The types; HANDLER_CYCLE never leaves the cases of the switch of           *)
(* mouse_handler, whose default would count no more (idt.h:198-224).          *)
TypeOK ==
  /\ ctl \subseteq {"paced", "race"}
  /\ kq \in Seq(KeyBytes) /\ mq \in Seq(MouseBytes)
  /\ ob \in [full : BOOLEAN, byte : Byte]
  /\ irq12 \in BOOLEAN
  /\ isr \subseteq {0, 2, 12}
  /\ cpu \in {"main", "pit_handler", "mouse_handler", "end"}
  /\ main \in {"poll", "read", "shiftpoll", "shiftread"}
  /\ ticks \in 0 .. TickMod - 1
  /\ HANDLER_CYCLE \in 0 .. 2
  /\ discard \in {0, 1}
  /\ current_packet \in [flags : Byte, x_mov : Byte, y_mov : Byte]
  /\ keys \in Seq(Nat)
  /\ slipped \in BOOLEAN

(* A mouse byte in the buffer has its IRQ 12 still to come, or its handler    *)
(* has just been entered: it never waits for get_key to find it.              *)
MouseByteHasIrq ==
  ob.full /\ ~IsKey(ob.byte) => irq12 \/ cpu = "mouse_handler"

(* Once get_key has seen bit 0 set, what it reads next is a scancode that     *)
(* nobody has taken meanwhile.  The test and the read are two instructions    *)
(* with interrupts on between them and the test does not look at the bit that *)
(* tells the mouse's bytes from the keyboard's (mstdio.h:236-242, 250-256).   *)
(* Only a poll that coincides with the arrival of a mouse byte breaks it.     *)
KeyFaithful ==
  "race" \notin ctl /\ main \in {"read", "shiftread"} => ob.full /\ IsKey(ob.byte)

InBuffer == IF ob.full /\ IsKey(ob.byte) THEN <<ob.byte.n>> ELSE <<>>

(* No scancode is lost, duplicated or reordered between keyboard and get_key, *)
(* although mouse_handler reads the same port, twice for every interrupt, as  *)
(* long as the controller is paced and no poll coincides with IRQ 12.         *)
KeysConserved ==
  ctl = {"paced"} =>
  keys \o InBuffer \o [k \in DOMAIN kq |-> kq[k].n] = [k \in 1 .. NKeys |-> k]

(* Everything typed reaches get_key in the end, whatever the mouse does.      *)
KeysArrive == ctl = {"paced"} => <>(Len(keys) = NKeys)

(* When polls race with IRQ 12 a scancode may be lost, but get_key never      *)
(* takes one twice or out of order, not even from the latch of an empty       *)
(* buffer (mstdio.h:242, 256).                                                *)
KeysOnce == \A i, j \in DOMAIN keys : i < j => keys[i] < keys[j]

(* As long as the handler has counted exactly the packet bytes it was sent,   *)
(* the fields of current_packet hold the parts their names say, all of one    *)
(* movement (idt.h:198-224).  What can make the two go apart is the warm-up   *)
(* (a packet cut by tick 250, or by ticks wrapping), the second PORT_IN, and  *)
(* a byte that is not one of a packet.                                        *)
PacketsWhole ==
  ~slipped =>
    LET filled == {c \in 0 .. 2 : c < HANDLER_CYCLE
                                  \/ (HANDLER_CYCLE = 0 /\ InPacket(current_packet.y_mov))}
    IN \A c \in filled :
         LET byte == current_packet[<<"flags", "x_mov", "y_mov">>[c + 1]]
         IN byte.src = Kind[c + 1] /\ byte.n = current_packet.flags.n

(* A packet's discard mark dies with the packet: no later one inherits it     *)
(* (idt.h:202-205, 217-221).                                                  *)
DiscardInsidePacket == HANDLER_CYCLE = 0 => discard = 0

(* Whenever the processor is back in get_key no line is left in service, so   *)
(* neither handler can block the other for good (idt.h:103-109, 140, 229).    *)
EoiBalanced == cpu = "main" => isr = {}

(* Why: the lines in service are those of the handler that is running; and    *)
(* while get_key is between its test and its read, the buffer is held by a    *)
(* scancode and no IRQ 12 is pending that could send the handler for it.      *)
InService == CASE cpu = "main" -> {}
               [] cpu = "pit_handler" -> {0}
               [] cpu \in {"mouse_handler", "end"} -> {2, 12}
ServiceInv == isr = InService
ReadingInv ==
  "race" \notin ctl /\ main \in {"read", "shiftread"} =>
    /\ ob.full /\ IsKey(ob.byte)
    /\ ~irq12
    /\ cpu \in {"main", "pit_handler"}

(* Why no scancode comes twice: the latch holds the last one sent, and those  *)
(* get_key has already read are older whenever it may read the latch.         *)
Sent == NKeys - Len(kq)
OrderInv ==
  /\ Len(kq) <= NKeys
  /\ \A k \in 1 .. Len(kq) : kq[k].n = Sent + k
  /\ IsKey(ob.byte) => ob.byte.n = Sent
  /\ \A i \in 1 .. Len(keys) : keys[i] <= Sent
  /\ IsKey(ob.byte) /\ (ob.full \/ main \in {"read", "shiftread"}) =>
       \A i \in 1 .. Len(keys) : keys[i] < ob.byte.n
  /\ \A i, j \in 1 .. Len(keys) : i < j => keys[i] < keys[j]

(* Why none is lost: with a paced controller and no race a pending IRQ 12     *)
(* stands for a mouse byte in the buffer, and a handler finds no scancode.    *)
PacedInv ==
  ctl = {"paced"} =>
    /\ irq12 => ob.full /\ ~IsKey(ob.byte)
    /\ cpu \in {"mouse_handler", "end"} => ~irq12 /\ ~(ob.full /\ IsKey(ob.byte))
    /\ Len(keys) + Len(InBuffer) = Sent
    /\ \A i \in 1 .. Len(keys) : keys[i] = i

(* Why packets stay whole: the mouse's bytes leave it in order, and the       *)
(* handler, as long as nothing slipped, has put packet byte 3q + c + 1 into   *)
(* field c of movement q + 1.                                                 *)
MouseSent == Leftover + 3 * NPackets - Len(mq)
QueueInv ==
  /\ Len(mq) <= Leftover + 3 * NPackets
  /\ \A j \in 1 .. Len(mq) : mq[j] = FromMouse(MouseSent + j)
  /\ ob.full /\ InPacket(ob.byte) => ob.byte = FromMouse(MouseSent)

Taken == (IF MouseSent > Leftover THEN MouseSent - Leftover ELSE 0)
         - (IF ob.full /\ InPacket(ob.byte) THEN 1 ELSE 0)
PacketInv ==
  ~slipped =>
    \E q \in 0 .. NPackets :
      LET Part(kind, n) == [src |-> kind, n |-> n] IN
      /\ Taken = 3 * q + HANDLER_CYCLE
      /\ HANDLER_CYCLE > 0 => current_packet.flags = Part("flags", q + 1)
      /\ HANDLER_CYCLE = 2 => current_packet.x_mov = Part("x", q + 1)
      /\ HANDLER_CYCLE = 0 /\ InPacket(current_packet.y_mov) =>
           current_packet = [flags |-> Part("flags", q), x_mov |-> Part("x", q),
                             y_mov |-> Part("y", q)]

(* Nothing sticks in the controller: every byte of both devices is taken.     *)
BytesConsumed == <>(kq = <<>> /\ mq = <<>> /\ ~ob.full)

=============================================================================
