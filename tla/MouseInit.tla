------------------------------ MODULE MouseInit ------------------------------
(***************************************************************************)
(* init_mouse (mouse.h:36-60): the handshake that makes the controller     *)
(* report the mouse.  Every access to a port is preceded by mouse_wait,    *)
(* which gives up after 100000 looks at the status port, and nobody asks   *)
(* whether it did.  Interrupts are off; controller, mouse and keyboard     *)
(* work at their own pace, and the keyboard may send a scancode at any     *)
(* time.  They are hardware, modelled from how the code drives them.       *)
(*                                                                         *)
(* What init_mouse leaves unread is where Input starts (its Leftover).     *)
(***************************************************************************)
EXTENDS Integers, Sequences

(* A byte is the set of its one-bits. *)
Byte == SUBSET (0 .. 7)

CONSTANTS
  Polls,      \* 100000, how often mouse_wait looks
  BiosBytes,  \* the command bytes the BIOS may have left
  Scancodes,  \* what the keyboard may send meanwhile
  MaxKeys     \* bound: how often it does

ASSUME MouseInitAssumption ==
  /\ Polls \in Nat /\ MaxKeys \in Nat
  /\ BiosBytes \subseteq Byte /\ Scancodes \subseteq Byte

VARIABLES
  bios,          \* the command byte when init_mouse is called
  step,          \* the access to a port that is next
  waiting,       \* still in the mouse_wait before it
  timeout,
  status,
  ib,            \* the controller's input buffer
  expects,       \* the command it has a data byte to get for
  command_byte,
  ob,            \* its output buffer: status bit 0, latch, and who wrote it
  bat,           \* the mouse is in its self-test
  reporting,     \* the mouse reports movements
  replies,       \* what the mouse has to send
  typed,         \* how many scancodes were sent
  late           \* history: a wait gave up on work that was still under way

code == <<step, waiting, timeout, status>>
mouse == <<bat, reporting, replies>>
handshakeVars ==
  <<bios, code, ib, expects, command_byte, ob, mouse, typed, late>>

(* A definition X_... just above a definition X is a faulty variant of it     *)
(* that the code does not contain: the properties must tell the two apart.    *)

-----------------------------------------------------------------------------
(* Commands to port 0x64, commands to the mouse, its replies.                 *)
EnableAux == {3, 5, 7}               \* 0xA8
ReadCommandByte == {5}               \* 0x20
WriteCommandByte == {5, 6}           \* 0x60
ToMouse == {2, 4, 6, 7}              \* 0xD4
NoCommand == {}
Reset == 0 .. 7                      \* 0xFF
Defaults == {1, 2, 4, 5, 6, 7}       \* 0xF6
Enable == {2, 4, 5, 6, 7}            \* 0xF4
Ack == {1, 3, 4, 5, 6, 7}            \* 0xFA
Passed == {1, 3, 5, 7}               \* 0xAA
MouseId == {}                        \* 0x00

(* init_mouse as the sequence of its accesses, each one after a mouse_wait.   *)
Access(op, byte) == <<[op |-> op, byte |-> byte]>>
Command(byte) == Access("command", byte)
Data(byte) == Access("data", byte)
mouse_read == Access("read", {})
mouse_write_Direct(val) == Data(val)
mouse_write(val) == Command(ToMouse) \o Data(val)

ResetMouse_Unread == mouse_write(Reset)
ResetMouse == mouse_write(Reset) \o mouse_read

init_mouse ==
  Command(EnableAux)
    \o Command(ReadCommandByte) \o Access("read_status", {}) \o mouse_read
    \o Command(WriteCommandByte) \o Access("write_status", {}) \o mouse_read
    \o ResetMouse
    \o mouse_write(Defaults) \o mouse_read
    \o mouse_write(Enable) \o mouse_read

End == Len(init_mouse) + 1
Next_access == init_mouse[step].op
Reads == Next_access \in {"read", "read_status"}

NoByte == [port |-> "none", byte |-> {}]

HandshakeInit ==
  /\ bios \in BiosBytes
  /\ step = 1 /\ waiting = TRUE /\ timeout = Polls
  /\ status = {}
  /\ ib = NoByte /\ expects = NoCommand
  /\ command_byte = bios
  /\ ob = [full |-> FALSE, byte |-> {}, src |-> "keyboard"]
  /\ bat = FALSE /\ reporting = FALSE /\ replies = <<>>
  /\ typed = 0
  /\ late = FALSE

-----------------------------------------------------------------------------
(* mouse_wait(0) before a read, mouse_wait(1) before a write.                 *)
Ready_Swapped == IF Reads THEN ib = NoByte ELSE ~ob.full
Ready == IF Reads THEN ob.full ELSE ib = NoByte

More_Zero(n) == n >= 0
More(n) == n > 0
Counted_Not(n) == n
Counted(n) == n - 1

UnderWay == ib # NoByte \/ bat \/ replies # <<>>

Poll ==
  /\ step < End /\ waiting /\ More(timeout)
  /\ IF Ready THEN waiting' = FALSE /\ UNCHANGED timeout
              ELSE timeout' = Counted(timeout) /\ UNCHANGED waiting
  /\ UNCHANGED <<bios, step, status, ib, expects, command_byte, ob, mouse, typed, late>>

GiveUp ==
  /\ step < End /\ waiting /\ ~More(timeout)
  /\ waiting' = FALSE
  /\ late' = (late \/ UnderWay)
  /\ UNCHANGED <<bios, step, timeout, status, ib, expects, command_byte, ob, mouse, typed>>

Accesses(ops) ==
  /\ step < End /\ ~waiting
  /\ Next_access \in ops
  /\ step' = step + 1 /\ waiting' = TRUE /\ timeout' = Polls
  /\ UNCHANGED <<bios, expects, command_byte, mouse, typed, late>>

(* status |= 1 << 1; status &= ~(1 << 5)                                      *)
Patched(byte) == (byte \cup {1}) \ {5}

WriteCommand ==
  /\ Accesses({"command"})
  /\ ib' = [port |-> "command", byte |-> init_mouse[step].byte]
  /\ UNCHANGED <<status, ob>>

WriteData ==
  /\ Accesses({"data", "write_status"})
  /\ ib' = [port |-> "data", byte |-> IF Next_access = "data"
                                       THEN init_mouse[step].byte ELSE Patched(status)]
  /\ UNCHANGED <<status, ob>>

Read ==
  /\ Accesses({"read", "read_status"})
  /\ ob' = [ob EXCEPT !.full = FALSE]
  /\ status' = IF Next_access = "read_status" THEN ob.byte ELSE status
  /\ UNCHANGED ib

Main == Poll \/ GiveUp \/ WriteCommand \/ WriteData \/ Read

-----------------------------------------------------------------------------
Offered(byte, src) == [full |-> TRUE, byte |-> byte, src |-> src]

(* The controller takes what is in its input buffer; it answers 0x20 when its *)
(* output buffer is free.                                                     *)
TakeCommand ==
  /\ ib.port = "command"
  /\ ib' = NoByte
  /\ \/ /\ ib.byte = EnableAux
        /\ command_byte' = command_byte \ {5}
        /\ expects' = NoCommand /\ UNCHANGED ob
     \/ /\ ib.byte = ReadCommandByte /\ ~ob.full
        /\ ob' = Offered(command_byte, "controller")
        /\ expects' = NoCommand /\ UNCHANGED command_byte
     \/ /\ ib.byte \in {WriteCommandByte, ToMouse}
        /\ expects' = ib.byte /\ UNCHANGED <<command_byte, ob>>
  /\ UNCHANGED <<bios, code, mouse, typed, late>>

(* The mouse obeys, in its self-test nothing.                                 *)
Obey(byte) ==
  /\ ~bat
  /\ bat' = (byte = Reset)
  /\ reporting' = (byte = Enable)
  /\ replies' = IF byte = Reset THEN <<Ack>> ELSE Append(replies, Ack)

TakeData ==
  /\ ib.port = "data"
  /\ ib' = NoByte
  /\ expects' = NoCommand
  /\ \/ expects = WriteCommandByte /\ command_byte' = ib.byte /\ UNCHANGED mouse
     \/ expects = ToMouse /\ Obey(ib.byte) /\ UNCHANGED command_byte
     \/ expects = NoCommand /\ UNCHANGED <<command_byte, mouse>>
  /\ UNCHANGED <<bios, code, ob, typed, late>>

SelfTest ==
  /\ bat /\ bat' = FALSE
  /\ replies' = replies \o <<Passed, MouseId>>
  /\ UNCHANGED <<bios, code, ib, expects, command_byte, ob, reporting, typed, late>>

(* Bit 5 of the command byte stops the mouse, bit 4 the keyboard.             *)
Deliver ==
  /\ replies # <<>> /\ ~ob.full /\ 5 \notin command_byte
  /\ ob' = Offered(Head(replies), "mouse")
  /\ replies' = Tail(replies)
  /\ UNCHANGED <<bios, code, ib, expects, command_byte, bat, reporting, typed, late>>

Type(scancode) ==
  /\ typed < MaxKeys /\ ~ob.full /\ 4 \notin command_byte
  /\ ob' = Offered(scancode, "keyboard")
  /\ typed' = typed + 1
  /\ UNCHANGED <<bios, code, ib, expects, command_byte, mouse, late>>

Devices == \/ TakeCommand \/ TakeData \/ SelfTest \/ Deliver
           \/ \E scancode \in Scancodes : Type(scancode)

HandshakeNext == Main \/ Devices

(* Only the processor is sure to go on. *)
HandshakeSpec ==
  HandshakeInit /\ [][HandshakeNext]_handshakeVars /\ WF_handshakeVars(Main)

-----------------------------------------------------------------------------
(* The types: `timeout' counts down from Polls and not below zero, and the    *)
(* mouse never has more than its five replies to send (mouse.h:6-22, 52-59).  *)
HandshakeTypeOK ==
  /\ bios \in BiosBytes
  /\ step \in 1 .. End /\ waiting \in BOOLEAN /\ timeout \in 0 .. Polls
  /\ status \in Byte
  /\ ib \in [port : {"none", "command", "data"}, byte : Byte]
  /\ expects \in {NoCommand, WriteCommandByte, ToMouse}
  /\ command_byte \in Byte
  /\ ob \in [full : BOOLEAN, byte : Byte, src : {"controller", "keyboard", "mouse"}]
  /\ bat \in BOOLEAN /\ reporting \in BOOLEAN
  /\ replies \in Seq({Ack, Passed, MouseId}) /\ Len(replies) <= 5
  /\ typed \in 0 .. MaxKeys
  /\ late \in BOOLEAN

(* init_mouse is over, no wait gave up too early, and the last command, whose *)
(* reply need not be the one that was read, has been obeyed.                  *)
Ended == step = End
Settled == Ended /\ ~late /\ ib = NoByte /\ ~bat

(* If no wait gave up too early, the mouse reports movements and the          *)
(* controller passes them on and interrupts for them, whatever was typed      *)
(* meanwhile (mouse.h:46-59): each command reached the one it was for.        *)
MouseReports ==
  Settled => reporting /\ 1 \in command_byte /\ 5 \notin command_byte

(* The other bits of the command byte are the ones the BIOS set, unless a     *)
(* scancode was taken for them (mouse.h:40-50): the two reads between 0x20    *)
(* and 0x60, of which only one has an answer to get, take the right one.      *)
CommandByteKept ==
  Settled /\ typed = 0 => command_byte = (bios \cup {1}) \ {5}

(* The reset is answered by three bytes and read once, so what init_mouse     *)
(* leaves for mouse_handler are the last two replies, and as many more as     *)
(* scancodes were read in their place (mouse.h:52-59; idt.h:186-196 drops     *)
(* them).                                                                     *)
AllReplies == <<Ack, Passed, MouseId, Ack, Ack>>
Unread == (IF ob.full /\ ob.src = "mouse" THEN <<ob.byte>> ELSE <<>>) \o replies
UnreadAreLast ==
  Settled =>
    /\ Len(Unread) \in 2 .. 2 + typed
    /\ Unread = SubSeq(AllReplies, 6 - Len(Unread), 5)

(* init_mouse ends, with a controller that never answers too (mouse.h:6-22).  *)
InitEnds == <>Ended

=============================================================================
