------------------------------ MODULE Interrupts ------------------------------
(***************************************************************************)
(* Interrupt bring-up and dispatch: pic_remap, idt_init, pic_set_mask in   *)
(* the order kernel_main calls them (kernel.c:103-109, 184), and then the  *)
(* way of an interrupt or exception through PIC, IDT and handler           *)
(* (idt.h:122-174, 239-248).                                               *)
(*                                                                         *)
(* Devices raise their lines all along; the processor takes interrupts     *)
(* from `sti' on.  A handler behind a trap gate runs with interrupts on,   *)
(* one behind an interrupt gate with interrupts off.  What is in service   *)
(* at the PIC is the subject of Input.                                     *)
(***************************************************************************)
EXTENDS Integers, Sequences

CONSTANTS
  Lines,       \* the interrupt lines with a device that may raise them
  Exceptions,  \* the exceptions considered
  BiosMasks    \* the sets of lines the BIOS may have left masked

ASSUME InterruptsAssumption ==
  /\ {0, 12} \subseteq Lines /\ Lines \subseteq 0 .. 15 \ {2}
  /\ Exceptions \subseteq 0 .. 31
  /\ BiosMasks \subseteq SUBSET (0 .. 15)

VARIABLES
  pc,           \* where kernel_main is
  i,            \* the loop variable of idt_init
  inerr_index,
  iwerr_index,
  gate,         \* _idt: for each vector [code, flags]
  offset,       \* vector of line 0 and of line 8
  masked,       \* lines masked at the two PICs
  irr,          \* lines with a request
  stack,        \* what the processor executes: frames [code, why, ints]
  machine       \* "running", "halted" or "reset"

idt == <<i, inerr_index, iwerr_index, gate>>
pic == <<offset, masked>>
vars == <<pc, idt, pic, irr, stack, machine>>

(* A definition X_... just above a definition X is a faulty variant of it     *)
(* that the code does not contain: the properties must tell the two apart.    *)

-----------------------------------------------------------------------------
(* The two arrays of handlers, from index 0.                                  *)
interrupts_no_err ==
  [[k \in 0 .. 23 |-> "exc_handler"] EXCEPT ![0] = "div_by_z", ![3] = "interrupt_03"]
interrupts_with_err ==
  [[k \in 0 .. 7 |-> "exception_handler_err"] EXCEPT ![6] = "page_fault"]

(* The vectors that idt_init gives to the second one.                         *)
WithErr_NineForTen == {8, 9, 11, 12, 13, 14, 17, 21}
WithErr == {8, 10, 11, 12, 13, 14, 17, 21}

(* What set_gate stores, and the flags its callers give it.                   *)
gate_trap == "trap"
gate_interrupt == "interrupt"
Flags == {gate_trap, gate_interrupt}
NoGate == [code |-> "none", flags |-> gate_interrupt]
Gate(base, flags) == [code |-> base, flags |-> flags]

(* The processor pushes an error code for these.                              *)
PushesError == {8, 10, 11, 12, 13, 14, 17, 21}

ExceptionHandlers == {"div_by_z", "exc_handler", "interrupt_03",
                      "page_fault", "exception_handler_err"}
IrqHandlers == {"pit_handler", "mouse_handler", "int_handler"}
TakesError == {"page_fault", "exception_handler_err"}

Frame == [code : {"none", "kernel"} \cup ExceptionHandlers \cup IrqHandlers,
          why : [by : {"call", "irq", "exception"}, n : 0 .. 31],
          ints : BOOLEAN]
Cause(by, n) == [by |-> by, n |-> n]
Kernel == [code |-> "kernel", why |-> Cause("call", 0), ints |-> TRUE]
Irq(line) == Cause("irq", line)
Exc(vector) == Cause("exception", vector)
Top == stack[Len(stack)]
Enter(vector, why) ==
  stack' = Append(stack, [code |-> gate[vector].code, why |-> why,
                          ints |-> gate[vector].flags = gate_trap])

Init ==
  /\ pc = "pic_remap"
  /\ i = 0
  /\ inerr_index = 0 /\ iwerr_index = 0
  /\ gate = [v \in 0 .. 255 |-> NoGate]
  /\ offset = <<8, 112>>
  /\ masked \in BiosMasks
  /\ irr = {}
  /\ stack = <<Kernel>>
  /\ machine = "running"

-----------------------------------------------------------------------------
(* kernel_main, with interrupts off since the second stage.                   *)
Go(from, to) == pc = from /\ pc' = to

(* Ten writes; the first one of each PIC drops its requests.                  *)
RemapTo == <<32, 40>>
pic_remap ==
  /\ Go("pic_remap", "exceptions")
  /\ offset' = RemapTo
  /\ masked' = 0 .. 15
  /\ irr' = {}
  /\ UNCHANGED <<idt, stack, machine>>

set_gate(num, base, flags) == gate' = [gate EXCEPT ![num] = Gate(base, flags)]

(* An iteration of the first loop of idt_init.                                *)
SetException ==
  /\ pc = "exceptions"
  /\ i < 32
  /\ IF i \in WithErr
       THEN /\ set_gate(i, interrupts_with_err[iwerr_index], gate_trap)
            /\ iwerr_index' = iwerr_index + 1
            /\ UNCHANGED inerr_index
       ELSE /\ set_gate(i, interrupts_no_err[inerr_index], gate_trap)
            /\ inerr_index' = inerr_index + 1
            /\ UNCHANGED iwerr_index
  /\ i' = i + 1
  /\ UNCHANGED <<pc, pic, irr, stack, machine>>

(* The second loop, which no interrupt can cut short, and the two devices.    *)
DeviceGate_Trap(base) == Gate(base, gate_trap)
DeviceGate(base) == Gate(base, gate_interrupt)
MouseVector_Line == 12
MouseVector == 32 + 12
SetInterrupts ==
  /\ i = 32
  /\ Go("exceptions", "lidt")
  /\ gate' = [[v \in 0 .. 255 |->
                IF v < 32 THEN gate[v] ELSE Gate("int_handler", gate_interrupt)]
                EXCEPT ![32] = DeviceGate("pit_handler"),
                       ![MouseVector] = DeviceGate("mouse_handler")]
  /\ i' = 256
  /\ UNCHANGED <<inerr_index, iwerr_index, pic, irr, stack, machine>>

(* pic_set_mask(line, 0) at each of its three calls.                          *)
Opened_Inverted(line) == masked \cup {line}
Opened(line) == masked \ {line}
pic_set_mask(line, from, to) ==
  /\ Go(from, to)
  /\ masked' = Opened(line)
  /\ UNCHANGED <<idt, offset, irr, stack, machine>>

OpenCascade == pic_set_mask(2, "lidt", "init_pit")
OpenTimer == pic_set_mask(0, "init_pit", "init_mouse")
OpenMouse == pic_set_mask(12, "init_mouse", "sti")

Sti ==
  /\ Go("sti", "terminal")
  /\ UNCHANGED <<idt, pic, irr, stack, machine>>

-----------------------------------------------------------------------------
Raise(line) ==
  /\ machine = "running"
  /\ line \notin irr
  /\ irr' = irr \cup {line}
  /\ UNCHANGED <<pc, idt, pic, stack, machine>>

Open(line) == line \notin masked /\ (line >= 8 => 2 \notin masked)
Vector(line) == IF line < 8 THEN offset[1] + line ELSE offset[2] + (line - 8)

InterruptsOn == pc = "terminal" /\ Top.ints

TakeIrq(line) ==
  /\ machine = "running"
  /\ InterruptsOn
  /\ line \in irr /\ Open(line)
  /\ irr' = irr \ {line}
  /\ Enter(Vector(line), Irq(line))
  /\ UNCHANGED <<pc, idt, pic, machine>>

(* int 3 of the reboot command, and whatever faults in the terminal.          *)
TakeException(vector) ==
  /\ machine = "running"
  /\ pc = "terminal" /\ Top = Kernel
  /\ Enter(vector, Exc(vector))
  /\ UNCHANGED <<pc, idt, pic, irr, machine>>

(* pit_handler and mouse_handler return, and so does div_by_z.                *)
Return ==
  /\ machine = "running"
  /\ Top.code \in {"pit_handler", "mouse_handler", "div_by_z"}
  /\ stack' = SubSeq(stack, 1, Len(stack) - 1)
  /\ UNCHANGED <<pc, idt, pic, irr, machine>>

(* The others print and execute cli; hlt.                                     *)
HandlerHalts ==
  /\ machine = "running"
  /\ Top.code \in {"exc_handler", "exception_handler_err", "page_fault", "int_handler"}
  /\ machine' = "halted"
  /\ UNCHANGED <<pc, idt, pic, irr, stack>>

(* interrupt_03 pulses the reset line.                                        *)
HandlerResets ==
  /\ machine = "running"
  /\ Top.code = "interrupt_03"
  /\ machine' = "reset"
  /\ UNCHANGED <<pc, idt, pic, irr, stack>>

BringUp == \/ pic_remap \/ SetException \/ SetInterrupts
           \/ OpenCascade \/ OpenTimer \/ OpenMouse \/ Sti
Leave == Return \/ HandlerHalts \/ HandlerResets
Next == \/ BringUp \/ Leave
        \/ \E line \in Lines : Raise(line) \/ TakeIrq(line)
        \/ \E vector \in Exceptions : TakeException(vector)

(* kernel_main and the handlers execute; the PIC delivers the most urgent     *)
(* request whenever interrupts are on, and another one after it.              *)
Fairness == /\ WF_vars(BringUp) /\ WF_vars(Leave)
            /\ \A line \in Lines : SF_vars(TakeIrq(line))
Spec == Init /\ [][Next]_vars /\ Fairness

-----------------------------------------------------------------------------
(* The types; the two indices of idt_init stay inside their arrays and are    *)
(* used up together with the exceptions (idt.h:322-335).                      *)
TypeOK ==
  /\ pc \in {"pic_remap", "exceptions", "lidt", "init_pit", "init_mouse", "sti", "terminal"}
  /\ i \in 0 .. 32 \cup {256}
  /\ inerr_index \in 0 .. 24 /\ iwerr_index \in 0 .. 8
  /\ pc # "pic_remap" /\ i <= 32 => inerr_index + iwerr_index = i
  /\ gate \in [0 .. 255 -> [code : {"none"} \cup ExceptionHandlers \cup IrqHandlers,
                            flags : Flags]]
  /\ offset \in {<<8, 112>>, <<32, 40>>}
  /\ masked \subseteq 0 .. 15
  /\ irr \subseteq Lines
  /\ stack \in Seq(Frame)
  /\ machine \in {"running", "halted", "reset"}

(* An interrupt of a device runs that device's handler and no other: the      *)
(* handler that halts the machine, which all other vectors have, is reached   *)
(* from no line that is open.  The vectors of pic_remap, the gates of         *)
(* idt_init and the lines opened by kernel_main have to agree for it          *)
(* (idt.h:278-289, 337-344; kernel.c:103-109).                                *)
Owner == [line \in {0, 12} |-> IF line = 0 THEN "pit_handler" ELSE "mouse_handler"]
IrqRunsItsHandler ==
  \A k \in DOMAIN stack : stack[k].why.by = "irq" =>
    stack[k].why.n \in DOMAIN Owner /\ stack[k].code = Owner[stack[k].why.n]

(* A handler that takes an error code off the stack runs exactly for the      *)
(* exceptions that push one (idt.h:298-335): otherwise it would return to     *)
(* the code, or print the address, of something else.                         *)
ErrorCodeMatches ==
  \A k \in DOMAIN stack : stack[k].why.by = "exception" =>
    (stack[k].code \in TakesError <=> stack[k].why.n \in PushesError)

(* Interrupts nest at most inside one exception handler, never in each other: *)
(* all that share data with get_key do so one at a time (idt.h:339-344).      *)
NestingBounded ==
  /\ Len(stack) <= 3
  /\ \A k \in 1 .. Len(stack) - 1 : stack[k].why.by # "irq"

(* A request of the timer or the mouse is answered unless the machine stops.  *)
RequestsServed ==
  \A line \in {0, 12} :
    (pc = "terminal" /\ line \in irr) ~> (line \notin irr \/ machine # "running")

(* Why the three invariants hold, inductively.  While idt_init runs, the      *)
(* second array is used up in step with the exceptions of WithErr, so the     *)
(* gates already set take error codes as they should; once it has run, the    *)
(* gates of the two devices are set while all lines are still masked; and a   *)
(* frame of the stack is what its gate was when it was entered.               *)
Past(v, n) == IF v < n THEN 1 ELSE 0
WithErrBelow(n) == Past(8, n) + Past(10, n) + Past(11, n) + Past(12, n)
                   + Past(13, n) + Past(14, n) + Past(17, n) + Past(21, n)

ExceptionGate(g, v) ==
  /\ g.code \in TakesError <=> v \in PushesError
  /\ g.flags = gate_trap

GatesInv ==
  /\ pc \in {"pic_remap", "exceptions"} =>
       /\ i \in 0 .. 32
       /\ iwerr_index = WithErrBelow(i) /\ inerr_index = i - iwerr_index
       /\ \A v \in 0 .. i - 1 : ExceptionGate(gate[v], v)
  /\ pc \notin {"pic_remap", "exceptions"} =>
       /\ \A v \in 0 .. 31 : ExceptionGate(gate[v], v)
       /\ gate[32] = DeviceGate("pit_handler")
       /\ gate[44] = DeviceGate("mouse_handler")
  /\ pc = "pic_remap" => i = 0

MaskInv ==
  pc # "pic_remap" => offset = <<32, 40>> /\ 0 .. 15 \ {0, 2, 12} \subseteq masked

FrameOK(frame) ==
  /\ frame.why.by \in {"irq", "exception"}
  /\ frame.why.by = "irq" =>
       frame.why.n \in DOMAIN Owner /\ frame.code = Owner[frame.why.n] /\ ~frame.ints
  /\ frame.why.by = "exception" =>
       frame.ints /\ (frame.code \in TakesError <=> frame.why.n \in PushesError)

StackInv ==
  /\ Len(stack) \in 1 .. 3
  /\ stack[1] = Kernel
  /\ \A k \in 2 .. Len(stack) : FrameOK(stack[k])
  /\ Len(stack) = 3 => stack[2].why.by = "exception" /\ stack[3].why.by = "irq"
  /\ pc # "terminal" => stack = <<Kernel>>

(* idt.h:144-146: page_fault reports `Page Fault', so it is what exception 14 *)
(* runs and nothing else runs it.                                             *)
PageFaultReported ==
  \A k \in DOMAIN stack : stack[k].why.by = "exception" =>
    (stack[k].code = "page_fault" <=> stack[k].why.n = 14)

=============================================================================
