--------------------------- MODULE InterruptsProofs ---------------------------
(***************************************************************************)
(* Proofs about the devices being brought up.                              *)
(*                                                                         *)
(* Interrupts, for any set of devices, exceptions and BIOS masks:          *)
(* interrupts reach their handlers, error codes meet handlers that take    *)
(* them, and nesting is bounded.                                           *)
(*                                                                         *)
(* MouseInit, for any patience of mouse_wait, any command byte of the BIOS *)
(* and any number of scancodes: what the handshake leaves behind.  Its     *)
(* invariant is MouseInv: what is in the input buffer is the last write or *)
(* nothing, the mouse's replies stay within what its commands allow, and,  *)
(* as long as no wait gave up too early, each wait has waited for the      *)
(* right thing, each data byte goes to the device it is for, and what is   *)
(* unread are the replies behind the ones taken.                           *)
(***************************************************************************)
EXTENDS Interrupts, MouseInit, SequenceTheorems, TLAPS

(* WithErrBelow counts the exceptions of WithErr and stays inside the array. *)
LEMMA WithErrCount ==
  ASSUME NEW n \in 0 .. 31
  PROVE  /\ WithErrBelow(n) \in 0 .. 8
         /\ n - WithErrBelow(n) \in 0 .. 24
         /\ n \in WithErr => /\ WithErrBelow(n) \in 0 .. 7
                             /\ WithErrBelow(n + 1) = WithErrBelow(n) + 1
         /\ n \notin WithErr => /\ n - WithErrBelow(n) \in 0 .. 23
                                /\ WithErrBelow(n + 1) = WithErrBelow(n)
<1>1. /\ WithErrBelow(n) \in 0 .. 8 /\ n - WithErrBelow(n) \in 0 .. 24
  BY DEF WithErrBelow, Past
<1>2. CASE n \in WithErr
  BY <1>2 DEF WithErrBelow, Past, WithErr
<1>3. CASE n \notin WithErr
  BY <1>3 DEF WithErrBelow, Past, WithErr
<1>4. QED
  BY <1>1, <1>2, <1>3

(* What the two arrays hold. *)
LEMMA Arrays ==
  /\ \A k \in 0 .. 23 : interrupts_no_err[k] \in ExceptionHandlers \ TakesError
  /\ \A k \in 0 .. 7 : interrupts_with_err[k] \in TakesError
  /\ TakesError \subseteq ExceptionHandlers
<1>1. \A k \in 0 .. 23 : interrupts_no_err[k] \in {"div_by_z", "interrupt_03", "exc_handler"}
  BY DEF interrupts_no_err
<1>2. {"div_by_z", "interrupt_03", "exc_handler"} \subseteq ExceptionHandlers \ TakesError
  BY DEF ExceptionHandlers, TakesError
<1>3. \A k \in 0 .. 7 : interrupts_with_err[k] \in TakesError
  BY DEF interrupts_with_err, TakesError
<1>4. TakesError \subseteq ExceptionHandlers
  BY DEF ExceptionHandlers, TakesError
<1>5. QED
  BY <1>1, <1>2, <1>3, <1>4

-----------------------------------------------------------------------------
(* The type of the table, the part of TypeOK that needs an argument.          *)
GateType ==
  gate \in [0 .. 255 -> [code : {"none"} \cup ExceptionHandlers \cup IrqHandlers,
                         flags : Flags]]

(* One iteration of the first loop: both indices move in step with i, and the *)
(* new gate takes an error code as its exception needs (idt.h:322-335).       *)
LEMMA SetExceptionStep ==
  ASSUME TypeOK, GatesInv, SetException
  PROVE  /\ GateType'
         /\ GatesInv'
         /\ inerr_index' \in 0 .. 24 /\ iwerr_index' \in 0 .. 8
         /\ i' \in 0 .. 32 /\ inerr_index' + iwerr_index' = i'
<1>1. pc = "exceptions" /\ pc' = pc /\ i' = i + 1
  BY DEF SetException
<1>2. i \in 0 .. 31
  <2>1. i \in 0 .. 32 \cup {256} /\ i < 32
    BY DEF SetException, TypeOK
  <2>2. QED
    BY <2>1
<1>3. iwerr_index = WithErrBelow(i) /\ inerr_index = i - iwerr_index
  BY <1>1 DEF GatesInv
<1>4. ASSUME NEW base \in ExceptionHandlers, gate' = [gate EXCEPT ![i] = Gate(base, gate_trap)],
             base \in TakesError <=> i \in WithErr
      PROVE  GateType' /\ \A v \in 0 .. i : ExceptionGate(gate'[v], v)
  <2>1. gate_trap \in Flags
    BY DEF Flags
  <2>2. Gate(base, gate_trap) \in [code : {"none"} \cup ExceptionHandlers \cup IrqHandlers,
                                   flags : Flags]
    BY <2>1 DEF Gate
  <2>3. GateType
    BY DEF TypeOK, GateType
  <2>4. GateType'
    BY <1>4, <2>2, <2>3 DEF GateType
  <2>5. gate'[i] = Gate(base, gate_trap)
    BY <1>2, <1>4, <2>3 DEF GateType
  <2>6. \A v \in 0 .. 255 : v # i => gate'[v] = gate[v]
    BY <1>4, <2>3 DEF GateType
  <2>7. \A v \in 0 .. i - 1 : ExceptionGate(gate'[v], v)
    <3>1. \A v \in 0 .. i - 1 : ExceptionGate(gate[v], v)
      BY <1>1 DEF GatesInv
    <3>2. \A v \in 0 .. i - 1 : v # i /\ v \in 0 .. 255
      BY <1>2
    <3>3. QED
      BY <2>6, <3>1, <3>2
  <2>8. ExceptionGate(gate'[i], i)
    BY <1>4, <2>5 DEF ExceptionGate, Gate, WithErr, PushesError
  <2>9. QED
    BY <1>2, <2>4, <2>7, <2>8
<1>5. CASE i \in WithErr
  <2>1. /\ gate' = [gate EXCEPT ![i] = Gate(interrupts_with_err[iwerr_index], gate_trap)]
        /\ iwerr_index' = iwerr_index + 1 /\ inerr_index' = inerr_index
    BY <1>5 DEF SetException, set_gate
  <2>2. iwerr_index \in 0 .. 7 /\ WithErrBelow(i + 1) = WithErrBelow(i) + 1
    BY <1>2, <1>3, <1>5, WithErrCount
  <2>3. interrupts_with_err[iwerr_index] \in TakesError \cap ExceptionHandlers
    BY <2>2, Arrays
  <2>4. GateType' /\ \A v \in 0 .. i : ExceptionGate(gate'[v], v)
    BY <1>4, <1>5, <2>1, <2>3
  <2>5. iwerr_index' = WithErrBelow(i') /\ inerr_index' = i' - iwerr_index'
    BY <1>1, <1>2, <1>3, <2>1, <2>2
  <2>6. inerr_index' \in 0 .. 24
    BY <1>2, <1>3, <2>1, WithErrCount
  <2>7. QED
    BY <1>1, <1>2, <2>1, <2>2, <2>4, <2>5, <2>6 DEF GatesInv
<1>6. CASE i \notin WithErr
  <2>1. /\ gate' = [gate EXCEPT ![i] = Gate(interrupts_no_err[inerr_index], gate_trap)]
        /\ inerr_index' = inerr_index + 1 /\ iwerr_index' = iwerr_index
    BY <1>6 DEF SetException, set_gate
  <2>2. inerr_index \in 0 .. 23 /\ WithErrBelow(i + 1) = WithErrBelow(i)
    BY <1>2, <1>3, <1>6, WithErrCount
  <2>3. interrupts_no_err[inerr_index] \in ExceptionHandlers \ TakesError
    BY <2>2, Arrays
  <2>4. GateType' /\ \A v \in 0 .. i : ExceptionGate(gate'[v], v)
    BY <1>4, <1>6, <2>1, <2>3
  <2>5. iwerr_index' = WithErrBelow(i') /\ inerr_index' = i' - iwerr_index'
    BY <1>1, <1>2, <1>3, <2>1, <2>2, WithErrCount
  <2>6. iwerr_index' \in 0 .. 8
    BY <1>2, <1>3, <2>1, WithErrCount
  <2>7. QED
    BY <1>1, <1>2, <2>1, <2>2, <2>4, <2>5, <2>6 DEF GatesInv
<1>7. QED
  BY <1>5, <1>6

(* GatesInv says nothing of the stack, the lines or the PICs. *)
LEMMA GatesKept ==
  ASSUME GatesInv, UNCHANGED idt,
         \/ pc' = pc
         \/ pc \notin {"pic_remap", "exceptions"} /\ pc' \notin {"pic_remap", "exceptions"}
  PROVE  GatesInv'
BY DEF GatesInv, idt

(* The second loop leaves the gates of the exceptions as they are. *)
LEMMA SetInterruptsStep ==
  ASSUME TypeOK, GatesInv, SetInterrupts
  PROVE  GateType' /\ GatesInv'
<1> DEFINE G == [v \in 0 .. 255 |->
                   IF v < 32 THEN gate[v] ELSE Gate("int_handler", gate_interrupt)]
           R == [code : {"none"} \cup ExceptionHandlers \cup IrqHandlers, flags : Flags]
<1>1. pc = "exceptions" /\ pc' = "lidt" /\ i = 32
  BY DEF SetInterrupts, Go
<1>2. gate' = [G EXCEPT ![32] = DeviceGate("pit_handler"),
                        ![44] = DeviceGate("mouse_handler")]
  BY DEF SetInterrupts, MouseVector
<1>3. gate \in [0 .. 255 -> R]
  BY DEF TypeOK
<1>4. \A h \in IrqHandlers : Gate(h, gate_interrupt) \in R
  BY DEF Gate, Flags
<1>5. /\ DeviceGate("pit_handler") \in R /\ DeviceGate("mouse_handler") \in R
      /\ Gate("int_handler", gate_interrupt) \in R
  BY <1>4 DEF IrqHandlers, DeviceGate
<1>6. G \in [0 .. 255 -> R]
  BY <1>3, <1>5
<1> HIDE DEF R
<1>7. gate' \in [0 .. 255 -> R]
  BY <1>2, <1>5, <1>6
<1>8. \A v \in 0 .. 31 : G[v] = gate[v]
  OBVIOUS
<1> HIDE DEF G
<1>9. \A v \in 0 .. 31 : gate'[v] = gate[v]
  BY <1>2, <1>6, <1>8
<1>10. gate'[32] = DeviceGate("pit_handler") /\ gate'[44] = DeviceGate("mouse_handler")
  BY <1>2, <1>6
<1>11. \A v \in 0 .. 31 : ExceptionGate(gate[v], v)
  BY <1>1 DEF GatesInv
<1>12. GatesInv'
  BY <1>1, <1>9, <1>10, <1>11 DEF GatesInv
<1>13. QED
  BY <1>7, <1>12 DEF GateType, R

(* A frame that an interrupt or exception pushes. *)
LEMMA EnterStep ==
  ASSUME TypeOK, NEW vector \in 0 .. 255, NEW n \in 0 .. 31,
         NEW by \in {"irq", "exception"}, Enter(vector, Cause(by, n))
  PROVE  /\ stack' \in Seq(Frame)
         /\ Len(stack') = Len(stack) + 1
         /\ \A k \in 1 .. Len(stack) : stack'[k] = stack[k]
         /\ stack'[Len(stack) + 1].code = gate[vector].code
         /\ stack'[Len(stack) + 1].why = Cause(by, n)
         /\ stack'[Len(stack) + 1].ints <=> gate[vector].flags = gate_trap
<1> DEFINE f == [code |-> gate[vector].code, why |-> Cause(by, n),
                 ints |-> gate[vector].flags = gate_trap]
<1>1. gate[vector].code \in {"none"} \cup ExceptionHandlers \cup IrqHandlers
  <2> DEFINE C == {"none"} \cup ExceptionHandlers \cup IrqHandlers
  <2>1. gate \in [0 .. 255 -> [code : C, flags : Flags]]
    BY DEF TypeOK
  <2> HIDE DEF C
  <2>2. gate[vector].code \in C
    BY <2>1
  <2>3. QED
    BY <2>2 DEF C
<1>2. Cause(by, n) \in [by : {"call", "irq", "exception"}, n : 0 .. 31]
  BY DEF Cause
<1>3. f.ints \in BOOLEAN /\ (f.ints <=> gate[vector].flags = gate_trap)
  OBVIOUS
<1>4. f \in Frame
  BY <1>1, <1>2, <1>3 DEF Frame
<1>5. stack \in Seq(Frame) /\ stack' = Append(stack, f)
  BY DEF TypeOK, Enter
<1> HIDE DEF f
<1>6. stack' \in Seq(Frame) /\ Len(stack') = Len(stack) + 1
      /\ (\A k \in 1 .. Len(stack) : stack'[k] = stack[k]) /\ stack'[Len(stack) + 1] = f
  BY <1>4, <1>5
<1>7. f.code = gate[vector].code /\ f.why = Cause(by, n)
  BY DEF f
<1>8. QED
  BY <1>3, <1>6, <1>7

-----------------------------------------------------------------------------
(* TypeOK and GatesInv are inductive together.                                *)
LEMMA GatesInductive == Spec => [](TypeOK /\ GatesInv)
<1>1. Init => TypeOK /\ GatesInv
  <2> SUFFICES ASSUME Init PROVE TypeOK /\ GatesInv
    OBVIOUS
  <2>1. WithErrBelow(0) = 0
    BY DEF WithErrBelow, Past
  <2>2. NoGate \in [code : {"none"} \cup ExceptionHandlers \cup IrqHandlers, flags : Flags]
    BY DEF NoGate, Flags
  <2>3. masked \subseteq 0 .. 15
    BY InterruptsAssumption DEF Init
  <2>4. stack \in Seq(Frame)
    <3>1. Kernel \in Frame
      BY DEF Kernel, Frame, Cause
    <3>2. QED
      BY <3>1 DEF Init
  <2>5. TypeOK
    BY <2>2, <2>3, <2>4 DEF Init, TypeOK
  <2>6. GatesInv
    BY <2>1 DEF Init, GatesInv
  <2>7. QED
    BY <2>5, <2>6
<1>2. TypeOK /\ GatesInv /\ [Next]_vars => TypeOK' /\ GatesInv'
  <2> SUFFICES ASSUME TypeOK, GatesInv, [Next]_vars PROVE TypeOK' /\ GatesInv'
    OBVIOUS
  <2>1. CASE pic_remap
    <3>1. TypeOK'
      BY <2>1 DEF pic_remap, Go, RemapTo, TypeOK, GatesInv, idt
    <3>2. i = 0 /\ pc = "pic_remap" /\ pc' = "exceptions" /\ UNCHANGED idt
      BY <2>1 DEF pic_remap, Go, GatesInv
    <3>3. QED
      BY <3>1, <3>2 DEF GatesInv, idt
  <2>2. CASE SetException
    <3>1. /\ GateType' /\ GatesInv'
          /\ inerr_index' \in 0 .. 24 /\ iwerr_index' \in 0 .. 8
          /\ i' \in 0 .. 32 /\ inerr_index' + iwerr_index' = i'
      BY <2>2, SetExceptionStep
    <3>2. UNCHANGED <<pc, pic, irr, stack, machine>>
      BY <2>2 DEF SetException
    <3>3. TypeOK'
      BY <3>1, <3>2 DEF TypeOK, GateType, pic
    <3>4. QED
      BY <3>1, <3>3
  <2>3. CASE SetInterrupts
    <3>1. GateType' /\ GatesInv'
      BY <2>3, SetInterruptsStep
    <3>2. pc' = "lidt" /\ i' = 256
          /\ UNCHANGED <<inerr_index, iwerr_index, offset, masked, irr, stack, machine>>
      BY <2>3 DEF SetInterrupts, Go, pic
    <3>3. /\ inerr_index \in 0 .. 24 /\ iwerr_index \in 0 .. 8
          /\ offset \in {<<8, 112>>, <<32, 40>>} /\ masked \subseteq 0 .. 15
          /\ irr \subseteq Lines /\ stack \in Seq(Frame)
          /\ machine \in {"running", "halted", "reset"}
      BY DEF TypeOK
    <3>4. ~(i' <= 32) /\ i' \in 0 .. 32 \cup {256}
      BY <3>2
    <3>5. TypeOK'
      BY <3>1, <3>2, <3>3, <3>4 DEF TypeOK, GateType
    <3>6. QED
      BY <3>1, <3>5
  <2>4. CASE OpenCascade \/ OpenTimer \/ OpenMouse \/ Sti
    <3>1. /\ pc \in {"lidt", "init_pit", "init_mouse", "sti"}
          /\ pc' \in {"init_pit", "init_mouse", "sti", "terminal"}
          /\ masked' \subseteq masked
          /\ UNCHANGED <<idt, offset, irr, stack, machine>>
      BY <2>4 DEF OpenCascade, OpenTimer, OpenMouse, Sti, pic_set_mask, Go, Opened, pic
    <3>2. GatesInv'
      BY <3>1, GatesKept
    <3>3. TypeOK'
      BY <3>1 DEF TypeOK, idt
    <3>4. QED
      BY <3>2, <3>3
  <2>5. ASSUME NEW line \in Lines, Raise(line) PROVE TypeOK' /\ GatesInv'
    <3>a. irr' = irr \cup {line}
      BY <2>5 DEF Raise
    <3>b. irr \subseteq Lines
      BY DEF TypeOK
    <3>c. irr' \subseteq Lines
      BY <3>a, <3>b
    <3>d. UNCHANGED <<pc, idt, pic, stack, machine>>
      BY <2>5 DEF Raise
    <3>1. irr' \subseteq Lines /\ UNCHANGED <<pc, idt, pic, stack, machine>>
      BY <3>c, <3>d
    <3>2. GatesInv'
      BY <3>1, GatesKept
    <3>3. QED
      BY <3>1, <3>2 DEF TypeOK, idt, pic
  <2>6. ASSUME irr' \subseteq irr, stack' \in Seq(Frame),
               machine' \in {"running", "halted", "reset"}, UNCHANGED <<pc, idt, pic>>
        PROVE  TypeOK' /\ GatesInv'
    <3>1. GatesInv'
      BY <2>6, GatesKept
    <3>2. TypeOK'
      BY <2>6 DEF TypeOK, idt, pic
    <3>3. QED
      BY <3>1, <3>2
  <2>7. ASSUME NEW line \in Lines, TakeIrq(line) PROVE TypeOK' /\ GatesInv'
    <3>1. line \in 0 .. 15 /\ line \in 0 .. 31 /\ Vector(line) \in 0 .. 255
      <4>1. line \in 0 .. 15
        BY InterruptsAssumption
      <4>2. offset[1] \in {8, 32} /\ offset[2] \in {112, 40}
        <5>1. offset \in {<<8, 112>>, <<32, 40>>}
          BY DEF TypeOK
        <5>2. QED
          BY <5>1
      <4>3. QED
        BY <4>1, <4>2 DEF Vector
    <3>2. Enter(Vector(line), Cause("irq", line))
      BY <2>7 DEF TakeIrq, Irq
    <3>3. stack' \in Seq(Frame)
      BY <3>1, <3>2, EnterStep
    <3>4. QED
      BY <2>6, <2>7, <3>3 DEF TakeIrq, TypeOK
  <2>8. ASSUME NEW vector \in Exceptions, TakeException(vector) PROVE TypeOK' /\ GatesInv'
    <3>1. vector \in 0 .. 31 /\ vector \in 0 .. 255
      BY InterruptsAssumption
    <3>2. Enter(vector, Cause("exception", vector))
      BY <2>8 DEF TakeException, Exc
    <3>3. stack' \in Seq(Frame)
      BY <3>1, <3>2, EnterStep
    <3>4. QED
      BY <2>6, <2>8, <3>3 DEF TakeException, TypeOK
  <2>9. CASE Return
    <3>1. SubSeq(stack, 1, Len(stack) - 1) \in Seq(Frame)
      <4>1. stack \in Seq(Frame)
        BY DEF TypeOK
      <4>2. \A k \in 1 .. Len(stack) - 1 : stack[k] \in Frame
        BY <4>1
      <4>3. 1 \in Int /\ Len(stack) - 1 \in Int
        BY <4>1
      <4>4. QED
        BY ONLY <4>2, <4>3, SubSeqProperties, Zenon
    <3>2. QED
      BY <2>6, <2>9, <3>1 DEF Return, TypeOK
  <2>10. CASE HandlerHalts \/ HandlerResets
    <3>1. /\ irr' = irr /\ stack' = stack /\ UNCHANGED <<pc, idt, pic>>
          /\ machine' \in {"halted", "reset"}
      BY <2>10 DEF HandlerHalts, HandlerResets
    <3>2. stack' \in Seq(Frame)
      BY <3>1 DEF TypeOK
    <3>3. QED
      BY <2>6, <3>1, <3>2
  <2>11. CASE UNCHANGED vars
    BY <2>6, <2>11 DEF vars, TypeOK
  <2>12. QED
    BY <2>1, <2>2, <2>3, <2>4, <2>5, <2>7, <2>8, <2>9, <2>10, <2>11
    DEF Next, BringUp, Leave
<1>3. QED
  BY <1>1, <1>2, PTL DEF Spec

(* Once pic_remap has run, the devices have the vectors 32 and 44, and no     *)
(* line is open but those that kernel_main opens.                             *)
LEMMA MaskInductive == Spec => []MaskInv
<1>1. Init => MaskInv
  BY DEF Init, MaskInv
<1>2. MaskInv /\ [Next]_vars => MaskInv'
  <2> SUFFICES ASSUME MaskInv, [Next]_vars PROVE MaskInv'
    OBVIOUS
  <2>1. CASE pic_remap
    BY <2>1 DEF pic_remap, RemapTo, MaskInv
  <2>2. CASE SetException \/ SetInterrupts
    BY <2>2 DEF SetException, SetInterrupts, Go, MaskInv, pic
  <2>3. CASE OpenCascade \/ OpenTimer \/ OpenMouse
    <3>1. /\ pc # "pic_remap" /\ offset' = offset
          /\ \E line \in {0, 2, 12} : masked' = masked \ {line}
      BY <2>3 DEF OpenCascade, OpenTimer, OpenMouse, pic_set_mask, Go, Opened
    <3>2. QED
      BY <3>1 DEF MaskInv
  <2>4. CASE Sti
    BY <2>4 DEF Sti, Go, MaskInv, pic
  <2>5. ASSUME NEW line \in Lines, Raise(line) \/ TakeIrq(line) PROVE MaskInv'
    BY <2>5 DEF Raise, TakeIrq, MaskInv, pic
  <2>6. ASSUME NEW vector \in Exceptions, TakeException(vector) PROVE MaskInv'
    BY <2>6 DEF TakeException, MaskInv, pic
  <2>7. CASE Leave
    BY <2>7 DEF Leave, Return, HandlerHalts, HandlerResets, MaskInv, pic
  <2>8. CASE UNCHANGED vars
    BY <2>8 DEF vars, MaskInv, pic
  <2>9. QED
    BY <2>1, <2>2, <2>3, <2>4, <2>5, <2>6, <2>7, <2>8 DEF Next, BringUp
<1>3. QED
  BY <1>1, <1>2, PTL DEF Spec

-----------------------------------------------------------------------------
(* What an interrupt of line pushes in the terminal: only the two lines that  *)
(* are open deliver, through the gates that idt_init gave them.               *)
LEMMA IrqFrame ==
  ASSUME GatesInv, MaskInv, NEW line \in Lines, TakeIrq(line)
  PROVE  /\ line \in {0, 12}
         /\ gate[Vector(line)] = DeviceGate(Owner[line])
<1>1. pc = "terminal" /\ line \notin masked
  BY DEF TakeIrq, InterruptsOn, Open
<1>2. line \in {0, 12}
  <2>1. line \in 0 .. 15 /\ line # 2
    BY InterruptsAssumption
  <2>2. 0 .. 15 \ {0, 2, 12} \subseteq masked
    BY <1>1 DEF MaskInv
  <2>3. QED
    BY <1>1, <2>1, <2>2
<1>3. offset = <<32, 40>>
  BY <1>1 DEF MaskInv
<1>4. /\ gate[32] = DeviceGate("pit_handler")
      /\ gate[44] = DeviceGate("mouse_handler")
  BY <1>1 DEF GatesInv
<1>5. CASE line = 0
  BY <1>3, <1>4, <1>5 DEF Vector, Owner
<1>6. CASE line = 12
  BY <1>3, <1>4, <1>6 DEF Vector, Owner
<1>7. QED
  BY <1>2, <1>5, <1>6

(* The frame of an interrupt is at the top and runs with interrupts off, so   *)
(* nothing is pushed onto it; the frame of an exception lies on the kernel's. *)
LEMMA StackInductive == Spec => []StackInv
<1>1. Init => StackInv
  BY DEF Init, StackInv, Kernel
<1>2. TypeOK /\ GatesInv /\ MaskInv /\ StackInv /\ [Next]_vars => StackInv'
  <2> SUFFICES ASSUME TypeOK, GatesInv, MaskInv, StackInv, [Next]_vars PROVE StackInv'
    OBVIOUS
  <2>1. stack \in Seq(Frame) /\ Len(stack) \in 1 .. 3
    BY DEF TypeOK, StackInv
  <2>2. CASE stack' = stack /\ (pc' = "terminal" \/ pc' = pc \/ pc # "terminal")
    BY <2>2 DEF StackInv
  <2>3. CASE BringUp
    BY <2>2, <2>3 DEF BringUp, pic_remap, SetException, SetInterrupts, OpenCascade,
                      OpenTimer, OpenMouse, Sti, pic_set_mask, Go
  <2>4. ASSUME NEW line \in Lines, Raise(line) PROVE StackInv'
    BY <2>2, <2>4 DEF Raise
  <2>5. ASSUME NEW line \in Lines, TakeIrq(line) PROVE StackInv'
    <3> DEFINE n == Len(stack) + 1
    <3>1. /\ Enter(Vector(line), Cause("irq", line))
          /\ pc = "terminal" /\ pc' = pc /\ stack[Len(stack)].ints
      BY <2>5 DEF TakeIrq, InterruptsOn, Irq, Top
    <3>2. line \in {0, 12} /\ gate[Vector(line)] = DeviceGate(Owner[line])
      BY <2>5, IrqFrame
    <3>3. Vector(line) \in 0 .. 255 /\ line \in 0 .. 31
      BY <3>1, <3>2 DEF Vector, MaskInv
    <3>4. /\ Len(stack') = n
          /\ \A k \in 1 .. Len(stack) : stack'[k] = stack[k]
          /\ stack'[n].code = gate[Vector(line)].code
          /\ stack'[n].why = Cause("irq", line)
          /\ stack'[n].ints <=> gate[Vector(line)].flags = gate_trap
      BY <3>1, <3>3, EnterStep
    <3>5. stack'[n].why = Cause("irq", line) /\ stack'[n].code = Owner[line] /\ ~stack'[n].ints
      BY <3>2, <3>4 DEF DeviceGate, Gate, gate_trap, gate_interrupt
    <3>6. stack'[n].why.by = "irq" /\ FrameOK(stack'[n])
      BY <3>2, <3>5 DEF FrameOK, Cause, Owner
    <3>7. Len(stack) # 3
      BY <3>1 DEF StackInv, FrameOK
    <3>8. Len(stack) = 2 => stack[2].why.by = "exception"
      BY <3>1 DEF StackInv, FrameOK
    <3>9. \A k \in 2 .. n : FrameOK(stack'[k])
      <4>1. \A k \in 2 .. Len(stack) : FrameOK(stack[k]) /\ stack'[k] = stack[k]
        BY <2>1, <3>4 DEF StackInv
      <4>2. \A k \in 2 .. n : k = n \/ k \in 2 .. Len(stack)
        BY <2>1
      <4>3. QED
        BY <3>6, <4>1, <4>2
    <3>10. Len(stack) = 2 => stack'[2].why.by = "exception" /\ stack'[3].why.by = "irq"
      <4>1. SUFFICES ASSUME Len(stack) = 2
                     PROVE  stack'[2].why.by = "exception" /\ stack'[3].why.by = "irq"
        OBVIOUS
      <4>2. stack'[2] = stack[2]
        BY <3>4, <4>1
      <4>3. n = 3
        BY <4>1
      <4>4. QED
        BY <3>6, <3>8, <4>1, <4>2, <4>3
    <3>11. QED
      BY <2>1, <3>1, <3>4, <3>7, <3>9, <3>10 DEF StackInv
  <2>6. ASSUME NEW vector \in Exceptions, TakeException(vector) PROVE StackInv'
    <3>1. /\ Enter(vector, Cause("exception", vector))
          /\ pc = "terminal" /\ pc' = pc /\ stack[Len(stack)] = Kernel
      BY <2>6 DEF TakeException, Exc, Top
    <3>2. vector \in 0 .. 31 /\ vector \in 0 .. 255
      BY InterruptsAssumption
    <3>3. Len(stack) = 1
      BY <2>1, <3>1 DEF StackInv, FrameOK, Kernel, Cause
    <3>4. /\ Len(stack') = 2 /\ stack'[1] = stack[1]
          /\ stack'[2].code = gate[vector].code
          /\ stack'[2].why = Cause("exception", vector)
          /\ stack'[2].ints <=> gate[vector].flags = gate_trap
      <4>1. /\ Len(stack') = Len(stack) + 1
            /\ \A k \in 1 .. Len(stack) : stack'[k] = stack[k]
            /\ stack'[Len(stack) + 1].code = gate[vector].code
            /\ stack'[Len(stack) + 1].why = Cause("exception", vector)
            /\ stack'[Len(stack) + 1].ints <=> gate[vector].flags = gate_trap
        BY <3>1, <3>2, EnterStep
      <4>2. Len(stack) + 1 = 2 /\ 1 \in 1 .. Len(stack)
        BY <3>3
      <4>3. QED
        BY <4>1, <4>2
    <3>5. ExceptionGate(gate[vector], vector)
      BY <3>1, <3>2 DEF GatesInv
    <3>6. /\ stack'[2].why.by = "exception" /\ stack'[2].why.n = vector
          /\ stack'[2].code = gate[vector].code /\ stack'[2].ints
      BY <3>4, <3>5 DEF ExceptionGate, Cause
    <3>7. FrameOK(stack'[2])
      BY <3>5, <3>6 DEF FrameOK, ExceptionGate
    <3>8. QED
      BY <3>1, <3>3, <3>4, <3>7 DEF StackInv
  <2>7. CASE Return
    <3>1. /\ stack' = SubSeq(stack, 1, Len(stack) - 1) /\ pc' = pc
          /\ stack[Len(stack)].code # "kernel"
      BY <2>7 DEF Return, Top
    <3>2. Len(stack) \in 2 .. 3
      BY <2>1, <3>1 DEF StackInv, Kernel
    <3>3. /\ Len(stack') = Len(stack) - 1
          /\ \A k \in 1 .. Len(stack) - 1 : stack'[k] = stack[k]
      <4>1. \A k \in 1 .. Len(stack) - 1 : stack[k] \in Frame
        BY <2>1
      <4>2. 1 \in Int /\ Len(stack) - 1 \in Int /\ 1 <= Len(stack) - 1
        BY <3>2
      <4>3. /\ Len(stack') = (Len(stack) - 1) - 1 + 1
            /\ \A k \in 1 .. (Len(stack) - 1) - 1 + 1 : stack'[k] = stack[1 + k - 1]
        BY <3>1, <4>1, <4>2, SubSeqProperties
      <4>4. QED
        BY <3>2, <4>3
    <3>4. Len(stack') \in 1 .. 2 /\ stack'[1] = Kernel
      BY <3>2, <3>3 DEF StackInv
    <3>5. \A k \in 2 .. Len(stack') : FrameOK(stack'[k])
      BY <3>2, <3>3 DEF StackInv
    <3>6. pc' = "terminal"
      <4>1. SUFFICES ASSUME pc # "terminal" PROVE FALSE
        BY <3>1
      <4>2. stack = <<Kernel>>
        BY <4>1 DEF StackInv
      <4>3. Len(stack) = 1
        BY <4>2
      <4>4. QED
        BY <3>2, <4>3
    <3>7. QED
      BY <3>4, <3>5, <3>6 DEF StackInv
  <2>8. CASE HandlerHalts \/ HandlerResets
    BY <2>2, <2>8 DEF HandlerHalts, HandlerResets
  <2>9. CASE UNCHANGED vars
    BY <2>2, <2>9 DEF vars
  <2>10. QED
    BY <2>3, <2>4, <2>5, <2>6, <2>7, <2>8, <2>9 DEF Next, Leave
<1>3. QED
  BY <1>1, <1>2, GatesInductive, MaskInductive, PTL DEF Spec

-----------------------------------------------------------------------------
(* Every variable keeps its type, and idt_init takes its handlers from inside *)
(* its two arrays, for any devices and exceptions (idt.h:298-335).            *)
THEOREM TypeCorrect == Spec => []TypeOK
BY GatesInductive, PTL

(* An interrupt of a device runs the handler of that device, whatever lines   *)
(* have devices and whatever the BIOS left masked (idt.h:278-289, 337-344;    *)
(* kernel.c:103-109).                                                         *)
THEOREM IrqRunsItsHandlerCorrect == Spec => []IrqRunsItsHandler
<1>1. StackInv => IrqRunsItsHandler
  BY DEF StackInv, IrqRunsItsHandler, FrameOK, Kernel, Cause
<1>2. QED
  BY <1>1, StackInductive, PTL

(* A handler takes an error code exactly when the exception that runs it      *)
(* pushed one (idt.h:298-335).                                                *)
THEOREM ErrorCodeMatchesCorrect == Spec => []ErrorCodeMatches
<1>1. StackInv => ErrorCodeMatches
  BY DEF StackInv, ErrorCodeMatches, FrameOK, Kernel, Cause
<1>2. QED
  BY <1>1, StackInductive, PTL

(* At most one exception handler and on it one interrupt handler are active,  *)
(* however many devices raise their lines (idt.h:322-344).                    *)
THEOREM NestingBoundedCorrect == Spec => []NestingBounded
<1>1. StackInv => NestingBounded
  BY DEF StackInv, NestingBounded, FrameOK, Kernel, Cause
<1>2. QED
  BY <1>1, StackInductive, PTL

-----------------------------------------------------------------------------
(* The bytes are valid, and those that the devices must tell apart differ. *)
LEMMA BytesDiffer ==
  /\ {EnableAux, ReadCommandByte, WriteCommandByte, ToMouse, NoCommand, Reset, Defaults,
      Enable, Ack, Passed, MouseId} \subseteq Byte
  /\ EnableAux # ReadCommandByte /\ EnableAux \notin {WriteCommandByte, ToMouse}
  /\ ReadCommandByte \notin {WriteCommandByte, ToMouse}
  /\ NoCommand \notin {WriteCommandByte, ToMouse} /\ WriteCommandByte # ToMouse
  /\ Reset \notin {Defaults, Enable} /\ Defaults # Enable
<1>1. {EnableAux, ReadCommandByte, WriteCommandByte, ToMouse, NoCommand, Reset, Defaults,
      Enable, Ack, Passed, MouseId} \subseteq Byte
  BY DEF Byte, EnableAux, ReadCommandByte, WriteCommandByte, ToMouse, NoCommand, Reset, Defaults,
      Enable, Ack, Passed, MouseId
<1>2. 3 \in EnableAux /\ 3 \notin ReadCommandByte /\ 3 \notin WriteCommandByte /\ 3 \notin ToMouse
  BY DEF EnableAux, ReadCommandByte, WriteCommandByte, ToMouse
<1>3. 6 \notin ReadCommandByte /\ 6 \in WriteCommandByte /\ 6 \in ToMouse /\ 6 \notin NoCommand
  BY DEF ReadCommandByte, WriteCommandByte, ToMouse, NoCommand
<1>4. 5 \in WriteCommandByte /\ 5 \notin ToMouse
  BY DEF WriteCommandByte, ToMouse
<1>5. 0 \in Reset /\ 0 \notin Defaults /\ 0 \notin Enable /\ 1 \in Defaults /\ 1 \notin Enable
  BY DEF Reset, Defaults, Enable
<1> QED BY <1>1, <1>2, <1>3, <1>4, <1>5

(* The accesses of init_mouse, spelled out. *)
Ops == [op : {"command", "data", "read", "read_status", "write_status"}, byte : Byte]
Doing(op, byte) == [op |-> op, byte |-> byte]
Accessed ==
  << Doing("command", EnableAux),
     Doing("command", ReadCommandByte), Doing("read_status", {}), Doing("read", {}),
     Doing("command", WriteCommandByte), Doing("write_status", {}), Doing("read", {}),
     Doing("command", ToMouse), Doing("data", Reset), Doing("read", {}),
     Doing("command", ToMouse), Doing("data", Defaults), Doing("read", {}),
     Doing("command", ToMouse), Doing("data", Enable), Doing("read", {}) >>

(* s is the accesses from the m+1st to the n-th. *)
Part(s, m, n) ==
  s \in Seq(Ops) /\ Len(s) = n - m /\ \A j \in 1 .. n - m : s[j] = Accessed[m + j]

(* Parts that follow each other make a longer one. *)
LEMMA PartsJoin ==
  ASSUME NEW k \in Nat, NEW m \in Nat, NEW n \in Nat, k <= m, m <= n,
         NEW s, NEW t, Part(s, k, m), Part(t, m, n)
  PROVE  Part(s \o t, k, n)
<1>1. s \in Seq(Ops) /\ t \in Seq(Ops) /\ Len(s) = m - k /\ Len(t) = n - m
  BY DEF Part
<1>2. s \o t \in Seq(Ops) /\ Len(s \o t) = n - k
  BY <1>1
<1>3. ASSUME NEW j \in 1 .. n - k PROVE (s \o t)[j] = Accessed[k + j]
  <2>1. CASE j <= m - k
    BY <1>1, <2>1 DEF Part
  <2>2. CASE ~(j <= m - k)
    <3>1. (s \o t)[j] = t[j - (m - k)] /\ j - (m - k) \in 1 .. n - m
      BY <1>1, <2>2
    <3>2. m + (j - (m - k)) = k + j
      OBVIOUS
    <3> QED BY <3>1, <3>2 DEF Part
  <2> QED BY <2>1, <2>2
<1> QED BY <1>2, <1>3 DEF Part

(* One access is a part. *)
LEMMA OneAccess ==
  ASSUME NEW n \in 0 .. 15,
         NEW op \in {"command", "data", "read", "read_status", "write_status"}, NEW byte \in Byte,
         Accessed[n + 1] = Doing(op, byte)
  PROVE  Part(Access(op, byte), n, n + 1)
<1>1. (n + 1) - n = 1
  OBVIOUS
<1>2. Access(op, byte) = <<Accessed[n + 1]>> /\ Accessed[n + 1] \in Ops
  BY DEF Access, Doing, Ops
<1> HIDE DEF Accessed
<1> QED BY <1>1, <1>2 DEF Part

(* A command to the mouse is two. *)
LEMMA TwoAccesses ==
  ASSUME NEW n \in 0 .. 14, NEW byte \in Byte,
         Accessed[n + 1] = Doing("command", ToMouse), Accessed[n + 2] = Doing("data", byte)
  PROVE  Part(mouse_write(byte), n, n + 2)
<1>1. ToMouse \in Byte /\ n + 1 \in 0 .. 15 /\ (n + 1) + 1 = n + 2
  BY BytesDiffer
<1>2. Part(Command(ToMouse), n, n + 1) /\ Part(Data(byte), n + 1, n + 2)
  BY <1>1, OneAccess DEF Command, Data
<1> QED BY <1>1, <1>2, PartsJoin DEF mouse_write

(* init_mouse is its sixteen accesses (mouse.h:36-60). *)
LEMMA AccessesAre ==
  /\ Len(Accessed) = 16 /\ End = 17
  /\ \A n \in 1 .. 16 : init_mouse[n] = Accessed[n]
<1> DEFINE s1 == Command(EnableAux)
           s2 == s1 \o Command(ReadCommandByte)
           s3 == s2 \o Access("read_status", {})
           s4 == s3 \o mouse_read
           s5 == s4 \o Command(WriteCommandByte)
           s6 == s5 \o Access("write_status", {})
           s7 == s6 \o mouse_read
           s8 == s7 \o ResetMouse
           s9 == s8 \o mouse_write(Defaults)
           s10 == s9 \o mouse_read
           s11 == s10 \o mouse_write(Enable)
           s12 == s11 \o mouse_read
<1>1. {{}, EnableAux, ReadCommandByte, WriteCommandByte, ToMouse, Reset, Defaults, Enable}
        \subseteq Byte
  BY BytesDiffer DEF Byte
<1>2. /\ Part(Command(EnableAux), 0, 1)
      /\ Part(Command(ReadCommandByte), 1, 2)
      /\ Part(Access("read_status", {}), 2, 3)
      /\ Part(mouse_read, 3, 4)
      /\ Part(Command(WriteCommandByte), 4, 5)
      /\ Part(Access("write_status", {}), 5, 6)
      /\ Part(mouse_read, 6, 7)
      /\ Part(mouse_read, 12, 13)
      /\ Part(mouse_read, 15, 16)
  BY <1>1, OneAccess DEF Command, mouse_read, Accessed
<1>3. Part(mouse_write(Reset), 7, 9) /\ Part(mouse_write(Defaults), 10, 12)
      /\ Part(mouse_write(Enable), 13, 15)
  BY <1>1, TwoAccesses DEF Accessed
<1>4. Part(ResetMouse, 7, 10)
  <2>1. Part(mouse_read, 9, 10)
    BY <1>1, OneAccess DEF mouse_read, Accessed
  <2> QED BY <1>3, <2>1, PartsJoin DEF ResetMouse
<1>5. Part(s1, 0, 1)
  BY <1>2
<1>6. Part(s2, 0, 2)
  <2> HIDE DEF s1
  <2> QED BY <1>2, <1>3, <1>4, <1>5, PartsJoin
<1>7. Part(s3, 0, 3)
  <2> HIDE DEF s2
  <2> QED BY <1>2, <1>3, <1>4, <1>6, PartsJoin
<1>8. Part(s4, 0, 4)
  <2> HIDE DEF s3
  <2> QED BY <1>2, <1>3, <1>4, <1>7, PartsJoin
<1>9. Part(s5, 0, 5)
  <2> HIDE DEF s4
  <2> QED BY <1>2, <1>3, <1>4, <1>8, PartsJoin
<1>10. Part(s6, 0, 6)
  <2> HIDE DEF s5
  <2> QED BY <1>2, <1>3, <1>4, <1>9, PartsJoin
<1>11. Part(s7, 0, 7)
  <2> HIDE DEF s6
  <2> QED BY <1>2, <1>3, <1>4, <1>10, PartsJoin
<1>12. Part(s8, 0, 10)
  <2> HIDE DEF s7
  <2> QED BY <1>2, <1>3, <1>4, <1>11, PartsJoin
<1>13. Part(s9, 0, 12)
  <2> HIDE DEF s8
  <2> QED BY <1>2, <1>3, <1>4, <1>12, PartsJoin
<1>14. Part(s10, 0, 13)
  <2> HIDE DEF s9
  <2> QED BY <1>2, <1>3, <1>4, <1>13, PartsJoin
<1>15. Part(s11, 0, 15)
  <2> HIDE DEF s10
  <2> QED BY <1>2, <1>3, <1>4, <1>14, PartsJoin
<1>16. Part(s12, 0, 16)
  <2> HIDE DEF s11
  <2> QED BY <1>2, <1>3, <1>4, <1>15, PartsJoin
<1>17. Part(init_mouse, 0, 16)
  BY <1>16 DEF init_mouse
<1>18. Len(Accessed) = 16
  BY DEF Accessed
<1> QED BY <1>17, <1>18 DEF Part, End

-----------------------------------------------------------------------------
(* The accesses by their number.                                              *)
CommandSteps == {1, 2, 5, 8, 11, 14}
DataSteps == {6, 9, 12, 15}
ReadSteps == {3, 4, 7, 10, 13, 16}

(* What the last write before an access has put into the input buffer, and    *)
(* whether the controller has taken it.                                       *)
LastSent ==
  CASE step = 2 -> [port |-> "command", byte |-> EnableAux]
    [] step \in 3 .. 5 -> [port |-> "command", byte |-> ReadCommandByte]
    [] step = 6 -> [port |-> "command", byte |-> WriteCommandByte]
    [] step \in {7, 8} -> [port |-> "data", byte |-> Patched(status)]
    [] step \in {9, 12, 15} -> [port |-> "command", byte |-> ToMouse]
    [] step \in {10, 11} -> [port |-> "data", byte |-> Reset]
    [] step \in {13, 14} -> [port |-> "data", byte |-> Defaults]
    [] step \in {16, 17} -> [port |-> "data", byte |-> Enable]
    [] OTHER -> NoByte
Taken == ib.port = "none"
BufferInv ==
  /\ ib \in {NoByte, LastSent}
  /\ step <= 8 => expects # ToMouse

(* The replies that the mouse may have had to make so far, were they all      *)
(* still to be sent.                                                          *)
ResetPending == step <= 9 \/ (step <= 11 /\ ib.port = "data")
SelfTestReplies == IF bat THEN 2 ELSE 0
DataWaits == IF ib.port = "data" THEN 1 ELSE 0
Quota == IF step <= 12 THEN 3 ELSE IF step <= 15 THEN 4 ELSE 5
QuotaInv ==
  IF ResetPending THEN replies = <<>> /\ ~bat
  ELSE Len(replies) + SelfTestReplies + DataWaits <= Quota

(* What a wait that has not given up too early has waited for.                *)
WaitInv ==
  ~waiting => /\ step \in CommandSteps \cup DataSteps => Taken
              /\ step \in ReadSteps => ob.full \/ (Taken /\ ~bat /\ replies = <<>>)

(* Data goes to where the command before it says.                             *)
ExpectsInv ==
  /\ (step = 6 /\ Taken) \/ (step \in {7, 8} /\ ~Taken) => expects = WriteCommandByte
  /\ (step \in {9, 12, 15} /\ Taken) \/ (step \in {10, 11, 13, 14, 16, 17} /\ ~Taken)
       => expects = ToMouse

(* What the commands taken so far have done.                                  *)
CommandInv ==
  /\ (step = 2 /\ Taken) \/ step >= 3 => 5 \notin command_byte
  /\ (step \in {7, 8} /\ Taken) \/ step >= 9 => 1 \in command_byte
  /\ step = 17 /\ Taken => reporting
  /\ step = 16 /\ Taken => reporting

(* If nothing is typed, the command byte is read and written back.            *)
KeptInv ==
  typed = 0 =>
    /\ step = 1 \/ (step = 2 /\ ~Taken) => command_byte = bios
    /\ (step = 2 /\ Taken) \/ step \in 3 .. 6 \/ (step \in {7, 8} /\ ~Taken)
         => command_byte = bios \ {5}
    /\ step >= 9 \/ (step \in {7, 8} /\ Taken) => command_byte = Patched(bios \ {5})
    /\ step >= 4 => status = bios \ {5}
    /\ step <= 3 => (ob.full <=> step = 3 /\ Taken)
    /\ step = 3 /\ ob.full => ob.byte = bios \ {5}

(* The commands that the mouse has obeyed, the replies that they have had and *)
(* the reads that there were for them.                                        *)
Obeyed ==
  IF step <= 9 THEN 0
  ELSE IF step <= 12 THEN (IF ib.port = "data" THEN 0 ELSE 1)
  ELSE IF step <= 15 THEN (IF ib.port = "data" THEN 1 ELSE 2)
  ELSE (IF ib.port = "data" THEN 2 ELSE 3)
Replied ==
  IF Obeyed = 0 THEN 0
  ELSE IF Obeyed = 1 THEN (IF bat THEN 1 ELSE 3)
  ELSE IF Obeyed = 2 THEN 4 ELSE 5
ReadsDone == IF step <= 10 THEN 0 ELSE IF step <= 13 THEN 1 ELSE IF step <= 16 THEN 2 ELSE 3
Consumed == Replied - Len(Unread)
KeyWaits == IF ob.full /\ ob.src = "keyboard" THEN 1 ELSE 0

(* Each of these reads took a reply or a scancode, and what is left are the   *)
(* replies behind the ones taken.                                             *)
RepliesInv ==
  /\ bat => Obeyed = 1
  /\ step >= 8 => ~(ob.full /\ ob.src = "controller")
  /\ Consumed \in 0 .. ReadsDone
  /\ ReadsDone <= Consumed + typed - KeyWaits
  /\ \A n \in 1 .. Len(Unread) : Unread[n] = AllReplies[Consumed + n]

OnTimeInv == WaitInv /\ ExpectsInv /\ CommandInv /\ KeptInv /\ RepliesInv
MouseInv == HandshakeTypeOK /\ BufferInv /\ QuotaInv /\ (~late => OnTimeInv)


-----------------------------------------------------------------------------
(* What is in the input buffer.                                               *)
LEMMA InBuffer ==
  ASSUME step \in 1 .. 17, BufferInv
  PROVE  /\ ib.port \in {"none", "command", "data"}
         /\ Taken => ib = NoByte
         /\ ib.port = "command" => step \in {2, 3, 4, 5, 6, 9, 12, 15}
         /\ ib.port = "data" => step \in {7, 8, 10, 11, 13, 14, 16, 17}
         /\ ib.port = "command" /\ step = 2 => ib.byte = EnableAux
         /\ ib.port = "command" /\ step \in 3 .. 5 => ib.byte = ReadCommandByte
         /\ ib.port = "command" /\ step = 6 => ib.byte = WriteCommandByte
         /\ ib.port = "command" /\ step \in {9, 12, 15} => ib.byte = ToMouse
         /\ ib.port = "data" /\ step \in {7, 8} => ib.byte = Patched(status)
         /\ ib.port = "data" /\ step \in {10, 11} => ib.byte = Reset
         /\ ib.port = "data" /\ step \in {13, 14} => ib.byte = Defaults
         /\ ib.port = "data" /\ step \in {16, 17} => ib.byte = Enable
<1>1. CASE ib = NoByte
  BY <1>1 DEF NoByte, Taken
<1>2. CASE ib = LastSent
  BY <1>2 DEF LastSent, NoByte, Taken
<1> QED BY <1>1, <1>2 DEF BufferInv

(* The values that are bytes.                                                 *)
LEMMA PatchedIs ==
  ASSUME NEW byte \in Byte
  PROVE  /\ Patched(byte) \in Byte
         /\ 5 \notin Patched(byte) /\ 1 \in Patched(byte)
BY DEF Patched, Byte

(* The next access.                                                           *)
LEMMA NextAccess ==
  ASSUME step \in 1 .. 17
  PROVE  /\ step < End <=> step \in 1 .. 16
         /\ Next_access = "command" /\ step < End <=> step \in CommandSteps
         /\ Next_access \in {"data", "write_status"} /\ step < End <=> step \in DataSteps
         /\ Next_access \in {"read", "read_status"} /\ step < End <=> step \in ReadSteps
         /\ Reads /\ step < End <=> step \in ReadSteps
         /\ Next_access = "read_status" /\ step < End <=> step = 3
         /\ Next_access = "write_status" /\ step < End <=> step = 6
         /\ \A n \in 1 .. 16 : n = step => init_mouse[step].byte = Accessed[n].byte
BY AccessesAre DEF Next_access, Reads, Accessed, Doing, CommandSteps, DataSteps, ReadSteps

Advance == step' = step + 1 /\ waiting' = TRUE /\ timeout' = Polls

(* The three sorts of accesses.                                               *)
LEMMA WriteCommandIs ==
  ASSUME MouseInv, WriteCommand
  PROVE  /\ step \in CommandSteps /\ ~waiting /\ Advance
         /\ ib' = LastSent' /\ ib'.port = "command"
         /\ UNCHANGED <<bios, status, expects, command_byte, ob, mouse, typed, late>>
<1>0. step \in 1 .. 17
  BY AccessesAre DEF MouseInv, HandshakeTypeOK
<1>1. /\ step \in CommandSteps /\ ~waiting /\ Advance
      /\ ib' = [port |-> "command", byte |-> Accessed[step].byte]
      /\ UNCHANGED <<bios, status, expects, command_byte, ob, mouse, typed, late>>
  BY <1>0, NextAccess DEF WriteCommand, Accesses, Advance
<1>2. step' = step + 1
  BY <1>1 DEF Advance
<1>3. ib' = LastSent'
  BY <1>1, <1>2 DEF CommandSteps, LastSent, Accessed, Doing
<1> QED BY <1>1, <1>3

(* WriteData writes the data byte of its access, or the patched status. *)
LEMMA WriteDataIs ==
  ASSUME MouseInv, WriteData
  PROVE  /\ step \in DataSteps /\ ~waiting /\ Advance
         /\ ib' = LastSent' /\ ib'.port = "data"
         /\ UNCHANGED <<bios, status, expects, command_byte, ob, mouse, typed, late>>
<1>0. step \in 1 .. 17
  BY AccessesAre DEF MouseInv, HandshakeTypeOK
<1>1. /\ step \in DataSteps /\ ~waiting /\ Advance
      /\ ib' = [port |-> "data", byte |-> IF step = 6 THEN Patched(status) ELSE Accessed[step].byte]
      /\ UNCHANGED <<bios, status, expects, command_byte, ob, mouse, typed, late>>
  BY <1>0, NextAccess DEF WriteData, Accesses, Advance, DataSteps
<1>2. step' = step + 1 /\ status' = status
  BY <1>1 DEF Advance
<1>3. ib' = LastSent'
  <2>1. Patched(status') = Patched(status)
    BY <1>2
  <2>2. CASE step = 6
    BY <1>1, <1>2, <2>1, <2>2 DEF LastSent
  <2>3. CASE step \in {9, 12, 15}
    BY <1>1, <1>2, <2>3 DEF LastSent, Accessed, Doing
  <2> QED BY <1>1, <2>2, <2>3 DEF DataSteps
<1> QED BY <1>1, <1>3

(* Read empties the output buffer, and keeps what it reads in step 3. *)
LEMMA ReadIs ==
  ASSUME MouseInv, Read
  PROVE  /\ step \in ReadSteps /\ ~waiting /\ Advance
         /\ ob' = [ob EXCEPT !.full = FALSE]
         /\ status' = IF step = 3 THEN ob.byte ELSE status
         /\ UNCHANGED <<bios, ib, expects, command_byte, mouse, typed, late>>
<1>0. step \in 1 .. 17
  BY AccessesAre DEF MouseInv, HandshakeTypeOK
<1> QED BY <1>0, NextAccess DEF Read, Accesses, Advance


-----------------------------------------------------------------------------
(* The types, with the number of accesses.                                    *)
LEMMA TypesAre ==
  HandshakeTypeOK <=>
    /\ bios \in BiosBytes
    /\ step \in 1 .. 17 /\ waiting \in BOOLEAN /\ timeout \in 0 .. Polls
    /\ status \in Byte
    /\ ib \in [port : {"none", "command", "data"}, byte : Byte]
    /\ expects \in {NoCommand, WriteCommandByte, ToMouse}
    /\ command_byte \in Byte
    /\ ob \in [full : BOOLEAN, byte : Byte, src : {"controller", "keyboard", "mouse"}]
    /\ bat \in BOOLEAN /\ reporting \in BOOLEAN
    /\ replies \in Seq({Ack, Passed, MouseId}) /\ Len(replies) <= 5
    /\ typed \in 0 .. MaxKeys
    /\ late \in BOOLEAN
BY AccessesAre DEF HandshakeTypeOK

(* There are sixteen accesses. *)
LEMMA StepType == MouseInv => step \in 1 .. 17
BY TypesAre DEF MouseInv

(* The budget bounds what the mouse has to send. *)
LEMMA QuotaBounds ==
  ASSUME replies \in Seq({Ack, Passed, MouseId}), QuotaInv
  PROVE  Len(replies) <= 5
<1>1. Len(replies) \in Nat /\ (replies = <<>> => Len(replies) = 0)
  OBVIOUS
<1>2. SelfTestReplies \in {0, 2} /\ DataWaits \in {0, 1} /\ Quota \in 3 .. 5
  BY DEF SelfTestReplies, DataWaits, Quota
<1> QED BY <1>1, <1>2 DEF QuotaInv

(* A byte of the input buffer is a byte. *)
LEMMA LastSentType ==
  ASSUME step' \in 1 .. 17, status' \in Byte
  PROVE  LastSent' \in [port : {"none", "command", "data"}, byte : Byte]
<1>1. Patched(status') \in Byte
  BY PatchedIs
<1>2. /\ {} \in Byte /\ EnableAux \in Byte /\ ReadCommandByte \in Byte
      /\ WriteCommandByte \in Byte /\ ToMouse \in Byte
      /\ Reset \in Byte /\ Defaults \in Byte /\ Enable \in Byte
  BY BytesDiffer DEF Byte
<1> QED BY <1>1, <1>2 DEF LastSent, NoByte

(* The processor writes a command.                                            *)
LEMMA WriteCommandStep ==
  ASSUME MouseInv, WriteCommand
  PROVE  MouseInv'
<1>0. /\ step \in CommandSteps /\ ~waiting /\ Advance
      /\ ib' = LastSent' /\ ib'.port = "command"
      /\ UNCHANGED <<bios, status, expects, command_byte, ob, bat, reporting, replies, typed, late>>
  BY WriteCommandIs DEF mouse
<1>1. /\ step \in {1, 2, 5, 8, 11, 14} /\ step' = step + 1 /\ waiting' /\ ~Taken'
      /\ ib'.port # "data"
  BY <1>0 DEF Advance, CommandSteps, Taken
<1>2. HandshakeTypeOK'
  <2>1. LastSent' \in [port : {"none", "command", "data"}, byte : Byte]
    <3>1. step' \in 1 .. 17 /\ status' \in Byte
      BY <1>0, <1>1, TypesAre DEF MouseInv
    <3> QED BY <3>1, LastSentType
  <2>2. Polls \in 0 .. Polls
    BY MouseInitAssumption
  <2> QED BY <1>0, <1>1, <2>1, <2>2, TypesAre, AccessesAre DEF MouseInv, Advance, HandshakeTypeOK
<1>3. BufferInv'
  BY <1>0, <1>1 DEF MouseInv, BufferInv
<1>4. QuotaInv'
  <2>1. Len(replies) \in Nat /\ (replies = <<>> => Len(replies) = 0)
    BY TypesAre DEF MouseInv
  <2>2. /\ SelfTestReplies \in {0, 2} /\ SelfTestReplies' = SelfTestReplies
        /\ DataWaits \in {0, 1} /\ DataWaits' = 0 /\ (~bat => SelfTestReplies = 0)
    BY <1>0 DEF SelfTestReplies, DataWaits
  <2>3. Quota \in 3 .. 5 /\ Quota' \in 3 .. 5 /\ Quota <= Quota'
    BY <1>1 DEF Quota
  <2>4. CASE ResetPending
    BY <1>0, <2>1, <2>2, <2>3, <2>4 DEF MouseInv, QuotaInv
  <2>5. CASE ~ResetPending
    <3>1. ~ResetPending'
      BY <1>1, <2>5 DEF ResetPending
    <3> QED BY <1>0, <2>1, <2>2, <2>3, <2>5, <3>1 DEF MouseInv, QuotaInv
  <2> QED BY <2>4, <2>5
<1>5. ASSUME ~late PROVE OnTimeInv'
  <2>1. Taken /\ ib.port # "data"
    BY <1>0, <1>1, <1>5 DEF MouseInv, OnTimeInv, WaitInv, Taken, CommandSteps
  <2>2. WaitInv'
    BY <1>1 DEF WaitInv
  <2>3. ExpectsInv'
    BY <1>1 DEF ExpectsInv
  <2>4. CommandInv'
    BY <1>0, <1>1, <1>5, <2>1 DEF MouseInv, OnTimeInv, CommandInv
  <2>5. KeptInv'
    BY <1>0, <1>1, <1>5, <2>1 DEF MouseInv, OnTimeInv, KeptInv
  <2>6. RepliesInv'
    <3>1. Obeyed' = Obeyed /\ ReadsDone' = ReadsDone
      BY <1>1, <2>1 DEF Obeyed, ReadsDone
    <3>2. Unread' = Unread /\ Replied' = Replied /\ KeyWaits' = KeyWaits
      BY <1>0, <3>1 DEF Unread, Replied, KeyWaits
    <3>3. step' >= 8 => step >= 8 \/ step = 7
      BY <1>1
    <3>4. Consumed' = Consumed
      BY <3>2 DEF Consumed
    <3> QED BY <1>0, <1>1, <1>5, <3>1, <3>2, <3>4 DEF MouseInv, OnTimeInv, RepliesInv
  <2> QED BY <2>2, <2>3, <2>4, <2>5, <2>6 DEF OnTimeInv
<1> QED BY <1>0, <1>2, <1>3, <1>4, <1>5 DEF MouseInv

(* The processor writes data: a command has been taken that says where to.    *)
LEMMA WriteDataStep ==
  ASSUME MouseInv, WriteData
  PROVE  MouseInv'
<1>0. /\ step \in DataSteps /\ ~waiting /\ Advance
      /\ ib' = LastSent' /\ ib'.port = "data"
      /\ UNCHANGED <<bios, status, expects, command_byte, ob, bat, reporting, replies, typed, late>>
  BY WriteDataIs DEF mouse
<1>1. /\ step \in {6, 9, 12, 15} /\ step' = step + 1 /\ waiting' /\ ~Taken'
  BY <1>0 DEF Advance, DataSteps, Taken
<1>i. ib.port # "data"
  BY <1>1, InBuffer, StepType DEF MouseInv
<1>2. HandshakeTypeOK'
  <2>1. LastSent' \in [port : {"none", "command", "data"}, byte : Byte]
    <3>1. step' \in 1 .. 17 /\ status' \in Byte
      BY <1>0, <1>1, TypesAre DEF MouseInv
    <3> QED BY <3>1, LastSentType
  <2>2. Polls \in 0 .. Polls
    BY MouseInitAssumption
  <2> QED BY <1>0, <1>1, <2>1, <2>2, TypesAre, AccessesAre DEF MouseInv, Advance, HandshakeTypeOK
<1>3. BufferInv'
  BY <1>0, <1>1 DEF MouseInv, BufferInv
<1>4. QuotaInv'
  <2>1. Len(replies) \in Nat
    BY TypesAre DEF MouseInv
  <2>2. /\ SelfTestReplies \in {0, 2} /\ SelfTestReplies' = SelfTestReplies
        /\ DataWaits = 0 /\ DataWaits' = 1
    BY <1>0, <1>i DEF SelfTestReplies, DataWaits
  <2>3. CASE step = 6 \/ step = 9
    <3>1. ResetPending /\ ResetPending'
      BY <1>0, <1>1, <2>3 DEF ResetPending
    <3> QED BY <1>0, <3>1 DEF MouseInv, QuotaInv
  <2>4. CASE step = 12 \/ step = 15
    <3>1. ~ResetPending /\ ~ResetPending'
      BY <1>1, <2>4 DEF ResetPending
    <3>2. Quota' = Quota + 1 /\ Quota \in 3 .. 4
      BY <1>1, <2>4 DEF Quota
    <3> QED BY <1>0, <2>1, <2>2, <3>1, <3>2 DEF MouseInv, QuotaInv
  <2> QED BY <1>1, <2>3, <2>4
<1>5. ASSUME ~late PROVE OnTimeInv'
  <2>1. Taken
    BY <1>0, <1>1, <1>5 DEF MouseInv, OnTimeInv, WaitInv, Taken, DataSteps
  <2>2. WaitInv'
    BY <1>1 DEF WaitInv
  <2>3. ExpectsInv'
    BY <1>0, <1>1, <1>5, <2>1 DEF MouseInv, OnTimeInv, ExpectsInv
  <2>4. CommandInv'
    BY <1>0, <1>1, <1>5, <2>1 DEF MouseInv, OnTimeInv, CommandInv
  <2>5. KeptInv'
    BY <1>0, <1>1, <1>5, <2>1 DEF MouseInv, OnTimeInv, KeptInv
  <2>6. RepliesInv'
    <3>1. Obeyed' = Obeyed /\ ReadsDone' = ReadsDone
      BY <1>0, <1>1, <1>i DEF Obeyed, ReadsDone
    <3>2. Unread' = Unread /\ Replied' = Replied /\ KeyWaits' = KeyWaits
      BY <1>0, <3>1 DEF Unread, Replied, KeyWaits
    <3>4. Consumed' = Consumed
      BY <3>2 DEF Consumed
    <3> QED BY <1>0, <1>1, <1>5, <3>1, <3>2, <3>4 DEF MouseInv, OnTimeInv, RepliesInv
  <2> QED BY <2>2, <2>3, <2>4, <2>5, <2>6 DEF OnTimeInv
<1> QED BY <1>0, <1>2, <1>3, <1>4, <1>5 DEF MouseInv


-----------------------------------------------------------------------------
(* What is unread is what is in the output buffer, if it is the mouse's, and  *)
(* what the mouse has still to send.                                          *)
MouseWaits == IF ob.full /\ ob.src = "mouse" THEN 1 ELSE 0

(* What is unread, byte by byte. *)
LEMMA UnreadIs ==
  ASSUME replies \in Seq({Ack, Passed, MouseId})
  PROVE  /\ MouseWaits \in {0, 1} /\ Len(replies) \in Nat
         /\ Len(Unread) = MouseWaits + Len(replies)
         /\ MouseWaits = 0 => Unread = replies
         /\ MouseWaits = 1 => Unread[1] = ob.byte
         /\ MouseWaits = 1 => \A n \in 1 .. Len(replies) : Unread[1 + n] = replies[n]
<1>1. CASE ob.full /\ ob.src = "mouse"
  <2>1. Unread = <<ob.byte>> \o replies /\ MouseWaits = 1
    BY <1>1 DEF Unread, MouseWaits
  <2> QED BY <2>1
<1>2. CASE ~(ob.full /\ ob.src = "mouse")
  <2>1. Unread = <<>> \o replies /\ MouseWaits = 0
    BY <1>2 DEF Unread, MouseWaits
  <2>2. <<>> \o replies = replies
    OBVIOUS
  <2> QED BY <2>1, <2>2
<1> QED BY <1>1, <1>2

(* The counts of RepliesInv are small numbers.                                *)
LEMMA CountsAre ==
  /\ Obeyed \in 0 .. 3 /\ Replied \in 0 .. 5 /\ ReadsDone \in 0 .. 3 /\ KeyWaits \in {0, 1}
BY DEF Obeyed, Replied, ReadsDone, KeyWaits

(* The processor reads: after the reset, never nothing, since a wait that has *)
(* ended in time has seen a full buffer or an idle mouse, and an idle mouse   *)
(* has more replies to its credit than there were reads.                      *)
LEMMA ReadsSomething ==
  ASSUME MouseInv, ~late, Read, step >= 10
  PROVE  ob.full
<1>0. step \in {10, 13, 16} /\ ~waiting
  BY ReadIs DEF ReadSteps
<1>1. WaitInv /\ RepliesInv /\ replies \in Seq({Ack, Passed, MouseId})
  BY TypesAre DEF MouseInv, OnTimeInv
<1> SUFFICES ASSUME ~ob.full PROVE FALSE
  OBVIOUS
<1>2. Taken /\ ~bat /\ replies = <<>>
  BY <1>0, <1>1 DEF WaitInv, ReadSteps
<1>3. Len(Unread) = 0
  <2>1. MouseWaits = 0 /\ Len(replies) = 0
    BY <1>2 DEF MouseWaits
  <2> QED BY <1>1, <2>1, UnreadIs
<1>4. Consumed = Replied
  BY <1>3, CountsAre DEF Consumed
<1>5. Replied > ReadsDone
  BY <1>0, <1>2 DEF Taken, Replied, Obeyed, ReadsDone
<1> QED BY <1>1, <1>4, <1>5, CountsAre DEF RepliesInv

(* The processor reads: one more of the replies or scancodes is consumed. *)
LEMMA ReadStep ==
  ASSUME MouseInv, Read
  PROVE  MouseInv'
<1>0. /\ step \in ReadSteps /\ ~waiting /\ Advance
      /\ ob' = [ob EXCEPT !.full = FALSE]
      /\ status' = IF step = 3 THEN ob.byte ELSE status
      /\ UNCHANGED <<bios, ib, expects, command_byte, bat, reporting, replies, typed, late>>
  BY ReadIs DEF mouse
<1>t. /\ ob \in [full : BOOLEAN, byte : Byte, src : {"controller", "keyboard", "mouse"}]
      /\ replies \in Seq({Ack, Passed, MouseId}) /\ typed \in Nat /\ status \in Byte
  BY TypesAre, MouseInitAssumption DEF MouseInv
<1>1. /\ step \in {3, 4, 7, 10, 13, 16} /\ step' = step + 1 /\ waiting'
      /\ ~ob'.full /\ Taken' = Taken
  BY <1>0, <1>t DEF Advance, ReadSteps, Taken
<1>2. HandshakeTypeOK'
  <2>1. step' \in 1 .. 17 /\ Polls \in 0 .. Polls
    BY <1>1, MouseInitAssumption
  <2>2. ob' \in [full : BOOLEAN, byte : Byte, src : {"controller", "keyboard", "mouse"}]
    BY <1>0, <1>t
  <2> QED BY <1>0, <1>1, <1>t, <2>1, <2>2, TypesAre, AccessesAre DEF MouseInv, Advance, HandshakeTypeOK
<1>3. BufferInv'
  <2>1. ib = NoByte \/ LastSent' = LastSent
    BY <1>0, <1>1 DEF LastSent
  <2> QED BY <1>0, <1>1, <2>1 DEF MouseInv, BufferInv
<1>4. QuotaInv'
  <2>1. Len(replies) \in Nat
    BY <1>t
  <2>2. /\ SelfTestReplies \in {0, 2} /\ SelfTestReplies' = SelfTestReplies
        /\ DataWaits \in {0, 1} /\ DataWaits' = DataWaits
    BY <1>0 DEF SelfTestReplies, DataWaits
  <2>3. Quota \in 3 .. 5 /\ Quota' = Quota /\ ResetPending' = ResetPending
    BY <1>0, <1>1 DEF Quota, ResetPending
  <2> QED BY <1>0, <2>1, <2>2, <2>3 DEF MouseInv, QuotaInv
<1>5. ASSUME ~late PROVE OnTimeInv'
  <2>1. WaitInv /\ ExpectsInv /\ CommandInv /\ KeptInv /\ RepliesInv
    BY <1>5 DEF MouseInv, OnTimeInv
  <2>2. WaitInv'
    BY <1>1 DEF WaitInv
  <2>3. ExpectsInv'
    BY <1>0, <1>1, <2>1 DEF ExpectsInv
  <2>4. CommandInv'
    BY <1>0, <1>1, <2>1 DEF CommandInv
  <2>5. KeptInv'
    <3>1. CASE step = 3
      BY <1>0, <1>1, <2>1, <3>1 DEF KeptInv, WaitInv, ReadSteps
    <3>2. CASE step # 3
      BY <1>0, <1>1, <2>1, <3>2 DEF KeptInv
    <3> QED BY <3>1, <3>2
  <2>6. RepliesInv'
    <3>1. Obeyed' = Obeyed /\ Replied' = Replied
      BY <1>0, <1>1 DEF Obeyed, Replied
    <3>2. MouseWaits' = 0 /\ KeyWaits' = 0
      BY <1>1 DEF MouseWaits, KeyWaits
    <3>3. Unread' = replies
      BY <1>0, <1>1 DEF Unread
    <3>4. Consumed' = Replied - Len(replies)
      BY <3>1, <3>3 DEF Consumed
    <3>5. Consumed' = Consumed + MouseWaits
      BY <1>t, <3>4, UnreadIs, CountsAre DEF Consumed
    <3>6. ReadsDone' = ReadsDone + (IF step >= 10 THEN 1 ELSE 0)
      BY <1>1 DEF ReadsDone
    <3>7. MouseWaits + KeyWaits <= 1
      BY DEF MouseWaits, KeyWaits
    <3>c. /\ Consumed \in 0 .. ReadsDone /\ ReadsDone <= Consumed + typed - KeyWaits
          /\ MouseWaits \in {0, 1} /\ Len(Unread) = MouseWaits + Len(replies)
          /\ Len(replies) \in Nat
      BY <1>t, <2>1, UnreadIs DEF RepliesInv
    <3>8. ASSUME step < 10
          PROVE  Consumed' \in 0 .. ReadsDone' /\ ReadsDone' <= Consumed' + typed - KeyWaits'
      <4>1. Replied = 0 /\ ReadsDone = 0
        BY <1>1, <3>8 DEF Replied, Obeyed, ReadsDone
      <4>2. MouseWaits = 0 /\ Consumed = 0
        BY <3>c, <4>1 DEF Consumed
      <4>3. ReadsDone' = 0 /\ Consumed' = 0
        BY <1>1, <3>5, <3>6, <3>8, <4>1, <4>2
      <4> QED BY <1>0, <1>t, <3>2, <4>3
    <3>9. ASSUME step >= 10
          PROVE  Consumed' \in 0 .. ReadsDone' /\ ReadsDone' <= Consumed' + typed - KeyWaits'
      <4>1. ob.full /\ ob.src \in {"keyboard", "mouse"}
        BY <1>1, <1>5, <1>t, <2>1, <3>9, ReadsSomething DEF RepliesInv
      <4>2. MouseWaits + KeyWaits = 1
        BY <4>1 DEF MouseWaits, KeyWaits
      <4> QED BY <1>t, <3>2, <3>5, <3>6, <3>c, <3>9, <4>2, CountsAre
    <3>10. Consumed' \in 0 .. ReadsDone' /\ ReadsDone' <= Consumed' + typed - KeyWaits'
      BY <1>1, <3>8, <3>9
    <3>11. \A n \in 1 .. Len(replies) : replies[n] = AllReplies[Consumed' + n]
      <4> SUFFICES ASSUME NEW n \in 1 .. Len(replies)
                   PROVE  replies[n] = AllReplies[Consumed' + n]
        OBVIOUS
      <4>1. MouseWaits + n \in 1 .. Len(Unread) /\ Unread[MouseWaits + n] = replies[n]
        BY <1>t, <3>c, UnreadIs
      <4>2. Unread[MouseWaits + n] = AllReplies[Consumed + (MouseWaits + n)]
        BY <2>1, <4>1 DEF RepliesInv
      <4>3. Consumed + (MouseWaits + n) = Consumed' + n
        BY <3>c, <3>5, CountsAre
      <4> QED BY <4>1, <4>2, <4>3
    <3> QED BY <1>0, <1>1, <2>1, <3>1, <3>2, <3>3, <3>10, <3>11 DEF RepliesInv
  <2> QED BY <2>2, <2>3, <2>4, <2>5, <2>6 DEF OnTimeInv
<1> QED BY <1>0, <1>2, <1>3, <1>4, <1>5 DEF MouseInv


(* The processor waits. *)
LEMMA WaitStep ==
  ASSUME MouseInv, Poll \/ GiveUp
  PROVE  MouseInv'
<1>0. /\ step \in 1 .. 17 /\ timeout \in 0 .. Polls /\ waiting \in BOOLEAN /\ late \in BOOLEAN
      /\ Polls \in Nat
  BY TypesAre, MouseInitAssumption DEF MouseInv
<1>1. /\ step \in 1 .. 16 /\ step' = step
      /\ UNCHANGED <<bios, status, ib, expects, command_byte, ob, bat, reporting, replies, typed>>
  BY <1>0, NextAccess DEF Poll, GiveUp, mouse
<1>2. waiting' \in BOOLEAN /\ timeout' \in 0 .. Polls /\ late' \in BOOLEAN /\ (late => late')
  <2>1. CASE Poll
    <3>1. waiting' = waiting \/ waiting' = FALSE
      BY <2>1 DEF Poll
    <3>2. timeout' = timeout \/ (timeout > 0 /\ timeout' = timeout - 1)
      BY <2>1 DEF Poll, More, Counted
    <3>3. timeout' \in 0 .. Polls
      BY <1>0, <3>2
    <3>4. late' = late
      BY <2>1 DEF Poll
    <3> QED BY <1>0, <3>1, <3>3, <3>4
  <2>2. CASE GiveUp
    <3>1. waiting' = FALSE /\ timeout' = timeout /\ late' = (late \/ UnderWay)
      BY <2>2 DEF GiveUp
    <3>2. late' \in BOOLEAN /\ (late => late')
      BY <3>1, Zenon
    <3> QED BY <1>0, <3>1, <3>2
  <2> QED BY <2>1, <2>2
<1>3. HandshakeTypeOK'
  BY <1>1, <1>2, TypesAre, AccessesAre DEF MouseInv, HandshakeTypeOK
<1>4. BufferInv' /\ QuotaInv'
  BY <1>1 DEF MouseInv, BufferInv, LastSent, QuotaInv, ResetPending, SelfTestReplies, DataWaits,
    Quota
<1>5. ASSUME ~late' PROVE OnTimeInv'
  <2>1. WaitInv /\ ExpectsInv /\ CommandInv /\ KeptInv /\ RepliesInv /\ BufferInv
    BY <1>2, <1>5 DEF MouseInv, OnTimeInv
  <2>2. ExpectsInv' /\ CommandInv' /\ KeptInv'
    BY <1>1, <2>1 DEF ExpectsInv, CommandInv, KeptInv, Taken
  <2>3. RepliesInv'
    <3>1. Obeyed' = Obeyed /\ ReadsDone' = ReadsDone /\ KeyWaits' = KeyWaits
      BY <1>1 DEF Obeyed, ReadsDone, KeyWaits
    <3>2. Replied' = Replied /\ Unread' = Unread
      BY <1>1, <3>1 DEF Replied, Unread
    <3>3. Consumed' = Consumed
      BY <3>2 DEF Consumed
    <3> QED BY <1>1, <2>1, <3>1, <3>2, <3>3 DEF RepliesInv
  <2>4. WaitInv'
    <3>1. CASE Poll
      <4>1. waiting' = FALSE => Ready
        BY <1>0, <3>1 DEF Poll
      <4>2. Ready => /\ step \in CommandSteps \cup DataSteps => Taken
                     /\ step \in ReadSteps => ob.full
        <5>1. step \in ReadSteps <=> Reads
          BY <1>1, NextAccess
        <5>2. step \in CommandSteps \cup DataSteps => step \notin ReadSteps
          BY DEF CommandSteps, DataSteps, ReadSteps
        <5> QED BY <5>1, <5>2 DEF Ready, Taken, NoByte
      <4> QED BY <1>1, <1>2, <4>1, <4>2 DEF WaitInv, Taken
    <3>2. CASE GiveUp
      <4>1. ~UnderWay
        BY <1>5, <3>2 DEF GiveUp
      <4> QED BY <1>1, <4>1 DEF UnderWay, WaitInv, Taken, NoByte
    <3> QED BY <3>1, <3>2
  <2> QED BY <2>1, <2>2, <2>3, <2>4 DEF OnTimeInv
<1> QED BY <1>3, <1>4, <1>5 DEF MouseInv

(* The processor's steps. *)
LEMMA MainStep ==
  ASSUME MouseInv, Main
  PROVE  MouseInv'
BY WaitStep, WriteCommandStep, WriteDataStep, ReadStep DEF Main

-----------------------------------------------------------------------------
(* The controller takes a command. *)
LEMMA TakeCommandStep ==
  ASSUME MouseInv, TakeCommand
  PROVE  MouseInv'
<1>0. /\ ib.port = "command" /\ ib' = NoByte /\ Taken' /\ ~Taken
      /\ UNCHANGED <<bios, step, waiting, timeout, status, bat, reporting, replies, typed, late>>
  BY DEF TakeCommand, code, mouse, Taken, NoByte
<1>t. /\ step \in 1 .. 17 /\ BufferInv /\ typed \in Nat
      /\ command_byte \in Byte
      /\ ob \in [full : BOOLEAN, byte : Byte, src : {"controller", "keyboard", "mouse"}]
  BY TypesAre, MouseInitAssumption DEF MouseInv
<1>1. \/ /\ step = 2 /\ command_byte' = command_byte \ {5}
         /\ expects' = NoCommand /\ ob' = ob
      \/ /\ step \in 3 .. 5 /\ ~ob.full /\ ob' = Offered(command_byte, "controller")
         /\ expects' = NoCommand /\ command_byte' = command_byte
      \/ /\ step = 6 /\ expects' = WriteCommandByte /\ UNCHANGED <<command_byte, ob>>
      \/ /\ step \in {9, 12, 15} /\ expects' = ToMouse /\ UNCHANGED <<command_byte, ob>>
  <2>1. step \in {2, 3, 4, 5, 6, 9, 12, 15}
    BY <1>0, <1>t, InBuffer
  <2>2. CASE step = 2
    <3>1. ib.byte = EnableAux
      BY <1>0, <1>t, <2>2, InBuffer
    <3> QED BY <2>2, <3>1, BytesDiffer DEF TakeCommand
  <2>3. CASE step \in 3 .. 5
    <3>1. ib.byte = ReadCommandByte
      BY <1>0, <1>t, <2>3, InBuffer
    <3> QED BY <2>3, <3>1, BytesDiffer DEF TakeCommand
  <2>4. CASE step = 6
    <3>1. ib.byte = WriteCommandByte
      BY <1>0, <1>t, <2>4, InBuffer
    <3> QED BY <2>4, <3>1, BytesDiffer DEF TakeCommand
  <2>5. CASE step \in {9, 12, 15}
    <3>1. ib.byte = ToMouse
      BY <1>0, <1>t, <2>5, InBuffer
    <3> QED BY <2>5, <3>1, BytesDiffer DEF TakeCommand
  <2> QED BY <2>1, <2>2, <2>3, <2>4, <2>5
<1>2. HandshakeTypeOK'
  <2>1. command_byte' \in Byte
    BY <1>1, <1>t DEF Byte
  <2>2. ob' \in [full : BOOLEAN, byte : Byte, src : {"controller", "keyboard", "mouse"}]
    <3>1. Offered(command_byte, "controller")
            \in [full : BOOLEAN, byte : Byte, src : {"controller", "keyboard", "mouse"}]
      BY <1>t DEF Offered
    <3> QED BY <1>1, <1>t, <3>1
  <2>3. ib' \in [port : {"none", "command", "data"}, byte : Byte]
    BY <1>0 DEF NoByte, Byte
  <2>4. expects' \in {NoCommand, WriteCommandByte, ToMouse}
    BY <1>1
  <2> QED BY <1>0, <2>1, <2>2, <2>3, <2>4, TypesAre, AccessesAre DEF MouseInv, HandshakeTypeOK
<1>3. BufferInv'
  BY <1>0, <1>1, <1>t, BytesDiffer DEF BufferInv
<1>4. QuotaInv'
  <2>1. ResetPending' = ResetPending /\ Quota' = Quota /\ DataWaits' = DataWaits
        /\ SelfTestReplies' = SelfTestReplies
    BY <1>0 DEF ResetPending, Quota, DataWaits, SelfTestReplies, NoByte
  <2> QED BY <1>0, <2>1 DEF MouseInv, QuotaInv
<1>5. ASSUME ~late PROVE OnTimeInv'
  <2>1. WaitInv /\ ExpectsInv /\ CommandInv /\ KeptInv /\ RepliesInv
    BY <1>5 DEF MouseInv, OnTimeInv
  <2>2. WaitInv'
    <3>1. ~waiting => ob'.full
      BY <1>0, <1>1, <1>t, <2>1 DEF WaitInv, Offered, CommandSteps, DataSteps, ReadSteps
    <3> QED BY <1>0, <3>1 DEF WaitInv
  <2>3. ExpectsInv'
    BY <1>0, <1>1, <1>t DEF ExpectsInv
  <2>4. CommandInv'
    BY <1>0, <1>1, <1>t, <2>1 DEF CommandInv
  <2>5. KeptInv'
    BY <1>0, <1>1, <1>t, <2>1 DEF KeptInv, Offered
  <2>6. RepliesInv'
    <3>1. /\ Obeyed' = Obeyed /\ Replied' = Replied /\ ReadsDone' = ReadsDone
      BY <1>0 DEF Obeyed, Replied, ReadsDone, NoByte
    <3>2. Unread' = Unread /\ KeyWaits' = KeyWaits
      <4>1. CASE ob' = ob
        BY <1>0, <4>1 DEF Unread, KeyWaits
      <4>2. CASE ~ob.full /\ ob' = Offered(command_byte, "controller")
        BY <1>0, <4>2 DEF Unread, KeyWaits, Offered
      <4> QED BY <1>1, <4>1, <4>2
    <3>3. Consumed' = Consumed
      BY <3>1, <3>2 DEF Consumed
    <3>4. step >= 8 => ob' = ob
      BY <1>1, <1>t
    <3> QED BY <1>0, <2>1, <3>1, <3>2, <3>3, <3>4 DEF RepliesInv
  <2> QED BY <2>2, <2>3, <2>4, <2>5, <2>6 DEF OnTimeInv
<1> QED BY <1>0, <1>2, <1>3, <1>4, <1>5 DEF MouseInv


(* The same of the next state. *)
LEMMA QuotaBoundsNext ==
  ASSUME replies' \in Seq({Ack, Passed, MouseId}), QuotaInv'
  PROVE  Len(replies') <= 5
<1>1. Len(replies') \in Nat /\ (replies' = <<>> => Len(replies') = 0)
  OBVIOUS
<1>2. SelfTestReplies' \in {0, 2} /\ DataWaits' \in {0, 1} /\ Quota' \in 3 .. 5
  BY DEF SelfTestReplies, DataWaits, Quota
<1> QED BY <1>1, <1>2 DEF QuotaInv

(* When the mouse has more replies to send, as many as it owes and the next   *)
(* ones, what is unread is still the replies behind the ones taken.           *)
LEMMA RepliesGrow ==
  ASSUME replies \in Seq({Ack, Passed, MouseId}), ob.byte \in Byte, typed \in Nat,
         NEW t \in Seq({Ack, Passed, MouseId}), replies' = replies \o t,
         UNCHANGED <<ob, step, typed>>,
         RepliesInv, bat' => Obeyed' = 1,
         Replied' = Replied + Len(t),
         \A n \in 1 .. Len(t) : t[n] = AllReplies[Replied + n]
  PROVE  RepliesInv'
<1> DEFINE w == IF ob.full /\ ob.src = "mouse" THEN <<ob.byte>> ELSE <<>>
<1>1. w \in Seq(Byte) /\ replies \in Seq(Byte) /\ t \in Seq(Byte)
  <2>1. Ack \in Byte /\ Passed \in Byte /\ MouseId \in Byte
    BY BytesDiffer
  <2>2. <<ob.byte>> \in Seq(Byte) /\ <<>> \in Seq(Byte)
    OBVIOUS
  <2>3. w \in {<<ob.byte>>, <<>>}
    OBVIOUS
  <2> HIDE DEF w
  <2>4. ASSUME NEW q \in Seq({Ack, Passed, MouseId}) PROVE q \in Seq(Byte)
    <3>1. {Ack, Passed, MouseId} \subseteq Byte
      BY <2>1
    <3> QED BY <3>1, SeqMonotonic
  <2> QED BY <2>2, <2>3, <2>4
<1>2. Unread = w \o replies /\ Unread' = w \o (replies \o t)
  BY DEF Unread
<1> HIDE DEF w
<1>3. Unread' = Unread \o t /\ Unread \in Seq(Byte)
  BY <1>1, <1>2, ConcatAssociative
<1>4. /\ Len(Unread') = Len(Unread) + Len(t) /\ Len(Unread) \in Nat /\ Len(t) \in Nat
      /\ \A n \in 1 .. Len(Unread) : Unread'[n] = Unread[n]
      /\ \A n \in 1 .. Len(t) : Unread'[Len(Unread) + n] = t[n]
  <2>1. ASSUME NEW u \in Seq(Byte)
        PROVE  /\ Len(u \o t) = Len(u) + Len(t) /\ Len(u) \in Nat
               /\ \A n \in 1 .. Len(u) : (u \o t)[n] = u[n]
               /\ \A n \in 1 .. Len(t) : (u \o t)[Len(u) + n] = t[n]
    BY <1>1
  <2> QED BY <1>1, <1>3, <2>1
<1>5. Consumed' = Consumed /\ Consumed + Len(Unread) = Replied
  BY <1>4, CountsAre DEF Consumed
<1>6. ReadsDone' = ReadsDone /\ KeyWaits' = KeyWaits
  BY DEF ReadsDone, KeyWaits
<1>7. ASSUME NEW n \in 1 .. Len(Unread') PROVE Unread'[n] = AllReplies[Consumed + n]
  <2>1. CASE n <= Len(Unread)
    BY <1>4, <2>1 DEF RepliesInv
  <2>2. CASE n > Len(Unread)
    <3>1. n - Len(Unread) \in 1 .. Len(t) /\ Len(Unread) + (n - Len(Unread)) = n
      BY <1>4, <2>2
    <3>2. Unread'[n] = t[n - Len(Unread)]
      BY <1>4, <3>1
    <3>3. Replied + (n - Len(Unread)) = Consumed + n
      BY <1>4, <1>5, <3>1, CountsAre DEF RepliesInv
    <3> QED BY <3>1, <3>2, <3>3
  <2> QED BY <1>4, <2>1, <2>2
<1> QED BY <1>5, <1>6, <1>7 DEF RepliesInv

(* Data for the controller, for nobody, and for the mouse, which obeys.        *)
ForController ==
  /\ expects = WriteCommandByte /\ command_byte' = ib.byte
  /\ UNCHANGED <<bat, reporting, replies>>
ForNobody == expects = NoCommand /\ UNCHANGED <<command_byte, bat, reporting, replies>>
OneReply == <<Ack>>
ResetObeyed ==
  step \in {10, 11} /\ bat' = TRUE /\ reporting' = FALSE /\ replies' = OneReply
DefaultsObeyed ==
  step \in {13, 14} /\ bat' = FALSE /\ reporting' = FALSE /\ replies' = Append(replies, Ack)
EnableObeyed ==
  step \in {16, 17} /\ bat' = FALSE /\ reporting' = TRUE /\ replies' = Append(replies, Ack)
ForMouse ==
  /\ expects = ToMouse /\ command_byte' = command_byte /\ ~bat
  /\ ResetObeyed \/ DefaultsObeyed \/ EnableObeyed

(* The one reply as a sequence. *)
LEMMA OneReplyIs ==
  /\ OneReply \in Seq({Ack, Passed, MouseId}) /\ Len(OneReply) = 1 /\ OneReply[1] = Ack
  /\ \A q \in Seq({Ack, Passed, MouseId}) :
       /\ Append(q, Ack) = q \o OneReply
       /\ Append(q, Ack) \in Seq({Ack, Passed, MouseId}) /\ Len(Append(q, Ack)) = Len(q) + 1
  /\ <<>> \o OneReply = OneReply
<1>1. \A q \in Seq({Ack, Passed, MouseId}) : Append(q, Ack) = q \o <<Ack>>
  BY AppendIsConcat
<1> QED BY <1>1 DEF OneReply

(* Where data goes. *)
LEMMA TakeDataIs ==
  ASSUME MouseInv, TakeData
  PROVE  /\ ib.port = "data" /\ ib' = NoByte /\ Taken' /\ ~Taken /\ expects' = NoCommand
         /\ step \in {7, 8, 10, 11, 13, 14, 16, 17}
         /\ UNCHANGED <<bios, step, waiting, timeout, status, ob, typed, late>>
         /\ ForController \/ ForNobody \/ ForMouse
<1>0. /\ ib.port = "data" /\ ib' = NoByte /\ Taken' /\ ~Taken /\ expects' = NoCommand
      /\ UNCHANGED <<bios, step, waiting, timeout, status, ob, typed, late>>
  BY DEF TakeData, code, Taken, NoByte
<1>1. /\ step \in 1 .. 17 /\ BufferInv /\ expects \in {NoCommand, WriteCommandByte, ToMouse}
  BY TypesAre DEF MouseInv
<1>2. step \in {7, 8, 10, 11, 13, 14, 16, 17}
  BY <1>0, <1>1, InBuffer
<1>3. CASE expects = WriteCommandByte
  BY <1>0, <1>2, <1>3, BytesDiffer DEF TakeData, mouse, ForController
<1>4. CASE expects = NoCommand
  BY <1>0, <1>2, <1>4, BytesDiffer DEF TakeData, mouse, ForNobody
<1>5. CASE expects = ToMouse
  <2>1. Obey(ib.byte) /\ command_byte' = command_byte
    BY <1>5, BytesDiffer DEF TakeData
  <2>2. step >= 10
    BY <1>1, <1>2, <1>5 DEF BufferInv
  <2>3. /\ step \in {10, 11} => ib.byte = Reset
        /\ step \in {13, 14} => ib.byte = Defaults
        /\ step \in {16, 17} => ib.byte = Enable
    BY <1>0, <1>1, InBuffer
  <2>4. (ib.byte = Reset <=> step \in {10, 11}) /\ (ib.byte = Enable <=> step \in {16, 17})
    <3>1. CASE step \in {10, 11}
      BY <2>3, <3>1, BytesDiffer
    <3>2. CASE step \in {13, 14}
      BY <2>3, <3>2, BytesDiffer
    <3>3. CASE step \in {16, 17}
      BY <2>3, <3>3, BytesDiffer
    <3> QED BY <1>2, <2>2, <3>1, <3>2, <3>3
  <2>5. /\ ~bat /\ bat' = (ib.byte = Reset) /\ reporting' = (ib.byte = Enable)
        /\ replies' = IF ib.byte = Reset THEN <<Ack>> ELSE Append(replies, Ack)
    BY <2>1 DEF Obey
  <2>6. CASE step \in {10, 11}
    <3>1. ib.byte = Reset /\ ib.byte # Enable
      BY <2>4, <2>6, BytesDiffer
    <3>2. bat' = TRUE /\ reporting' = FALSE /\ replies' = OneReply
      BY <2>5, <3>1, Zenon DEF OneReply
    <3>3. ResetObeyed
      BY <2>6, <3>2, Zenon DEF ResetObeyed
    <3>4. ForMouse
      BY <1>5, <2>1, <2>5, <3>3 DEF ForMouse
    <3> QED BY <1>0, <1>2, <3>4
  <2>7. CASE step \in {13, 14}
    <3>1. ib.byte # Reset /\ ib.byte # Enable
      BY <2>4, <2>7
    <3>2. bat' = FALSE /\ reporting' = FALSE /\ replies' = Append(replies, Ack)
      BY <2>5, <3>1, Zenon
    <3>3. DefaultsObeyed
      BY <2>7, <3>2, Zenon DEF DefaultsObeyed
    <3>4. ForMouse
      BY <1>5, <2>1, <2>5, <3>3 DEF ForMouse
    <3> QED BY <1>0, <1>2, <3>4
  <2>8. CASE step \in {16, 17}
    <3>1. ib.byte # Reset /\ ib.byte = Enable
      BY <2>4, <2>8
    <3>2. bat' = FALSE /\ reporting' = TRUE /\ replies' = Append(replies, Ack)
      BY <2>5, <3>1, Zenon
    <3>3. EnableObeyed
      BY <2>8, <3>2, Zenon DEF EnableObeyed
    <3>4. ForMouse
      BY <1>5, <2>1, <2>5, <3>3 DEF ForMouse
    <3> QED BY <1>0, <1>2, <3>4
  <2> QED BY <1>2, <2>2, <2>6, <2>7, <2>8
<1> QED BY <1>0, <1>1, <1>2, <1>3, <1>4, <1>5

(* What the mouse does, by the number of the access. *)
LEMMA ForMouseIs ==
  ASSUME ForMouse
  PROVE  /\ ~bat /\ command_byte' = command_byte
         /\ \/ step \in {10, 11} /\ bat' = TRUE /\ replies' = OneReply
            \/ step \in {13, 14, 16, 17} /\ bat' = FALSE /\ replies' = Append(replies, Ack)
         /\ reporting' = TRUE \/ reporting' = FALSE
         /\ step \in {16, 17} => reporting' = TRUE
<1>1. ~bat /\ command_byte' = command_byte
  BY Zenon DEF ForMouse
<1>2. CASE ResetObeyed
  <2>1. step \in {10, 11} /\ bat' = TRUE /\ replies' = OneReply /\ reporting' = FALSE
    BY <1>2, Zenon DEF ResetObeyed
  <2>2. step \notin {16, 17}
    BY <2>1
  <2> QED BY <1>1, <2>1, <2>2, Zenon
<1>3. CASE DefaultsObeyed
  <2>1. step \in {13, 14} /\ bat' = FALSE /\ replies' = Append(replies, Ack) /\ reporting' = FALSE
    BY <1>3, Zenon DEF DefaultsObeyed
  <2>2. step \notin {16, 17} /\ step \in {13, 14, 16, 17}
    BY <2>1
  <2> QED BY <1>1, <2>1, <2>2, Zenon
<1>4. CASE EnableObeyed
  <2>1. step \in {16, 17} /\ bat' = FALSE /\ replies' = Append(replies, Ack) /\ reporting' = TRUE
    BY <1>4, Zenon DEF EnableObeyed
  <2>2. step \in {13, 14, 16, 17}
    BY <2>1
  <2> QED BY <1>1, <2>1, <2>2, Zenon
<1> QED BY <1>2, <1>3, <1>4, Zenon DEF ForMouse

(* The controller takes data: the device that it is for gets it. *)
LEMMA TakeDataStep ==
  ASSUME MouseInv, TakeData
  PROVE  MouseInv'
<1>0. /\ ib.port = "data" /\ ib' = NoByte /\ Taken' /\ ~Taken /\ expects' = NoCommand
      /\ step \in {7, 8, 10, 11, 13, 14, 16, 17}
      /\ UNCHANGED <<bios, step, waiting, timeout, status, ob, typed, late>>
  BY TakeDataIs
<1>1. ForController \/ ForNobody \/ ForMouse
  BY TakeDataIs
<1>t. /\ BufferInv /\ QuotaInv /\ replies \in Seq({Ack, Passed, MouseId})
      /\ ob.byte \in Byte /\ typed \in Nat
      /\ ib \in [port : {"none", "command", "data"}, byte : Byte] /\ command_byte \in Byte
      /\ bat \in BOOLEAN /\ reporting \in BOOLEAN /\ status \in Byte
  BY TypesAre, MouseInitAssumption DEF MouseInv
<1>r. /\ bat' \in BOOLEAN /\ reporting' \in BOOLEAN /\ command_byte' \in Byte
      /\ replies' = replies \/ replies' = OneReply \/ replies' = Append(replies, Ack)
  <2>1. CASE ForController
    BY <1>t, <2>1 DEF ForController
  <2>2. CASE ForNobody
    BY <1>t, <2>2 DEF ForNobody
  <2>3. CASE ForMouse
    BY <1>t, <2>3, ForMouseIs
  <2> QED BY <1>1, <2>1, <2>2, <2>3
<1>o. \/ bat' = bat /\ replies' = replies
      \/ /\ ~bat
         /\ \/ step \in {10, 11} /\ bat' = TRUE /\ replies' = OneReply
            \/ step \in {13, 14, 16, 17} /\ bat' = FALSE /\ replies' = Append(replies, Ack)
  <2>1. CASE ForController
    BY <2>1, Zenon DEF ForController
  <2>2. CASE ForNobody
    BY <2>2, Zenon DEF ForNobody
  <2>3. CASE ForMouse
    BY <2>3, ForMouseIs, Zenon
  <2> QED BY <1>1, <2>1, <2>2, <2>3
<1>2. QuotaInv'
  <2>0. /\ Len(replies) \in Nat /\ (replies = <<>> => Len(replies) = 0)
        /\ Len(OneReply) = 1 /\ Len(Append(replies, Ack)) = Len(replies) + 1
    BY <1>t, OneReplyIs
  <2>1. /\ DataWaits = 1 /\ DataWaits' = 0 /\ SelfTestReplies \in {0, 2}
        /\ SelfTestReplies' \in {0, 2} /\ (~bat => SelfTestReplies = 0)
        /\ (~bat' => SelfTestReplies' = 0) /\ (bat' = bat => SelfTestReplies' = SelfTestReplies)
    BY <1>0 DEF DataWaits, SelfTestReplies, NoByte
  <2>2. Quota' = Quota /\ Quota \in 3 .. 5
    BY <1>0 DEF Quota
  <2>3. CASE step \in {7, 8}
    <3>1. ResetPending /\ ResetPending'
      BY <1>0, <2>3 DEF ResetPending
    <3>2. UNCHANGED <<bat, replies>>
      BY <1>o, <2>3
    <3> QED BY <1>t, <3>1, <3>2 DEF QuotaInv
  <2>4. CASE step \in {10, 11}
    <3>1. ResetPending /\ ~ResetPending'
      BY <1>0, <2>4 DEF ResetPending, NoByte
    <3>2. replies' = <<>> \/ replies' = OneReply
      <4>1. replies = <<>>
        BY <1>t, <3>1 DEF QuotaInv
      <4>2. replies' = replies \/ replies' = OneReply
        BY <1>o, <2>4
      <4> QED BY <4>1, <4>2
    <3>3. Len(replies') <= 1 /\ Len(replies') \in Nat
      BY <3>2, OneReplyIs
    <3> QED BY <2>1, <2>2, <3>1, <3>3 DEF QuotaInv
  <2>5. CASE step \in {13, 14, 16, 17}
    <3>1. ~ResetPending /\ ~ResetPending'
      BY <1>0, <2>5 DEF ResetPending
    <3>2. Len(replies) + SelfTestReplies + 1 <= Quota
      BY <1>t, <2>1, <3>1 DEF QuotaInv
    <3>3. \/ replies' = replies /\ SelfTestReplies' = SelfTestReplies
          \/ replies' = Append(replies, Ack) /\ SelfTestReplies' = 0 /\ SelfTestReplies = 0
      BY <1>o, <2>1, <2>5
    <3> QED BY <2>0, <2>1, <2>2, <3>1, <3>2, <3>3 DEF QuotaInv
  <2> QED BY <1>0, <2>3, <2>4, <2>5
<1>3. HandshakeTypeOK'
  <2>1. replies' \in Seq({Ack, Passed, MouseId})
    BY <1>r, <1>t, OneReplyIs
  <2>2. Len(replies') <= 5
    BY <1>2, <2>1, QuotaBoundsNext
  <2>3. ib' \in [port : {"none", "command", "data"}, byte : Byte]
    BY <1>0 DEF NoByte, Byte
  <2>5. expects' \in {NoCommand, WriteCommandByte, ToMouse}
    BY <1>0
  <2> QED BY <1>0, <1>r, <2>1, <2>2, <2>3, <2>5, TypesAre, AccessesAre
          DEF MouseInv, HandshakeTypeOK
<1>4. BufferInv'
  BY <1>0, BytesDiffer DEF BufferInv
<1>5. ASSUME ~late PROVE OnTimeInv'
  <2>1. WaitInv /\ ExpectsInv /\ CommandInv /\ KeptInv /\ RepliesInv
    BY <1>5 DEF MouseInv, OnTimeInv
  <2>2. WaitInv'
    <3>1. ~waiting => step \notin ReadSteps \/ ob.full
      BY <1>0, <2>1 DEF WaitInv
    <3> QED BY <1>0, <3>1 DEF WaitInv
  <2>3. ExpectsInv'
    BY <1>0 DEF ExpectsInv
  <2>4. CASE step \in {7, 8}
    <3>1. /\ command_byte' = Patched(status) /\ UNCHANGED <<bat, reporting, replies>>
      <4>1. expects = WriteCommandByte
        BY <1>0, <2>1, <2>4 DEF ExpectsInv
      <4>2. ib.byte = Patched(status)
        BY <1>0, <1>t, <2>4, InBuffer
      <4> QED BY <1>1, <4>1, <4>2, BytesDiffer DEF ForController, ForNobody, ForMouse
    <3>2. CommandInv'
      BY <1>0, <1>t, <2>4, <3>1, PatchedIs DEF CommandInv
    <3>3. KeptInv'
      BY <1>0, <2>1, <2>4, <3>1 DEF KeptInv
    <3>4. RepliesInv'
      <4>1. Obeyed' = 0 /\ Obeyed = 0 /\ ReadsDone' = ReadsDone
        BY <1>0, <2>4 DEF Obeyed, ReadsDone
      <4>2. Replied' = Replied /\ Unread' = Unread /\ KeyWaits' = KeyWaits
        BY <1>0, <3>1, <4>1 DEF Replied, Unread, KeyWaits
      <4>3. Consumed' = Consumed
        BY <4>2 DEF Consumed
      <4> QED BY <1>0, <2>1, <3>1, <4>1, <4>2, <4>3 DEF RepliesInv
    <3> QED BY <2>2, <2>3, <3>2, <3>3, <3>4 DEF OnTimeInv
  <2>5. CASE step \in {10, 11, 13, 14, 16, 17}
    <3>0. /\ command_byte' = command_byte /\ ~bat
          /\ \/ step \in {10, 11} /\ bat' = TRUE /\ replies' = OneReply
             \/ step \in {13, 14, 16, 17} /\ bat' = FALSE /\ replies' = Append(replies, Ack)
          /\ step \in {16, 17} => reporting' = TRUE
      <4>1. expects = ToMouse
        BY <1>0, <2>1, <2>5 DEF ExpectsInv
      <4>2. ForMouse
        BY <1>1, <4>1, BytesDiffer DEF ForController, ForNobody
      <4> QED BY <4>2, ForMouseIs
    <3>2. CommandInv'
      BY <1>0, <2>1, <2>5, <3>0 DEF CommandInv
    <3>3. KeptInv'
      BY <1>0, <2>1, <2>5, <3>0 DEF KeptInv
    <3>4. RepliesInv'
      <4>1. replies' = replies \o OneReply
        <5>1. CASE step \in {10, 11}
          <6>1. replies = <<>>
            BY <1>0, <1>t, <5>1 DEF QuotaInv, ResetPending
          <6>2. replies' = OneReply
            BY <3>0, <5>1
          <6> QED BY <6>1, <6>2, OneReplyIs
        <5>2. CASE step \notin {10, 11}
          <6>1. replies' = Append(replies, Ack)
            BY <3>0, <5>2
          <6> QED BY <1>t, <6>1, OneReplyIs
        <5> QED BY <5>1, <5>2
      <4>2. bat' => Obeyed' = 1
        BY <1>0, <2>5, <3>0 DEF Obeyed, NoByte
      <4>3. /\ Replied' = Replied + 1 /\ AllReplies[Replied + 1] = Ack
        BY <1>0, <2>5, <3>0 DEF Replied, Obeyed, NoByte, AllReplies
      <4>4. /\ Replied' = Replied + Len(OneReply)
            /\ \A n \in 1 .. Len(OneReply) : OneReply[n] = AllReplies[Replied + n]
        BY <4>3, OneReplyIs
      <4> QED BY <1>0, <1>t, <2>1, <4>1, <4>2, <4>4, OneReplyIs, RepliesGrow
    <3> QED BY <2>2, <2>3, <3>2, <3>3, <3>4 DEF OnTimeInv
  <2> QED BY <1>0, <2>4, <2>5
<1> QED BY <1>0, <1>2, <1>3, <1>4, <1>5 DEF MouseInv


(* What the mouse sends after its self-test. *)
Results == <<Passed, MouseId>>
(* They are two of its replies. *)
LEMMA ResultsAre ==
  /\ Results \in Seq({Ack, Passed, MouseId}) /\ Len(Results) = 2
  /\ Results[1] = Passed /\ Results[2] = MouseId
  /\ \A q \in Seq({Ack, Passed, MouseId}) :
       /\ q \o Results \in Seq({Ack, Passed, MouseId})
       /\ Len(q \o Results) = Len(q) + 2
BY DEF Results

(* The mouse ends its self-test: the budget has room for what it sends. *)
LEMMA SelfTestStep ==
  ASSUME MouseInv, SelfTest
  PROVE  MouseInv'
<1>0. /\ bat /\ bat' = FALSE /\ replies' = replies \o Results
      /\ UNCHANGED <<bios, step, waiting, timeout, status, ib, expects, command_byte, ob,
                     reporting, typed, late>>
  BY DEF SelfTest, code, Results
<1>t. /\ BufferInv /\ QuotaInv /\ replies \in Seq({Ack, Passed, MouseId})
      /\ ob.byte \in Byte /\ typed \in Nat /\ step \in 1 .. 17
  BY TypesAre, MouseInitAssumption DEF MouseInv
<1>2. QuotaInv'
  <2>1. ~ResetPending /\ ResetPending' = ResetPending
    BY <1>0, <1>t DEF QuotaInv, ResetPending
  <2>2. SelfTestReplies = 2 /\ SelfTestReplies' = 0
    BY <1>0 DEF SelfTestReplies
  <2>3. DataWaits' = DataWaits /\ DataWaits \in {0, 1} /\ Quota' = Quota /\ Quota \in 3 .. 5
    BY <1>0 DEF DataWaits, Quota
  <2>4. Len(replies') = Len(replies) + 2 /\ Len(replies) \in Nat
    BY <1>0, <1>t, ResultsAre
  <2> QED BY <1>t, <2>1, <2>2, <2>3, <2>4 DEF QuotaInv
<1>3. HandshakeTypeOK'
  <2>1. replies' \in Seq({Ack, Passed, MouseId})
    BY <1>0, <1>t, ResultsAre
  <2>2. Len(replies') <= 5
    BY <1>2, <2>1, QuotaBoundsNext
  <2> QED BY <1>0, <2>1, <2>2, TypesAre, AccessesAre DEF MouseInv, HandshakeTypeOK
<1>4. BufferInv'
  BY <1>0, <1>t DEF BufferInv, LastSent
<1>5. ASSUME ~late PROVE OnTimeInv'
  <2>1. WaitInv /\ ExpectsInv /\ CommandInv /\ KeptInv /\ RepliesInv
    BY <1>5 DEF MouseInv, OnTimeInv
  <2>2. WaitInv'
    BY <1>0, <2>1 DEF WaitInv, Taken
  <2>3. ExpectsInv' /\ CommandInv' /\ KeptInv'
    BY <1>0, <2>1 DEF ExpectsInv, CommandInv, KeptInv, Taken
  <2>4. RepliesInv'
    <3>1. Obeyed = 1
      BY <1>0, <2>1 DEF RepliesInv
    <3>2. Obeyed' = 1
      BY <1>0, <3>1 DEF Obeyed
    <3>3. Replied = 1 /\ Replied' = 3
      BY <1>0, <3>1, <3>2 DEF Replied
    <3>4. AllReplies[2] = Passed /\ AllReplies[3] = MouseId
      BY DEF AllReplies
    <3>5. /\ Replied' = Replied + Len(Results)
          /\ \A n \in 1 .. Len(Results) : Results[n] = AllReplies[Replied + n]
      BY <3>3, <3>4, ResultsAre
    <3> QED BY <1>0, <1>t, <2>1, <3>2, <3>5, ResultsAre, RepliesGrow
  <2> QED BY <2>1, <2>2, <2>3, <2>4 DEF OnTimeInv
<1> QED BY <1>0, <1>2, <1>3, <1>4, <1>5 DEF MouseInv

(* The mouse sends: what is unread stays the same. *)
LEMMA DeliverStep ==
  ASSUME MouseInv, Deliver
  PROVE  MouseInv'
<1>0. /\ replies # <<>> /\ ~ob.full
      /\ ob' = Offered(Head(replies), "mouse") /\ replies' = Tail(replies)
      /\ UNCHANGED <<bios, step, waiting, timeout, status, ib, expects, command_byte, bat,
                     reporting, typed, late>>
  BY DEF Deliver, code
<1>t. /\ BufferInv /\ QuotaInv /\ replies \in Seq({Ack, Passed, MouseId})
      /\ typed \in Nat /\ step \in 1 .. 17 /\ Len(replies) <= 5
  BY TypesAre, MouseInitAssumption DEF MouseInv
<1>h. /\ Head(replies) \in {Ack, Passed, MouseId} /\ Tail(replies) \in Seq({Ack, Passed, MouseId})
      /\ Len(Tail(replies)) = Len(replies) - 1 /\ Len(replies) \in Nat
      /\ <<Head(replies)>> \o Tail(replies) = replies /\ <<>> \o replies = replies
  BY <1>0, <1>t
<1>1. ~ResetPending /\ step >= 10
  BY <1>0, <1>t DEF QuotaInv, ResetPending
<1>2. QuotaInv'
  <2>1. ~ResetPending'
    BY <1>0, <1>1 DEF ResetPending
  <2>2. SelfTestReplies' = SelfTestReplies /\ SelfTestReplies \in {0, 2}
    BY <1>0 DEF SelfTestReplies
  <2>3. DataWaits' = DataWaits /\ DataWaits \in {0, 1} /\ Quota' = Quota /\ Quota \in 3 .. 5
    BY <1>0 DEF DataWaits, Quota
  <2>4. Len(replies') = Len(replies) - 1
    BY <1>0, <1>h
  <2> QED BY <1>t, <1>h, <1>1, <2>1, <2>2, <2>3, <2>4 DEF QuotaInv
<1>o. /\ ob'.full /\ ob'.src = "mouse" /\ ob'.byte = Head(replies)
      /\ ob' \in [full : BOOLEAN, byte : Byte, src : {"controller", "keyboard", "mouse"}]
  <2>1. Head(replies) \in Byte
    BY <1>h, BytesDiffer
  <2> QED BY <1>0, <2>1 DEF Offered
<1>3. HandshakeTypeOK'
  <2>1. replies' \in Seq({Ack, Passed, MouseId}) /\ Len(replies') <= 5
    BY <1>0, <1>t, <1>h
  <2> QED BY <1>0, <1>o, <2>1, TypesAre, AccessesAre DEF MouseInv, HandshakeTypeOK
<1>4. BufferInv'
  BY <1>0, <1>t DEF BufferInv, LastSent
<1>5. ASSUME ~late PROVE OnTimeInv'
  <2>1. WaitInv /\ ExpectsInv /\ CommandInv /\ KeptInv /\ RepliesInv
    BY <1>5 DEF MouseInv, OnTimeInv
  <2>2. WaitInv'
    BY <1>0, <1>o, <2>1 DEF WaitInv, Taken
  <2>3. ExpectsInv' /\ CommandInv'
    BY <1>0, <2>1 DEF ExpectsInv, CommandInv, Taken
  <2>4. KeptInv'
    BY <1>0, <1>1, <1>t, <2>1 DEF KeptInv, Taken
  <2>5. RepliesInv'
    <3>1. Unread = replies /\ Unread' = replies
      <4>1. Unread = <<>> \o replies
        BY <1>0 DEF Unread
      <4>2. Unread' = <<Head(replies)>> \o Tail(replies)
        BY <1>0, <1>o DEF Unread
      <4> QED BY <1>h, <4>1, <4>2
    <3>2. Obeyed' = Obeyed /\ ReadsDone' = ReadsDone
      BY <1>0 DEF Obeyed, ReadsDone
    <3>3. Replied' = Replied
      BY <1>0, <3>2 DEF Replied
    <3>4. Consumed' = Consumed /\ KeyWaits = 0 /\ KeyWaits' = 0
      BY <1>0, <1>o, <3>1, <3>3 DEF Consumed, KeyWaits
    <3> QED BY <1>0, <1>o, <2>1, <3>1, <3>2, <3>4 DEF RepliesInv
  <2> QED BY <2>2, <2>3, <2>4, <2>5 DEF OnTimeInv
<1> QED BY <1>0, <1>2, <1>3, <1>4, <1>5 DEF MouseInv

(* A key is typed. *)
LEMMA TypeStep ==
  ASSUME MouseInv, NEW scancode \in Scancodes, Type(scancode)
  PROVE  MouseInv'
<1>0. /\ typed < MaxKeys /\ ~ob.full
      /\ ob' = Offered(scancode, "keyboard") /\ typed' = typed + 1
      /\ UNCHANGED <<bios, step, waiting, timeout, status, ib, expects, command_byte, bat,
                     reporting, replies, late>>
  BY DEF Type, code, mouse
<1>t. /\ BufferInv /\ QuotaInv /\ replies \in Seq({Ack, Passed, MouseId})
      /\ typed \in 0 .. MaxKeys /\ MaxKeys \in Nat /\ step \in 1 .. 17
      /\ scancode \in Byte
  BY TypesAre, MouseInitAssumption DEF MouseInv
<1>o. /\ ob'.full /\ ob'.src = "keyboard" /\ typed' \in 0 .. MaxKeys /\ typed' > 0
      /\ ob' \in [full : BOOLEAN, byte : Byte, src : {"controller", "keyboard", "mouse"}]
  BY <1>0, <1>t DEF Offered
<1>2. QuotaInv' /\ BufferInv'
  BY <1>0, <1>t DEF QuotaInv, ResetPending, SelfTestReplies, DataWaits, Quota, BufferInv, LastSent
<1>3. HandshakeTypeOK'
  BY <1>0, <1>o, TypesAre, AccessesAre DEF MouseInv, HandshakeTypeOK
<1>5. ASSUME ~late PROVE OnTimeInv'
  <2>1. WaitInv /\ ExpectsInv /\ CommandInv /\ KeptInv /\ RepliesInv
    BY <1>5 DEF MouseInv, OnTimeInv
  <2>2. WaitInv'
    BY <1>0, <1>o, <2>1 DEF WaitInv, Taken
  <2>3. ExpectsInv' /\ CommandInv'
    BY <1>0, <2>1 DEF ExpectsInv, CommandInv, Taken
  <2>4. KeptInv'
    BY <1>o DEF KeptInv
  <2>5. RepliesInv'
    <3>1. Unread' = Unread
      BY <1>0, <1>o DEF Unread
    <3>2. Obeyed' = Obeyed /\ ReadsDone' = ReadsDone
      BY <1>0 DEF Obeyed, ReadsDone
    <3>3. Replied' = Replied
      BY <1>0, <3>2 DEF Replied
    <3>4. Consumed' = Consumed /\ KeyWaits = 0 /\ KeyWaits' = 1
      BY <1>0, <1>o, <3>1, <3>3 DEF Consumed, KeyWaits
    <3>5. Consumed \in 0 .. ReadsDone /\ ReadsDone <= Consumed + typed /\ ReadsDone \in Nat
      BY <1>t, <2>1, <3>4, CountsAre DEF RepliesInv
    <3>6. Consumed' \in 0 .. ReadsDone' /\ ReadsDone' <= Consumed' + typed' - KeyWaits'
      BY <1>0, <1>t, <3>2, <3>4, <3>5
    <3> QED BY <1>0, <1>o, <2>1, <3>1, <3>2, <3>4, <3>6 DEF RepliesInv
  <2> QED BY <2>2, <2>3, <2>4, <2>5 DEF OnTimeInv
<1> QED BY <1>0, <1>2, <1>3, <1>5 DEF MouseInv

-----------------------------------------------------------------------------
(* When init_mouse is called. *)
LEMMA InitMouseInv == HandshakeInit => MouseInv
<1> SUFFICES ASSUME HandshakeInit PROVE MouseInv
  OBVIOUS
<1>1. /\ bios \in BiosBytes /\ step = 1 /\ waiting = TRUE /\ timeout = Polls /\ status = {}
      /\ ib = NoByte /\ expects = NoCommand /\ command_byte = bios
      /\ ob = [full |-> FALSE, byte |-> {}, src |-> "keyboard"]
      /\ bat = FALSE /\ reporting = FALSE /\ replies = <<>> /\ typed = 0 /\ late = FALSE
  BY DEF HandshakeInit
<1>2. HandshakeTypeOK
  <2>1. bios \in Byte /\ {} \in Byte /\ timeout \in 0 .. Polls /\ typed \in 0 .. MaxKeys
    BY <1>1, MouseInitAssumption DEF Byte
  <2>2. ib \in [port : {"none", "command", "data"}, byte : Byte]
    BY <1>1, <2>1 DEF NoByte
  <2>3. ob \in [full : BOOLEAN, byte : Byte, src : {"controller", "keyboard", "mouse"}]
    BY <1>1, <2>1
  <2>4. replies \in Seq({Ack, Passed, MouseId}) /\ Len(replies) <= 5
    BY <1>1
  <2>5. /\ bios \in BiosBytes /\ step \in 1 .. 17 /\ waiting \in BOOLEAN /\ status \in Byte
        /\ expects \in {NoCommand, WriteCommandByte, ToMouse} /\ command_byte \in Byte
        /\ bat \in BOOLEAN /\ reporting \in BOOLEAN /\ late \in BOOLEAN
    <3>1. step \in 1 .. 17
      BY <1>1
    <3>2. waiting \in BOOLEAN /\ bat \in BOOLEAN /\ reporting \in BOOLEAN /\ late \in BOOLEAN
      BY <1>1, Zenon
    <3>3. /\ bios \in BiosBytes /\ status \in Byte /\ command_byte \in Byte
          /\ expects \in {NoCommand, WriteCommandByte, ToMouse}
      BY <1>1, <2>1, Zenon
    <3> QED BY <3>1, <3>2, <3>3
  <2> QED BY <2>1, <2>2, <2>3, <2>4, <2>5, TypesAre
<1>3. BufferInv /\ QuotaInv
  BY <1>1, BytesDiffer DEF BufferInv, QuotaInv, ResetPending
<1>4. Taken /\ ~ob.full /\ ib.port # "data"
  BY <1>1 DEF Taken, NoByte
<1>5. WaitInv /\ ExpectsInv /\ CommandInv /\ KeptInv
  BY <1>1, <1>4 DEF WaitInv, ExpectsInv, CommandInv, KeptInv
<1>6. RepliesInv
  <2>1. Unread = <<>>
    BY <1>1, <1>4 DEF Unread
  <2>2. Len(Unread) = 0 /\ Replied = 0 /\ ReadsDone = 0 /\ KeyWaits = 0
    BY <1>1, <1>4, <2>1 DEF Replied, Obeyed, ReadsDone, KeyWaits
  <2> QED BY <1>1, <2>2 DEF RepliesInv, Consumed
<1> QED BY <1>2, <1>3, <1>5, <1>6 DEF MouseInv, OnTimeInv

(* Nothing changes. *)
LEMMA StutterMouse == MouseInv /\ UNCHANGED handshakeVars => MouseInv'
<1> SUFFICES ASSUME MouseInv, UNCHANGED handshakeVars PROVE MouseInv'
  OBVIOUS
<1>1. UNCHANGED <<bios, step, waiting, timeout, status, ib, expects, command_byte, ob, bat,
                  reporting, replies, typed, late>>
  BY DEF handshakeVars, code, mouse
<1>2. HandshakeTypeOK'
  BY <1>1 DEF MouseInv, HandshakeTypeOK
<1>3. BufferInv' /\ QuotaInv'
  BY <1>1 DEF MouseInv, BufferInv, LastSent, QuotaInv, ResetPending, SelfTestReplies, DataWaits,
    Quota
<1>4. WaitInv' = WaitInv /\ ExpectsInv' = ExpectsInv /\ CommandInv' = CommandInv
      /\ KeptInv' = KeptInv
  BY <1>1 DEF WaitInv, ExpectsInv, CommandInv, KeptInv, Taken
<1>5. Obeyed' = Obeyed /\ ReadsDone' = ReadsDone /\ KeyWaits' = KeyWaits /\ Unread' = Unread
  BY <1>1 DEF Obeyed, ReadsDone, KeyWaits, Unread
<1>6. Consumed' = Consumed
  BY <1>1, <1>5 DEF Consumed, Replied
<1>7. RepliesInv => RepliesInv'
  BY <1>1, <1>5, <1>6 DEF RepliesInv
<1> QED BY <1>1, <1>2, <1>3, <1>4, <1>7 DEF MouseInv, OnTimeInv

(* The invariant is inductive. *)
LEMMA MouseStep == MouseInv /\ [HandshakeNext]_handshakeVars => MouseInv'
<1> SUFFICES ASSUME MouseInv, [HandshakeNext]_handshakeVars PROVE MouseInv'
  OBVIOUS
<1>1. CASE Main
  BY <1>1, MainStep
<1>2. CASE TakeCommand
  BY <1>2, TakeCommandStep
<1>3. CASE TakeData
  BY <1>3, TakeDataStep
<1>4. CASE SelfTest
  BY <1>4, SelfTestStep
<1>5. CASE Deliver
  BY <1>5, DeliverStep
<1>6. CASE \E scancode \in Scancodes : Type(scancode)
  BY <1>6, TypeStep
<1>7. CASE UNCHANGED handshakeVars
  BY <1>7, StutterMouse
<1> QED BY <1>1, <1>2, <1>3, <1>4, <1>5, <1>6, <1>7 DEF HandshakeNext, Devices

(* It holds in every state. *)
LEMMA MouseInvariant == HandshakeSpec => []MouseInv
BY InitMouseInv, MouseStep, PTL DEF HandshakeSpec

(* The types: `timeout' never falls below zero, and the mouse never has more  *)
(* than its five replies to send (mouse.h:6-22, 52-59).                       *)
THEOREM HandshakeTypeCorrect == HandshakeSpec => []HandshakeTypeOK
<1>1. MouseInv => HandshakeTypeOK
  BY DEF MouseInv
<1> QED BY <1>1, MouseInvariant, PTL

(* What a settled handshake means. *)
LEMMA SettledIs ==
  ASSUME MouseInv, Settled
  PROVE  /\ step = 17 /\ Taken /\ ~bat /\ ib.port # "data"
         /\ CommandInv /\ KeptInv /\ RepliesInv
BY AccessesAre DEF Settled, Ended, MouseInv, OnTimeInv, Taken, NoByte

(* If no wait gave up too early, the mouse reports and is listened to         *)
(* (mouse.h:46-59).                                                           *)
THEOREM MouseReportsCorrect == HandshakeSpec => []MouseReports
<1>1. MouseInv => MouseReports
  BY SettledIs DEF MouseReports, CommandInv
<1> QED BY <1>1, MouseInvariant, PTL

(* The other bits of the command byte are the ones the BIOS set, unless a     *)
(* scancode was taken for them (mouse.h:40-50).                               *)
THEOREM CommandByteKeptCorrect == HandshakeSpec => []CommandByteKept
<1>1. MouseInv => CommandByteKept
  <2>1. Patched(bios \ {5}) = (bios \cup {1}) \ {5}
    BY DEF Patched
  <2> QED BY <2>1, SettledIs DEF CommandByteKept, KeptInv
<1> QED BY <1>1, MouseInvariant, PTL

(* What init_mouse leaves unread are the last replies, two and as many more   *)
(* as scancodes were read in their place (mouse.h:52-59).                     *)
THEOREM UnreadAreLastCorrect == HandshakeSpec => []UnreadAreLast
<1>1. ASSUME MouseInv, Settled
      PROVE  /\ Len(Unread) \in 2 .. 2 + typed
             /\ Unread = SubSeq(AllReplies, 6 - Len(Unread), 5)
  <2>1. /\ step = 17 /\ Taken /\ ~bat /\ ib.port # "data" /\ RepliesInv
        /\ replies \in Seq({Ack, Passed, MouseId}) /\ typed \in Nat
        /\ ob.byte \in Byte
    BY <1>1, SettledIs, TypesAre, MouseInitAssumption DEF MouseInv
  <2>2. Replied = 5 /\ ReadsDone = 3 /\ KeyWaits \in {0, 1} /\ Len(Unread) \in Nat
    BY <2>1, UnreadIs, CountsAre DEF Replied, Obeyed, ReadsDone
  <2>3. /\ Consumed = 5 - Len(Unread) /\ Consumed \in 0 .. 3
        /\ 3 <= Consumed + typed - KeyWaits
    <3>1. Consumed \in 0 .. ReadsDone /\ ReadsDone <= Consumed + typed - KeyWaits
      BY <2>1 DEF RepliesInv
    <3> QED BY <2>2, <3>1 DEF Consumed
  <2>4. Len(Unread) \in 2 .. 2 + typed /\ Len(Unread) \in 2 .. 5
    <3> DEFINE c == Consumed
               l == Len(Unread)
    <3>1. c = 5 - l /\ c \in 0 .. 3 /\ 3 <= c + typed - KeyWaits /\ l \in Nat
      BY <2>2, <2>3
    <3> HIDE DEF c, l
    <3>2. l \in 2 .. 2 + typed /\ l \in 2 .. 5
      BY <2>1, <2>2, <3>1
    <3> QED BY <3>2 DEF l
  <2>5. Unread \in Seq(Byte)
    <3>1. {Ack, Passed, MouseId} \subseteq Byte
      BY BytesDiffer
    <3>2. replies \in Seq(Byte)
      BY <2>1, <3>1, SeqMonotonic
    <3> QED BY <2>1, <3>2 DEF Unread
  <2>6. AllReplies \in Seq(Byte) /\ Len(AllReplies) = 5
    BY BytesDiffer DEF AllReplies
  <2> DEFINE from == 6 - Len(Unread)
  <2>7. from \in 1 .. 4 /\ (5 - from) + 1 = Len(Unread)
    <3> DEFINE l == Len(Unread)
    <3>1. l \in 2 .. 5
      BY <2>4
    <3> HIDE DEF l
    <3>2. 6 - l \in 1 .. 4 /\ (5 - (6 - l)) + 1 = l
      BY <3>1
    <3> QED BY <3>2 DEF l
  <2>8. /\ SubSeq(AllReplies, from, 5) \in Seq(Byte)
        /\ Len(SubSeq(AllReplies, from, 5)) = Len(Unread)
        /\ \A n \in 1 .. Len(Unread) : SubSeq(AllReplies, from, 5)[n] = AllReplies[from + n - 1]
    <3> HIDE DEF from
    <3> QED BY <2>6, <2>7, SubSeqProperties
  <2>9. \A n \in 1 .. Len(Unread) : Unread[n] = SubSeq(AllReplies, from, 5)[n]
    <3>1. \A n \in 1 .. Len(Unread) : Consumed + n = from + n - 1
      BY <2>2, <2>3
    <3> HIDE DEF from
    <3> QED BY <2>1, <2>8, <3>1 DEF RepliesInv
  <2>10. Unread = SubSeq(AllReplies, from, 5)
    <3> HIDE DEF from
    <3> QED BY <2>5, <2>8, <2>9, SeqEqual
  <2> QED BY <2>4, <2>10
<1>2. MouseInv => UnreadAreLast
  BY <1>1 DEF UnreadAreLast
<1> QED BY <1>2, MouseInvariant, PTL

=============================================================================
