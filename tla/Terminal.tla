------------------------------- MODULE Terminal -------------------------------
(***************************************************************************)
(* The command loop of Kernel/terminal.h:70-170 with strlen and strcmp     *)
(* (string.h), what get_key makes of a key (mstdio.h:244-267), the OS_INFO *)
(* words it reads and writes (util.h:101-151), and what mem reports        *)
(* (terminal.h:6-68).                                                      *)
(*                                                                         *)
(* Interrupt handlers touch nothing of this state, so one command, from    *)
(* its return key to the next prompt, is one step.  OS_INFO is the address *)
(* the linker gives `end'; in the image that the Makefile builds the word  *)
(* two below it is moca_pmm.used_blocks.                                   *)
(***************************************************************************)
EXTENDS Integers, Sequences, Numbers

CONSTANTS
  Letters,  \* 'a' to 'z'
  H,        \* the letter whose shifted code is that of the Up key
  NUL,      \* 0
  Names,    \* the names terminal() compares with, by command
  BufLen,   \* 25, the size of string; bound: no longer line is typed
  Memories, \* what may be found: the E820 table, moca_pmm.max_blocks and used_blocks
  UInt      \* 2^32

Commands == {"mem", "status", "init", "reboot", "clear"}

ASSUME TerminalAssumption ==
  /\ H \in Letters /\ NUL \notin Letters
  /\ Names \in [Commands -> Seq(Letters)]
  /\ \A c, d \in Commands : c # d => Names[c] # Names[d]
  /\ BufLen \in Nat \ {0} /\ UInt \in Nat \ {0}
  /\ \A m \in Memories :
       /\ m.smap \in Seq([type : Nat, base : Nat, length : Nat]) /\ m.smap # <<>>
       /\ m.max_blocks \in 0 .. UInt - 1 /\ m.used_blocks \in 0 .. UInt - 1

VARIABLES
  string,          \* the line buffer
  length,
  word,            \* 32-bit words by their distance from OS_INFO
  L_OS_INFO_ADDR,  \* the same distance
  machine,         \* "running", "halted" or "reset"
  memory,          \* the table and the counters that bring-up has left
  report,          \* what the last mem has printed
  typed,           \* history: letters since the last return key
  ran,             \* history: what the last return key made it do ...
  line,            \* ... and what had been typed
  pressed          \* history: the last key

vars == <<string, length, word, L_OS_INFO_ADDR, machine, memory, report, typed, ran, line,
          pressed>>

(* A definition X_... just above a definition X is a faulty variant of it     *)
(* that the code does not contain: the properties must tell the two apart.    *)

-----------------------------------------------------------------------------
EMPTY == "EMPTY"
INITIAL_STATE == "INITIAL_STATE"
INTERRUPTS_ENABLED == "INTERRUPTS_ENABLED"
Zero == "0"
BlockCount == "a number of blocks"
Words == {EMPTY, INITIAL_STATE, INTERRUPTS_ENABLED, Zero, BlockCount}

UsedBlocks == -2              \* the word init reaches below OS_INFO
OsInfo == {0, 2, 4}           \* the words the status command steps through

(* A key with what it sends: a letter, a shifted letter, and three more. *)
Plain(l) == <<"plain", l>>
Shifted(l) == <<"shifted", l>>
UpKey == <<"up">>
ReturnKey == <<"return">>
OtherKey == <<"other">>       \* digits, space, backspace, ...: get no answer
Keys == {Plain(l) : l \in Letters} \cup {Shifted(l) : l \in Letters}
        \cup {UpKey, ReturnKey, OtherKey}

(* get_key: a shifted letter is its capital, and 'H' = 0x48. *)
IsUp(key) == key \in {UpKey, Shifted(H)}

-----------------------------------------------------------------------------
CString(name) == [k \in 0 .. Len(name) |-> IF k < Len(name) THEN name[k + 1] ELSE NUL]

strlen(str) ==
  CHOOSE n \in DOMAIN str : str[n] = NUL /\ \A m \in 0 .. n - 1 : str[m] # NUL

strcmp_Prefix(str1, str2) ==
  IF \E k \in 0 .. strlen(str1) - 1 : str1[k] # str2[k] THEN 1 ELSE 0
strcmp(str1, str2) ==
  IF strlen(str1) # strlen(str2) THEN 1
  ELSE IF \E k \in 0 .. strlen(str1) - 1 : str1[k] # str2[k] THEN 1 ELSE 0

Is(command) == strcmp(string, CString(Names[command])) = 0

-----------------------------------------------------------------------------
(* kernel_main marks the initial state (kernel.c:101); behind the image the   *)
(* disk's padding is zero.                                                    *)
Init ==
  /\ string = [k \in 0 .. BufLen - 1 |-> NUL]
  /\ length = 0
  /\ word = [a \in {UsedBlocks} \cup OsInfo |->
               CASE a = UsedBlocks -> BlockCount
                 [] a = 0 -> INITIAL_STATE
                 [] OTHER -> Zero]
  /\ L_OS_INFO_ADDR = 0
  /\ machine = "running"
  /\ memory \in Memories /\ report = <<>>
  /\ typed = <<>>
  /\ ran = "nothing" /\ line = <<>>
  /\ pressed = OtherKey

(* Any key but a letter, the return key and what passes for Up is ignored.    *)
IgnoreKey ==
  /\ machine = "running"
  /\ pressed' \in Keys \ ({Plain(l) : l \in Letters} \cup {ReturnKey})
  /\ ~IsUp(pressed')
  /\ UNCHANGED <<string, length, word, L_OS_INFO_ADDR, machine, typed, ran, line, memory, report>>

TypeLetter(l) ==
  /\ machine = "running"
  /\ length < BufLen - 1
  /\ pressed' = Plain(l)
  /\ string' = [string EXCEPT ![length] = l]
  /\ length' = length + 1
  /\ typed' = Append(typed, l)
  /\ UNCHANGED <<word, L_OS_INFO_ADDR, machine, ran, line, memory, report>>

(* Prints "Up" and executes cli; hlt. *)
HaltOnUp ==
  /\ machine = "running"
  /\ \E key \in {k \in Keys : IsUp(k)} : pressed' = key
  /\ machine' = "halted"
  /\ UNCHANGED <<string, length, word, L_OS_INFO_ADDR, typed, ran, line, memory, report>>

-----------------------------------------------------------------------------
(* The end of a command: the letters in the buffer are erased.                *)
ClearLine == string' = [k \in DOMAIN string |->
                          IF k < length THEN NUL ELSE string[k]]
Finish ==
  /\ ClearLine
  /\ length' = 0
  /\ typed' = <<>>
  /\ line' = typed
  /\ pressed' = ReturnKey

(* The commands that leave the kernel's words alone; status reads OS_INFO up  *)
(* to the first word it does not know.                                        *)
RunReader(command) ==
  /\ machine = "running"
  /\ command \in {"status", "clear"}
  /\ Is(command)
  /\ ran' = command
  /\ Finish
  /\ UNCHANGED <<word, L_OS_INFO_ADDR, machine, memory, report>>

(* print_mem_info.  The counter is read where init may have left its mark;    *)
(* the "Total" is the end of the last entry.                                  *)
Label(type) ==
  CASE type = 1 -> "AVAILABLE" [] type = 3 -> "ACPI Reclaimed"
    [] type = 4 -> "ACPI NVS Memory" [] OTHER -> "RESERVED"

UsedNow == IF word[UsedBlocks] = INTERRUPTS_ENABLED THEN 6912 % UInt ELSE memory.used_blocks

print_mem_info ==
  LET smap == memory.smap
      last == smap[Len(smap)]
      available == (memory.max_blocks - UsedNow) % UInt
  IN [rows |-> [k \in DOMAIN smap |->
                  [label |-> Label(smap[k].type), number |-> PrintHex(k - 1),
                   base |-> PrintHex(smap[k].base % UInt),
                   length |-> PrintHex(smap[k].length % UInt)]],
      total |-> PrintHex((last.base + last.length - 1) % UInt),
      blocks |-> PrintHex(memory.max_blocks), used |-> PrintHex(UsedNow),
      available |-> PrintHex(available), MB |-> PrintNum(available \div 1024)]

RunMem ==
  /\ machine = "running"
  /\ Is("mem")
  /\ ran' = "mem"
  /\ report' = print_mem_info
  /\ Finish
  /\ UNCHANGED <<word, L_OS_INFO_ADDR, machine, memory>>

(* init: L_OS_INFO_ADDR goes down by two, a mark is put there, and up again.  *)
PtrAfter_NotRestored(ptr) == ptr - 2
PtrAfter(ptr) == (ptr - 2) + 2

RunInit ==
  /\ machine = "running"
  /\ Is("init")
  /\ IF word[0] = INTERRUPTS_ENABLED
       THEN UNCHANGED <<word, L_OS_INFO_ADDR>>
       ELSE /\ word' = [word EXCEPT ![L_OS_INFO_ADDR - 2] = INTERRUPTS_ENABLED,
                                    ![PtrAfter(L_OS_INFO_ADDR)] = EMPTY]
            /\ L_OS_INFO_ADDR' = PtrAfter(L_OS_INFO_ADDR)
  /\ ran' = "init"
  /\ Finish
  /\ UNCHANGED <<machine, memory, report>>

(* int 3: interrupt_03 pulses the reset line (idt.h:239-248).                 *)
RunReboot ==
  /\ machine = "running"
  /\ Is("reboot")
  /\ ran' = "reboot"
  /\ machine' = "reset"
  /\ line' = typed
  /\ pressed' = ReturnKey
  /\ UNCHANGED <<string, length, word, L_OS_INFO_ADDR, typed, memory, report>>

RunUnknown ==
  /\ machine = "running"
  /\ \A command \in Commands : ~Is(command)
  /\ ran' = "unknown"
  /\ Finish
  /\ UNCHANGED <<word, L_OS_INFO_ADDR, machine, memory, report>>

Next ==
  \/ IgnoreKey \/ HaltOnUp
  \/ \E l \in Letters : TypeLetter(l)
  \/ \E command \in Commands : RunReader(command)
  \/ RunMem \/ RunInit \/ RunReboot \/ RunUnknown

Spec == Init /\ [][Next]_vars

-----------------------------------------------------------------------------
(* The types; between two commands L_OS_INFO_ADDR is back at OS_INFO          *)
(* (terminal.h:144-146), and length leaves room for the closing zero.         *)
TypeOK ==
  /\ string \in [0 .. BufLen - 1 -> Letters \cup {NUL}]
  /\ length \in 0 .. BufLen - 1
  /\ word \in [{UsedBlocks} \cup OsInfo -> Words]
  /\ L_OS_INFO_ADDR = 0
  /\ machine \in {"running", "halted", "reset"}
  /\ memory \in Memories
  /\ typed \in Seq(Letters) /\ line \in Seq(Letters)
  /\ ran \in Commands \cup {"nothing", "unknown"}
  /\ pressed \in Keys

Spelled(letters) ==
  IF \E c \in Commands : Names[c] = letters
    THEN CHOOSE c \in Commands : Names[c] = letters ELSE "unknown"

(* The return key runs the command whose name the letters typed since the     *)
(* last return key spell, and no other: nothing of an earlier, longer line is *)
(* left in the buffer, and neither a prefix nor an extension of a name is     *)
(* taken for it (terminal.h:93-98, 103-158, 161-163; string.h:14-26).         *)
RunsWhatWasTyped == ran # "nothing" => ran = Spelled(line)

(* Why: the buffer holds the typed letters and zeros behind them.             *)
BufferIsTyped ==
  machine # "reset" =>
    /\ length = Len(typed)
    /\ \A k \in DOMAIN string : string[k] = IF k < length THEN typed[k + 1] ELSE NUL

(* util.h:119: OS_INFO holds `The status of the IDT(0x0 or 0x1B01 -           *)
(* INTERRUPTS_ENABLED)': once init has run, some word of OS_INFO says so, and *)
(* the status command and a second `init' can find it.                        *)
IdtStatusRecorded ==
  ran = "init" => \E a \in OsInfo : word[a] = INTERRUPTS_ENABLED

(* A printed number, read as one: prefix and digits, no zero in front.        *)
Digit(c) == (CHOOSE k \in DOMAIN numbers : numbers[k] = c) - 1
ValueOf(digits, b) ==
  LET Upto[k \in 0 .. Len(digits)] == IF k = 0 THEN 0 ELSE b * Upto[k - 1] + Digit(digits[k])
  IN Upto[Len(digits)]
ShowsHex(text, n) ==
  /\ SubSeq(text, 1, 2) = <<"0", "x">> /\ (n > 0 => text[3] # "0")
  /\ ValueOf(SubSeq(text, 3, Len(text)), 16) = n

(* mem shows the table and the counters that bring-up has left, whatever has  *)
(* been typed and run before -- except init, which writes over one of the     *)
(* counters; megabytes are shown when there is one (terminal.h:6-68, 144;     *)
(* mstdio.h:168-227).                                                         *)
MemReportTrue ==
  ran = "mem" /\ word[UsedBlocks] = BlockCount =>
    LET available == (memory.max_blocks - memory.used_blocks) % UInt
    IN /\ \A k \in DOMAIN memory.smap :
            /\ ShowsHex(report.rows[k].number, k - 1)
            /\ ShowsHex(report.rows[k].base, memory.smap[k].base % UInt)
            /\ ShowsHex(report.rows[k].length, memory.smap[k].length % UInt)
            /\ report.rows[k].label = "AVAILABLE" <=> memory.smap[k].type = 1
       /\ ShowsHex(report.blocks, memory.max_blocks)
       /\ ShowsHex(report.used, memory.used_blocks)
       /\ ShowsHex(report.available, available)
       /\ available >= 1024 => ValueOf(report.MB, 10) = available \div 1024

=============================================================================
