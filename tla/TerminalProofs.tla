---------------------------- MODULE TerminalProofs ----------------------------
(***************************************************************************)
(* Proofs about Terminal for every set of command names and every buffer   *)
(* size: the return key runs the command that has been typed.  For every   *)
(* memory map: the numbers that mem prints are, read digit by digit, those *)
(* that bring-up has left.  And about Console, on which it prints, for     *)
(* every screen geometry: the frame buffer implements a screen of text     *)
(* (TextScreen), as long as no line is longer than the screen is wide.     *)
(***************************************************************************)
EXTENDS Terminal, Console, NumberTheorems, SequenceTheorems

(* strlen finds the first zero. *)
LEMMA StrlenFirstZero ==
  ASSUME NEW str, NEW n \in Nat, n \in DOMAIN str, DOMAIN str \subseteq Nat,
         str[n] = NUL, \A m \in 0 .. n - 1 : str[m] # NUL
  PROVE  strlen(str) = n
<1>1. \A k \in DOMAIN str :
        (str[k] = NUL /\ \A m \in 0 .. k - 1 : str[m] # NUL) => k = n
  <2> SUFFICES ASSUME NEW k \in DOMAIN str, str[k] = NUL,
                      \A m \in 0 .. k - 1 : str[m] # NUL
               PROVE  k = n
    OBVIOUS
  <2>1. k \in Nat
    OBVIOUS
  <2>2. ~(k < n)
    <3>1. k < n => k \in 0 .. n - 1
      BY <2>1
    <3>2. QED
      BY <3>1
  <2>3. ~(n < k)
    <3>1. n < k => n \in 0 .. k - 1
      BY <2>1
    <3>2. QED
      BY <3>1
  <2>4. QED
    BY <2>1, <2>2, <2>3
<1>2. QED
  BY <1>1 DEF strlen

(* strlen of a name is its length. *)
LEMMA CStringLength ==
  ASSUME NEW name \in Seq(Letters) PROVE strlen(CString(name)) = Len(name)
<1>1. Len(name) \in Nat
  OBVIOUS
<1>2. DOMAIN CString(name) = 0 .. Len(name)
  BY DEF CString
<1>3. CString(name)[Len(name)] = NUL
  BY <1>1 DEF CString
<1>4. \A m \in 0 .. Len(name) - 1 : CString(name)[m] # NUL
  <2> SUFFICES ASSUME NEW m \in 0 .. Len(name) - 1 PROVE CString(name)[m] # NUL
    OBVIOUS
  <2>1. CString(name)[m] = name[m + 1] /\ m + 1 \in 1 .. Len(name)
    BY <1>1 DEF CString
  <2>2. name[m + 1] \in Letters
    BY <2>1
  <2>3. QED
    BY <2>1, <2>2, TerminalAssumption
<1>5. QED
  BY <1>1, <1>2, <1>3, <1>4, StrlenFirstZero

(* With the typed letters in the buffer, strcmp decides equality with a name. *)
LEMMA IsSpelled ==
  ASSUME TypeOK, BufferIsTyped, machine = "running", NEW c \in Commands
  PROVE  Is(c) <=> Names[c] = typed
<1> DEFINE name == Names[c]
<1>0. /\ typed \in Seq(Letters) /\ length = Len(typed) /\ length \in Nat
      /\ DOMAIN string = 0 .. BufLen - 1 /\ length \in 0 .. BufLen - 1
      /\ BufLen \in Nat
  BY TerminalAssumption DEF TypeOK, BufferIsTyped
<1>1. \A k \in 0 .. BufLen - 1 : string[k] = IF k < length THEN typed[k + 1] ELSE NUL
  BY <1>0 DEF BufferIsTyped
<1>2. name \in Seq(Letters) /\ Len(name) \in Nat
  BY TerminalAssumption
<1>3. \A k \in 0 .. length - 1 : string[k] = typed[k + 1] /\ typed[k + 1] \in Letters
  BY <1>0, <1>1
<1>4. strlen(string) = length
  <2>1. string[length] = NUL
    BY <1>0, <1>1
  <2>2. \A m \in 0 .. length - 1 : string[m] # NUL
    BY <1>3, TerminalAssumption
  <2>3. length \in DOMAIN string /\ DOMAIN string \subseteq Nat
    BY <1>0
  <2>4. QED
    BY <1>0, <2>1, <2>2, <2>3, StrlenFirstZero
<1>5. strlen(CString(name)) = Len(name)
  BY <1>2, CStringLength
<1>6. \A k \in 0 .. Len(name) - 1 : CString(name)[k] = name[k + 1]
  BY <1>2 DEF CString
<1>7. ASSUME Is(c) PROVE name = typed
  <2>1. Len(name) = length /\ \A k \in 0 .. length - 1 : string[k] = CString(name)[k]
    BY <1>4, <1>5, <1>7 DEF Is, strcmp
  <2>2. \A k \in 0 .. length - 1 : typed[k + 1] = name[k + 1]
    BY <1>3, <1>6, <2>1
  <2>3. \A j \in 1 .. Len(name) : name[j] = typed[j]
    <3> SUFFICES ASSUME NEW j \in 1 .. Len(name) PROVE name[j] = typed[j]
      OBVIOUS
    <3>1. j - 1 \in 0 .. length - 1 /\ (j - 1) + 1 = j
      BY <1>0, <2>1
    <3>2. QED
      BY <2>2, <3>1
  <2>4. QED
    BY <1>0, <1>2, <2>1, <2>3
<1>8. ASSUME name = typed PROVE Is(c)
  <2>1. \A k \in 0 .. length - 1 : string[k] = CString(name)[k]
    BY <1>0, <1>3, <1>6, <1>8
  <2>2. QED
    BY <1>0, <1>4, <1>5, <1>8, <2>1 DEF Is, strcmp
<1>9. QED
  BY <1>7, <1>8

-----------------------------------------------------------------------------
(* Erasing the line keeps the buffer's type. *)
LEMMA ClearedType ==
  ASSUME TypeOK, ClearLine
  PROVE  string' \in [0 .. BufLen - 1 -> Letters \cup {NUL}]
BY DEF TypeOK, ClearLine

(* So does the end of a command. *)
LEMMA FinishType ==
  ASSUME TypeOK, Finish
  PROVE  /\ string' \in [0 .. BufLen - 1 -> Letters \cup {NUL}]
         /\ length' \in 0 .. BufLen - 1
         /\ typed' \in Seq(Letters) /\ line' \in Seq(Letters)
         /\ pressed' \in Keys
<1>1. ReturnKey \in Keys
  BY DEF Keys
<1>2. length' \in 0 .. BufLen - 1
  BY TerminalAssumption DEF Finish
<1>3. QED
  BY <1>1, <1>2, ClearedType DEF Finish, TypeOK

(* The command loop keeps its types: no sequence of keys moves L_OS_INFO_ADDR *)
(* away from OS_INFO for good or fills the closing zero of the line buffer,   *)
(* as long as lines are shorter than it (terminal.h:84-168).                  *)
THEOREM TypeCorrect == Spec => []TypeOK
<1> USE TerminalAssumption
<1>1. Init => TypeOK
  <2> SUFFICES ASSUME Init PROVE TypeOK
    OBVIOUS
  <2>1. word \in [{UsedBlocks} \cup OsInfo -> Words]
    BY DEF Init, Words
  <2>2. string \in [0 .. BufLen - 1 -> Letters \cup {NUL}]
    BY DEF Init
  <2>3. pressed \in Keys
    BY DEF Init, Keys
  <2>4. length \in 0 .. BufLen - 1 /\ L_OS_INFO_ADDR = 0 /\ machine = "running"
    BY DEF Init
  <2>5. typed \in Seq(Letters) /\ line \in Seq(Letters) /\ ran = "nothing"
        /\ memory \in Memories
    BY DEF Init
  <2>6. QED
    BY <2>1, <2>2, <2>3, <2>4, <2>5 DEF TypeOK
<1>2. TypeOK /\ [Next]_vars => TypeOK'
  <2> SUFFICES ASSUME TypeOK, [Next]_vars PROVE TypeOK'
    OBVIOUS
  <2>1. CASE IgnoreKey
    BY <2>1 DEF IgnoreKey, TypeOK
  <2>2. CASE HaltOnUp
    BY <2>2 DEF HaltOnUp, TypeOK
  <2>3. ASSUME NEW l \in Letters, TypeLetter(l) PROVE TypeOK'
    <3>1. Plain(l) \in Keys
      BY DEF Keys
    <3>2. string' \in [0 .. BufLen - 1 -> Letters \cup {NUL}]
      BY <2>3 DEF TypeLetter, TypeOK
    <3>3. length' \in 0 .. BufLen - 1
      BY <2>3 DEF TypeLetter, TypeOK
    <3>4. typed' \in Seq(Letters)
      BY <2>3 DEF TypeLetter, TypeOK
    <3>5. QED
      BY <2>3, <3>1, <3>2, <3>3, <3>4 DEF TypeLetter, TypeOK
  <2>4. ASSUME NEW c \in Commands, RunReader(c) PROVE TypeOK'
    BY <2>4, FinishType DEF RunReader, TypeOK
  <2>m. CASE RunMem
    <3>1. "mem" \in Commands
      BY DEF Commands
    <3>2. QED
      BY <2>m, <3>1, FinishType DEF RunMem, TypeOK
  <2>5. CASE RunInit
    <3>1. PtrAfter(L_OS_INFO_ADDR) = 0 /\ L_OS_INFO_ADDR = 0
      BY DEF PtrAfter, TypeOK
    <3>2. word' \in [{UsedBlocks} \cup OsInfo -> Words] /\ L_OS_INFO_ADDR' = 0
      BY <2>5, <3>1 DEF RunInit, TypeOK, Words
    <3>3. ran' \in Commands
      BY <2>5 DEF RunInit, Commands
    <3>4. QED
      BY <2>5, <3>2, <3>3, FinishType DEF RunInit, TypeOK
  <2>6. CASE RunReboot
    <3>1. ReturnKey \in Keys /\ "reboot" \in Commands
      BY DEF Keys, Commands
    <3>2. QED
      BY <2>6, <3>1 DEF RunReboot, TypeOK
  <2>7. CASE RunUnknown
    BY <2>7, FinishType DEF RunUnknown, TypeOK
  <2>8. CASE UNCHANGED vars
    BY <2>8 DEF vars, TypeOK
  <2>9. QED
    BY <2>1, <2>2, <2>3, <2>4, <2>m, <2>5, <2>6, <2>7, <2>8 DEF Next
<1>3. QED
  BY <1>1, <1>2, PTL DEF Spec

(* The buffer holds exactly the letters typed since the last return key.     *)
LEMMA BufferInductive == Spec => []BufferIsTyped
<1> USE TerminalAssumption
<1>1. Init => BufferIsTyped
  BY DEF Init, BufferIsTyped
<1>2. TypeOK /\ BufferIsTyped /\ [Next]_vars => BufferIsTyped'
  <2> SUFFICES ASSUME TypeOK, BufferIsTyped, [Next]_vars PROVE BufferIsTyped'
    OBVIOUS
  <2>0. /\ string \in [0 .. BufLen - 1 -> Letters \cup {NUL}]
        /\ length \in 0 .. BufLen - 1 /\ typed \in Seq(Letters)
    BY DEF TypeOK
  <2>1. CASE IgnoreKey \/ HaltOnUp \/ RunReboot \/ UNCHANGED vars
    BY <2>1 DEF IgnoreKey, HaltOnUp, RunReboot, vars, BufferIsTyped
  <2>2. ASSUME NEW l \in Letters, TypeLetter(l) PROVE BufferIsTyped'
    <3>1. /\ length = Len(typed)
          /\ \A k \in DOMAIN string : string[k] = IF k < length THEN typed[k + 1] ELSE NUL
      BY <2>2 DEF TypeLetter, BufferIsTyped
    <3>2. Len(typed') = length' /\ DOMAIN string' = DOMAIN string
      BY <2>0, <2>2, <3>1 DEF TypeLetter
    <3>3. ASSUME NEW k \in DOMAIN string
          PROVE  string'[k] = IF k < length' THEN typed'[k + 1] ELSE NUL
      <4>0. k \in Nat
        BY <2>0
      <4>1. CASE k = length
        BY <2>0, <2>2, <3>1, <4>1 DEF TypeLetter
      <4>2. CASE k < length
        <5>1. k + 1 \in 1 .. Len(typed)
          BY <2>0, <3>1, <4>0, <4>2
        <5>2. typed'[k + 1] = typed[k + 1]
          BY <2>0, <2>2, <5>1 DEF TypeLetter
        <5>3. QED
          BY <2>0, <2>2, <3>1, <4>0, <4>2, <5>2 DEF TypeLetter
      <4>3. CASE k > length
        BY <2>0, <2>2, <3>1, <4>0, <4>3 DEF TypeLetter
      <4>4. QED
        BY <2>0, <4>0, <4>1, <4>2, <4>3
    <3>4. QED
      BY <3>2, <3>3 DEF BufferIsTyped
  <2>3. ASSUME Finish, UNCHANGED machine PROVE BufferIsTyped'
    BY <2>0, <2>3 DEF Finish, ClearLine, BufferIsTyped
  <2>4. QED
    BY <2>1, <2>2, <2>3 DEF Next, RunReader, RunMem, RunInit, RunUnknown
<1>3. QED
  BY <1>1, <1>2, TypeCorrect, PTL DEF Spec

(* The return key runs the command whose name has been typed, whatever was   *)
(* typed and run before (terminal.h:101-168, string.h:14-26).                *)
THEOREM RunsWhatWasTypedCorrect == Spec => []RunsWhatWasTyped
<1> USE TerminalAssumption
<1>1. Init => RunsWhatWasTyped
  BY DEF Init, RunsWhatWasTyped
<1>2. TypeOK /\ BufferIsTyped /\ RunsWhatWasTyped /\ [Next]_vars => RunsWhatWasTyped'
  <2> SUFFICES ASSUME TypeOK, BufferIsTyped, RunsWhatWasTyped, [Next]_vars
               PROVE  RunsWhatWasTyped'
    OBVIOUS
  <2>1. ASSUME NEW c \in Commands, Is(c), machine = "running", ran' = c, line' = typed
        PROVE  RunsWhatWasTyped'
    <3>1. Names[c] = typed
      BY <2>1, IsSpelled
    <3>2. \A d \in Commands : Names[d] = typed => d = c
      BY <3>1
    <3>3. Spelled(typed) = c
      BY <3>1, <3>2 DEF Spelled
    <3>4. QED
      BY <2>1, <3>3 DEF RunsWhatWasTyped, Spelled
  <2>2. CASE RunUnknown
    <3>1. \A c \in Commands : Names[c] # typed
      BY <2>2, IsSpelled DEF RunUnknown
    <3>2. QED
      BY <2>2, <3>1 DEF RunUnknown, Finish, RunsWhatWasTyped, Spelled
  <2>3. CASE UNCHANGED <<ran, line>>
    BY <2>3 DEF RunsWhatWasTyped, Spelled
  <2>4. "init" \in Commands /\ "reboot" \in Commands /\ "mem" \in Commands
    BY DEF Commands
  <2>5. QED
    BY <2>1, <2>2, <2>3, <2>4
    DEF Next, IgnoreKey, HaltOnUp, TypeLetter, RunReader, RunMem, RunInit, RunReboot,
        Finish, vars
<1>3. QED
  BY <1>1, <1>2, TypeCorrect, BufferInductive, PTL DEF Spec

-----------------------------------------------------------------------------
(* The characters of the digits. *)
DigitChars == {numbers[k] : k \in 1 .. 16}

(* Each digit has a character of its own, the first one is "0". *)
LEMMA DigitsDiffer ==
  /\ DOMAIN numbers = 1 .. 16 /\ numbers[1] = "0"
  /\ \A j, k \in 1 .. 16 : numbers[j] = numbers[k] => j = k
BY DEF numbers

(* A character's digit. *)
LEMMA DigitIs ==
  ASSUME NEW d \in 0 .. 15
  PROVE  /\ numbers[d + 1] \in DigitChars
         /\ Digit(numbers[d + 1]) = d
         /\ d # 0 => numbers[d + 1] # "0"
<1>1. d + 1 \in 1 .. 16
  OBVIOUS
<1>2. (CHOOSE k \in DOMAIN numbers : numbers[k] = numbers[d + 1]) = d + 1
  BY <1>1, DigitsDiffer
<1>3. Digit(numbers[d + 1]) = d
  <2> DEFINE e == CHOOSE k \in DOMAIN numbers : numbers[k] = numbers[d + 1]
  <2>1. Digit(numbers[d + 1]) = e - 1
    BY Zenon DEF Digit
  <2>2. e = d + 1
    BY <1>2
  <2> HIDE DEF e
  <2>3. QED
    BY <2>1, <2>2
<1>4. QED
  BY <1>1, <1>3, DigitsDiffer DEF DigitChars

-----------------------------------------------------------------------------
(* The lowest digit of n, and the others. *)
Led(n, b, digits) == <<numbers[(n % b) + 1]>> \o digits

(* f turns the numbers up to m into their digits, the lowest first.           *)
IsDigits(f, b, m) ==
  /\ f \in [0 .. m -> Seq(DigitChars)]
  /\ f[0] = <<>>
  /\ \A n \in 1 .. m : f[n] = Led(n, b, f[n \div b])

(* f satisfies the equation that defines HexLow, and with 10 DecLow.          *)
Digits(f, b) ==
  f = [number \in Nat |->
         IF number = 0 THEN <<>> ELSE Led(number, b, f[number \div b])]

(* The highest digit but all others is a smaller number. *)
LEMMA Quotient ==
  ASSUME NEW b \in 2 .. 16, NEW n \in Nat, n > 0
  PROVE  /\ n \div b \in 0 .. n - 1 /\ n % b \in 0 .. 15
         /\ n = b * (n \div b) + (n % b)
<1> DEFINE q == n \div b
           r == n % b
<1>1. q \in Nat /\ r \in 0 .. b - 1 /\ n = b * q + r
  BY DivMod
<1> HIDE DEF q, r
<1>2. q < n
  <2>1. CASE q = 0
    BY <2>1
  <2>2. CASE q > 0
    <3>1. 2 * q <= b * q
      BY <1>1
    <3>2. QED
      BY <1>1, <2>2, <3>1
  <2>3. QED
    BY <1>1, <2>1, <2>2
<1>3. q \in 0 .. n - 1 /\ r \in 0 .. 15
  BY <1>1, <1>2
<1>4. QED
  BY <1>1, <1>3 DEF q, r

(* Such functions agree where both are defined ... *)
LEMMA DigitsAgree ==
  ASSUME NEW b \in 2 .. 16, NEW m \in Nat, NEW l \in Nat,
         NEW f, IsDigits(f, b, m), NEW g, IsDigits(g, b, l)
  PROVE  \A n \in Nat : n <= m /\ n <= l => f[n] = g[n]
<1> DEFINE T == {n \in Nat : n <= m /\ n <= l /\ f[n] # g[n]}
<1> SUFFICES ASSUME T # {} PROVE FALSE
  OBVIOUS
<1>1. PICK n \in T : \A k \in T : n <= k
  <2>1. T \subseteq Nat
    OBVIOUS
  <2> HIDE DEF T
  <2>2. QED
    BY <2>1, LeastNumber
<1>2. n \in Nat /\ n <= m /\ n <= l /\ f[n] # g[n]
  OBVIOUS
<1>3. n # 0
  BY <1>2 DEF IsDigits
<1>4. n \div b \in 0 .. n - 1
  BY <1>2, <1>3, Quotient
<1> DEFINE q == n \div b
<1>5. q \in Nat /\ q < n
  BY <1>2, <1>4
<1>6. f[q] = g[q]
  <2> HIDE DEF q
  <2>1. q \notin T
    BY <1>1, <1>2, <1>5
  <2>2. QED
    BY <1>2, <1>5, <2>1
<1>7. f[n] = Led(n, b, f[q]) /\ g[n] = Led(n, b, g[q])
  BY <1>2, <1>3 DEF IsDigits
<1>8. QED
  BY <1>2, <1>6, <1>7

(* ... and exist for every m. *)
LEMMA DigitsExist ==
  ASSUME NEW b \in 2 .. 16, NEW m \in Nat
  PROVE  \E f : IsDigits(f, b, m)
<1> DEFINE T == {k \in Nat : \E f : IsDigits(f, b, k)}
<1>1. 0 \in T
  <2>1. IsDigits([k \in 0 .. 0 |-> <<>>], b, 0)
    BY DEF IsDigits
  <2>2. QED
    BY <2>1
<1>2. ASSUME NEW k \in Nat, k \in T PROVE k + 1 \in T
  <2>1. PICK f : IsDigits(f, b, k)
    BY <1>2
  <2> DEFINE q == (k + 1) \div b
             c == numbers[((k + 1) % b) + 1]
             g == [n \in 0 .. k + 1 |-> IF n = k + 1 THEN Led(k + 1, b, f[q]) ELSE f[n]]
  <2>2. q \in 0 .. k /\ c \in DigitChars
    <3>1. (k + 1) \div b \in 0 .. (k + 1) - 1 /\ (k + 1) % b \in 0 .. 15
      BY Quotient
    <3>2. QED
      BY <3>1, DigitIs
  <2>3. g[k + 1] = Led(k + 1, b, g[(k + 1) \div b])
    <3>1. g[k + 1] = Led(k + 1, b, f[q]) /\ g[q] = f[q]
      BY <2>2
    <3>2. QED
      BY <3>1
  <2> HIDE DEF q, c
  <2>4. f \in [0 .. k -> Seq(DigitChars)] /\ f[0] = <<>>
        /\ \A n \in 1 .. k : f[n] = Led(n, b, f[n \div b])
    BY <2>1 DEF IsDigits
  <2>5. g \in [0 .. k + 1 -> Seq(DigitChars)] /\ g[0] = <<>>
    <3>1. f[q] \in Seq(DigitChars) /\ <<c>> \in Seq(DigitChars)
      BY <2>2, <2>4
    <3>2. Led(k + 1, b, f[q]) \in Seq(DigitChars)
      BY <3>1 DEF Led, c
    <3>3. QED
      BY <2>4, <3>2
  <2>6. ASSUME NEW n \in 1 .. k PROVE g[n] = Led(n, b, g[n \div b])
    <3>1. n \div b \in 0 .. k
      BY Quotient
    <3>2. g[n] = f[n] /\ g[n \div b] = f[n \div b]
      BY <3>1
    <3>3. QED
      BY <2>4, <3>2
  <2> HIDE DEF g
  <2>7. IsDigits(g, b, k + 1)
    <3>1. \A n \in 1 .. k + 1 : n \in 1 .. k \/ n = k + 1
      OBVIOUS
    <3>2. QED
      BY <2>3, <2>5, <2>6, <3>1 DEF IsDigits
  <2>8. QED
    BY <2>7
<1> HIDE DEF T
<1>3. m \in T
  BY <1>1, <1>2, NatInduct
<1>4. QED
  BY <1>3 DEF T

(* So there is a function for all numbers. *)
LEMMA DigitsDefined ==
  ASSUME NEW b \in 2 .. 16
  PROVE  \E f : Digits(f, b)
<1> DEFINE Upto(m) == CHOOSE f : IsDigits(f, b, m)
           f == [n \in Nat |-> Upto(n)[n]]
<1>1. \A m \in Nat : IsDigits(Upto(m), b, m)
  BY DigitsExist
<1> HIDE DEF Upto
<1>2. ASSUME NEW n \in Nat
      PROVE  f[n] = IF n = 0 THEN <<>> ELSE Led(n, b, f[n \div b])
  <2>1. CASE n = 0
    <3>1. Upto(0)[0] = <<>>
      BY <1>1 DEF IsDigits
    <3>2. QED
      BY <2>1, <3>1
  <2>2. CASE n > 0
    <3> DEFINE q == n \div b
    <3>1. q \in 0 .. n - 1
      BY <2>2, Quotient
    <3>2. Upto(n)[n] = Led(n, b, Upto(n)[q])
      BY <1>1, <2>2 DEF IsDigits
    <3>3. Upto(n)[q] = Upto(q)[q]
      <4> HIDE DEF q
      <4>1. q \in Nat /\ q <= n /\ q <= q
        BY <3>1
      <4>2. IsDigits(Upto(n), b, n) /\ IsDigits(Upto(q), b, q)
        BY <1>1, <4>1
      <4>3. QED
        BY <4>1, <4>2, DigitsAgree
    <3>4. f[q] = Upto(q)[q]
      BY <3>1
    <3>5. QED
      BY <2>2, <3>2, <3>3, <3>4
  <2>3. QED
    BY <2>1, <2>2
<1>3. f = [n \in Nat |->
             IF n = 0 THEN <<>> ELSE Led(n, b, f[n \div b])]
  BY <1>2, Zenon
<1> HIDE DEF f
<1>4. Digits(f, b)
  BY <1>3 DEF Digits
<1>5. QED
  BY <1>4

(* HexLow and DecLow are such functions. *)
LEMMA LowDigits == Digits(HexLow, 16) /\ Digits(DecLow, 10)
<1>1. \E f : Digits(f, 16)
  BY DigitsDefined
<1>2. \E f : Digits(f, 10)
  BY DigitsDefined
<1>3. Digits(HexLow, 16)
  BY <1>1 DEF HexLow, Digits, Led
<1>4. Digits(DecLow, 10)
  BY <1>2 DEF DecLow, Digits, Led
<1>5. QED
  BY <1>3, <1>4


-----------------------------------------------------------------------------
(* A number with one digit more. *)
Further(b, value, c) == (b * value) + Digit(c)

(* g holds the values of the beginnings of s, read as a number to base b.     *)
IsReading(g, s, b) ==
  /\ g \in [0 .. Len(s) -> Nat]
  /\ g[0] = 0
  /\ \A k \in 1 .. Len(s) : g[k] = Further(b, g[k - 1], s[k])

(* g satisfies the equation that defines ValueOf. *)
Reading(g, s, b) ==
  g = [k \in 0 .. Len(s) |-> IF k = 0 THEN 0 ELSE Further(b, g[k - 1], s[k])]

(* There is one reading of s only. *)
LEMMA ReadingUnique ==
  ASSUME NEW b \in Nat, NEW s, Len(s) \in Nat, NEW f, IsReading(f, s, b),
         NEW g, Reading(g, s, b)
  PROVE  g = f
<1> DEFINE n == Len(s)
<1>1. f \in [0 .. n -> Nat] /\ f[0] = 0
      /\ \A k \in 1 .. n : f[k] = Further(b, f[k - 1], s[k])
  BY DEF IsReading
<1> DEFINE T == {k \in Nat : k <= n => g[k] = f[k]}
<1>2. /\ g = [k \in 0 .. n |-> g[k]]
      /\ g[0] = 0 /\ \A k \in 1 .. n : g[k] = Further(b, g[k - 1], s[k])
  BY DEF Reading
<1>3. 0 \in T
  BY <1>1, <1>2
<1>4. ASSUME NEW k \in Nat, k \in T PROVE k + 1 \in T
  <2>1. CASE k + 1 <= n
    <3>1. k + 1 \in 1 .. n /\ (k + 1) - 1 = k /\ k <= n
      BY <2>1
    <3>2. g[k] = f[k]
      BY <1>4, <3>1
    <3>3. g[k + 1] = Further(b, g[k], s[k + 1])
      BY <1>2, <3>1
    <3>4. f[k + 1] = Further(b, f[k], s[k + 1])
      BY <1>1, <3>1
    <3>5. QED
      BY <3>2, <3>3, <3>4
  <2>2. CASE ~(k + 1 <= n)
    BY <2>2
  <2>3. QED
    BY <2>1, <2>2
<1> HIDE DEF T
<1>5. Nat \subseteq T
  BY <1>3, <1>4, NatInduct
<1>6. ASSUME NEW k \in 0 .. n PROVE g[k] = f[k]
  <2>1. k \in Nat /\ k <= n
    OBVIOUS
  <2>2. k \in T
    BY <1>5, <2>1
  <2>3. QED
    BY <2>1, <2>2 DEF T
<1>7. QED
  BY <1>1, <1>2, <1>6

(* ValueOf is what it ends with. *)
LEMMA ValueIs ==
  ASSUME NEW b \in Nat, NEW s, Len(s) \in Nat, NEW f, IsReading(f, s, b)
  PROVE  ValueOf(s, b) = f[Len(s)]
<1> DEFINE g == CHOOSE h : Reading(h, s, b)
<1>1. Reading(f, s, b)
  <2>1. f \in [0 .. Len(s) -> Nat] /\ f[0] = 0
        /\ \A k \in 1 .. Len(s) : f[k] = Further(b, f[k - 1], s[k])
    BY DEF IsReading
  <2>2. QED
    BY <2>1 DEF Reading
<1>2. Reading(g, s, b)
  BY <1>1
<1>3. ValueOf(s, b) = g[Len(s)]
  BY DEF ValueOf, Reading, Further
<1> HIDE DEF g
<1>4. g = f
  BY <1>2, ReadingUnique
<1>5. QED
  BY <1>3, <1>4

(* The digits c of a number: its value is n, and it has no zero in front.     *)
Shows(s, n, b) ==
  /\ s \in Seq(DigitChars)
  /\ n = 0 => s = <<>>
  /\ n > 0 => s # <<>> /\ s[1] # "0"
  /\ \E g : IsReading(g, s, b) /\ g[Len(s)] = n

(* One digit more. *)
LEMMA ShowsNext ==
  ASSUME NEW b \in 2 .. 16, NEW n \in Nat, n > 0, NEW s, Shows(s, n \div b, b)
  PROVE  Shows(Append(s, numbers[(n % b) + 1]), n, b)
<1> DEFINE q == n \div b
           d == n % b
           c == numbers[d + 1]
           t == Append(s, c)
<1>1. q \in 0 .. n - 1 /\ d \in 0 .. 15 /\ n = (b * q) + d /\ s \in Seq(DigitChars)
  BY Quotient DEF Shows
<1>2. c \in DigitChars /\ Digit(c) = d /\ (d # 0 => c # "0")
  BY <1>1, DigitIs
<1>3. /\ q = 0 => s = <<>>
      /\ q > 0 => s # <<>> /\ s[1] # "0"
  BY DEF Shows
<1>4. PICK g : IsReading(g, s, b) /\ g[Len(s)] = q
  BY DEF Shows
<1> HIDE DEF q, d, c
<1>5. /\ t \in Seq(DigitChars) /\ Len(t) = Len(s) + 1 /\ Len(s) \in Nat
      /\ \A k \in 1 .. Len(s) : t[k] = s[k]
      /\ t[Len(s) + 1] = c /\ t # <<>>
  BY <1>1, <1>2
<1>6. t[1] # "0"
  <2>1. CASE q = 0
    <3>1. d # 0 /\ Len(s) = 0
      BY <1>1, <1>3, <2>1
    <3>2. QED
      BY <1>2, <1>5, <3>1
  <2>2. CASE q > 0
    <3>1. 1 \in 1 .. Len(s)
      BY <1>1, <1>3, <2>2
    <3>2. QED
      BY <1>3, <1>5, <2>2, <3>1
  <2>3. QED
    BY <1>1, <2>1, <2>2
<1> HIDE DEF t
<1> DEFINE l == Len(s)
           h == [k \in 0 .. l + 1 |-> IF k = l + 1 THEN n ELSE g[k]]
<1>7. g \in [0 .. l -> Nat] /\ g[0] = 0 /\ g[l] = q
      /\ \A k \in 1 .. l : g[k] = Further(b, g[k - 1], s[k])
  BY <1>4 DEF IsReading
<1>8. Len(t) = l + 1 /\ l \in Nat /\ (\A k \in 1 .. l : t[k] = s[k]) /\ t[l + 1] = c
  BY <1>5
<1> HIDE DEF l
<1>9. h \in [0 .. l + 1 -> Nat] /\ h[0] = 0 /\ h[l + 1] = n
  BY <1>7, <1>8
<1>10. ASSUME NEW k \in 1 .. l + 1 PROVE h[k] = Further(b, h[k - 1], t[k])
  <2>1. CASE k = l + 1
    <3>1. h[k] = n /\ h[k - 1] = q /\ t[k] = c
      BY <1>7, <1>8, <2>1
    <3>2. QED
      BY <1>1, <1>2, <3>1 DEF Further
  <2>2. CASE k # l + 1
    <3>1. k \in 1 .. l /\ k - 1 \in 0 .. l + 1 /\ k - 1 # l + 1
      BY <1>8, <2>2
    <3>2. h[k] = g[k] /\ h[k - 1] = g[k - 1] /\ t[k] = s[k]
      BY <1>8, <3>1
    <3>3. QED
      BY <1>7, <3>1, <3>2
  <2>3. QED
    BY <2>1, <2>2
<1> HIDE DEF h
<1>11. IsReading(h, t, b) /\ h[Len(t)] = n
  BY <1>8, <1>9, <1>10 DEF IsReading
<1>12. Shows(t, n, b)
  BY <1>5, <1>6, <1>11 DEF Shows
<1>13. QED
  BY <1>12 DEF t, c, d

-----------------------------------------------------------------------------
(* Turning round a buffer with one character more. *)
LEMMA TurnedFirst ==
  ASSUME NEW S, NEW c \in S, NEW s \in Seq(S)
  PROVE  Seqs!Reverse(<<c>> \o s) = Append(Seqs!Reverse(s), c)
<1> DEFINE u == Seqs!Reverse(<<c>> \o s)
           v == Seqs!Reverse(s)
           w == Append(v, c)
<1>1. /\ <<c>> \o s \in Seq(S) /\ Len(<<c>> \o s) = Len(s) + 1 /\ Len(s) \in Nat
      /\ (<<c>> \o s)[1] = c /\ \A k \in 1 .. Len(s) : (<<c>> \o s)[k + 1] = s[k]
  OBVIOUS
<1>2. v \in Seq(S) /\ Len(v) = Len(s) /\ \A k \in 1 .. Len(s) : v[k] = s[(Len(s) - k) + 1]
  BY DEF Seqs!Reverse
<1>3. ASSUME NEW k \in 1 .. Len(s) + 1 PROVE u[k] = w[k]
  <2>1. u[k] = (<<c>> \o s)[((Len(s) + 1) - k) + 1]
    BY <1>1 DEF Seqs!Reverse
  <2>2. CASE k = Len(s) + 1
    BY <1>1, <1>2, <2>1, <2>2
  <2>3. CASE k # Len(s) + 1
    <3>1. k \in 1 .. Len(s) /\ (Len(s) - k) + 1 \in 1 .. Len(s)
          /\ ((Len(s) + 1) - k) + 1 = ((Len(s) - k) + 1) + 1
      BY <1>1, <2>3
    <3>2. u[k] = s[(Len(s) - k) + 1] /\ w[k] = v[k]
      BY <1>1, <1>2, <2>1, <3>1
    <3>3. QED
      BY <1>2, <3>1, <3>2
  <2>4. QED
    BY <2>2, <2>3
<1>4. u \in Seq(S) /\ Len(u) = Len(s) + 1
  BY <1>1 DEF Seqs!Reverse
<1>5. w \in Seq(S) /\ Len(w) = Len(s) + 1
  BY <1>1, <1>2
<1> HIDE DEF u, v, w
<1>6. u = w
  BY <1>1, <1>3, <1>4, <1>5, SeqEqual
<1>7. QED
  BY <1>6 DEF u, v, w

(* Turning round a buffer that ends with two characters. *)
LEMMA TurnedLast ==
  ASSUME NEW S, NEW c \in S, NEW d \in S, NEW s \in Seq(S)
  PROVE  LET t == Seqs!Reverse(s \o <<c, d>>)
         IN /\ t \in Seq(S) /\ Len(t) = Len(s) + 2
            /\ SubSeq(t, 1, 2) = <<d, c>>
            /\ SubSeq(t, 3, Len(t)) = Seqs!Reverse(s)
<1> DEFINE x == s \o <<c, d>>
           t == Seqs!Reverse(x)
           v == Seqs!Reverse(s)
<1>1. /\ x \in Seq(S) /\ Len(x) = Len(s) + 2 /\ Len(s) \in Nat
      /\ x[Len(s) + 1] = c /\ x[Len(s) + 2] = d /\ \A k \in 1 .. Len(s) : x[k] = s[k]
  OBVIOUS
<1>2. v \in Seq(S) /\ Len(v) = Len(s) /\ \A k \in 1 .. Len(s) : v[k] = s[(Len(s) - k) + 1]
  BY DEF Seqs!Reverse
<1> HIDE DEF x
<1>3. /\ t \in Seq(S) /\ Len(t) = Len(s) + 2
      /\ \A k \in 1 .. Len(s) + 2 : t[k] = x[((Len(s) + 2) - k) + 1]
  BY <1>1 DEF Seqs!Reverse
<1> HIDE DEF t, v
<1>4. t[1] = d /\ t[2] = c
  <2>1. /\ 1 \in 1 .. Len(s) + 2 /\ 2 \in 1 .. Len(s) + 2
        /\ ((Len(s) + 2) - 1) + 1 = Len(s) + 2 /\ ((Len(s) + 2) - 2) + 1 = Len(s) + 1
    BY <1>1
  <2>2. QED
    BY <1>1, <1>3, <2>1
<1>5. ASSUME NEW k \in 1 .. Len(s) PROVE t[2 + k] = v[k]
  <2>1. /\ 2 + k \in 1 .. Len(s) + 2 /\ (Len(s) - k) + 1 \in 1 .. Len(s)
        /\ ((Len(s) + 2) - (2 + k)) + 1 = (Len(s) - k) + 1
    BY <1>1
  <2>2. QED
    BY <1>1, <1>2, <1>3, <2>1
<1>6. SubSeq(t, 1, 2) = <<d, c>>
  <2> DEFINE w == SubSeq(t, 1, 2)
  <2>1. \A k \in 1 .. 2 : t[k] \in S
    <3>1. \A k \in 1 .. 2 : k \in 1 .. Len(t)
      BY <1>1, <1>3
    <3>2. QED
      BY <1>3, <3>1
  <2>2. w \in Seq(S) /\ Len(w) = (2 - 1) + 1 /\ \A k \in 1 .. (2 - 1) + 1 : w[k] = t[(1 + k) - 1]
    <3>1. /\ w \in Seq(S)
          /\ Len(w) = IF 1 <= 2 THEN 2 - 1 + 1 ELSE 0
          /\ \A i \in 1 .. 2 - 1 + 1 : w[i] = t[1 + i - 1]
      BY <2>1, SubSeqProperties
    <3>2. QED
      BY <3>1
  <2> HIDE DEF w
  <2>3. Len(w) = 2 /\ w[1] = t[1] /\ w[2] = t[2]
    BY <2>2
  <2> DEFINE z == <<d, c>>
  <2>4. z \in Seq(S) /\ Len(z) = 2 /\ z[1] = d /\ z[2] = c
    OBVIOUS
  <2> HIDE DEF z
  <2>5. \A k \in 1 .. Len(w) : w[k] = z[k]
    BY <1>4, <2>3, <2>4
  <2>6. w = z
    BY <2>2, <2>3, <2>4, <2>5, SeqEqual
  <2>7. QED
    BY <2>6 DEF w, z
<1>7. SubSeq(t, 3, Len(t)) = v
  <2> DEFINE w == SubSeq(t, 3, Len(t))
  <2>1. w \in Seq(S) /\ Len(w) = Len(s) /\ \A k \in 1 .. Len(s) : w[k] = t[2 + k]
    <3>1. /\ 3 \in Int /\ Len(t) \in Int /\ \A k \in 3 .. Len(t) : t[k] \in S
          /\ (Len(t) - 3) + 1 = Len(s)
      BY <1>1, <1>3
    <3>2. QED
      BY <1>1, <1>3, <3>1, SubSeqProperties
  <2> HIDE DEF w
  <2>2. w = v
    BY <1>1, <1>2, <1>5, <2>1, SeqEqual
  <2>3. QED
    BY <2>2 DEF w
<1>8. QED
  BY <1>3, <1>6, <1>7 DEF t, v, x

-----------------------------------------------------------------------------
(* What the digits, turned round, show is the number. *)
LEMMA ShowsTurned ==
  ASSUME NEW b \in 2 .. 16, NEW f, Digits(f, b), NEW n \in Nat
  PROVE  f[n] \in Seq(DigitChars) /\ Shows(Seqs!Reverse(f[n]), n, b)
<1> DEFINE Ok(m) == f[m] \in Seq(DigitChars) /\ Shows(Seqs!Reverse(f[m]), m, b)
           T == {m \in Nat : ~Ok(m)}
<1> SUFFICES ASSUME T # {} PROVE FALSE
  OBVIOUS
<1>1. PICK m \in T : \A k \in T : m <= k
  <2>1. T \subseteq Nat
    OBVIOUS
  <2> HIDE DEF T
  <2>2. QED
    BY <2>1, LeastNumber
<1>2. f[m] = IF m = 0 THEN <<>> ELSE Led(m, b, f[m \div b])
  <2>1. m \in Nat
    OBVIOUS
  <2>2. QED
    BY <2>1 DEF Digits
<1>3. CASE m = 0
  <2>1. f[m] = <<>>
    BY <1>2, <1>3
  <2>2. Seqs!Reverse(<<>>) = <<>>
    BY DEF Seqs!Reverse
  <2>3. Shows(<<>>, 0, b)
    <3>1. IsReading([k \in 0 .. 0 |-> 0], <<>>, b)
      BY DEF IsReading
    <3>2. Len(<<>>) = 0 /\ [k \in 0 .. 0 |-> 0][0] = 0
      OBVIOUS
    <3>3. QED
      BY <3>1, <3>2 DEF Shows
  <2>4. f[m] \in Seq(DigitChars) /\ Shows(Seqs!Reverse(f[m]), m, b)
    <3>1. <<>> \in Seq(DigitChars)
      OBVIOUS
    <3>2. f[m] \in Seq(DigitChars)
      BY <2>1, <3>1
    <3>3. Seqs!Reverse(f[m]) = <<>>
      BY <2>1, <2>2
    <3>4. Shows(Seqs!Reverse(f[m]), m, b)
      BY <1>3, <2>3, <3>3
    <3>5. QED
      BY <3>2, <3>4
  <2>5. QED
    BY <2>4
<1>4. CASE m > 0
  <2> DEFINE q == m \div b
             c == numbers[(m % b) + 1]
  <2>1. q \in 0 .. m - 1 /\ c \in DigitChars
    <3>1. m \div b \in 0 .. m - 1 /\ m % b \in 0 .. 15
      BY <1>4, Quotient
    <3>2. QED
      BY <3>1, DigitIs
  <2>2. Ok(q)
    <3> HIDE DEF q
    <3>1. q \in Nat /\ ~(m <= q)
      BY <2>1
    <3>2. q \notin T
      BY <1>1, <3>1
    <3>3. QED
      BY <3>1, <3>2
  <2>3. f[m] = <<c>> \o f[q]
    BY <1>2, <1>4 DEF Led
  <2>4. Shows(Append(Seqs!Reverse(f[q]), c), m, b)
    BY <1>4, <2>2, ShowsNext
  <2> HIDE DEF q, c
  <2>5. f[m] \in Seq(DigitChars)
    BY <2>1, <2>2, <2>3
  <2>6. Seqs!Reverse(f[m]) = Append(Seqs!Reverse(f[q]), c)
    BY <2>1, <2>2, <2>3, TurnedFirst
  <2>7. QED
    BY <2>4, <2>5, <2>6
<1>5. QED
  BY <1>3, <1>4

(* PrintHex shows its number. *)
LEMMA HexShown ==
  ASSUME NEW n \in Nat
  PROVE  ShowsHex(PrintHex(n), n)
<1>1. CASE n = 0
  <2>1. PrintHex(n) = <<"0", "x", "0">>
    BY <1>1 DEF PrintHex
  <2>2. ValueOf(<<"0">>, 16) = 0
    <3>1. Digit("0") = 0
      BY DigitIs, DigitsDiffer
    <3>2. IsReading([k \in 0 .. 1 |-> 0], <<"0">>, 16)
      BY <3>1 DEF IsReading, Further
    <3>3. Len(<<"0">>) = 1 /\ [k \in 0 .. 1 |-> 0][1] = 0
      OBVIOUS
    <3>4. QED
      BY <3>2, <3>3, ValueIs
  <2>3. /\ SubSeq(<<"0", "x", "0">>, 1, 2) = <<"0", "x">>
        /\ SubSeq(<<"0", "x", "0">>, 3, 3) = <<"0">> /\ Len(<<"0", "x", "0">>) = 3
    <3> DEFINE s == <<"0">>
               S == {"0", "x"}
               y == s \o <<"x", "0">>
               t == Seqs!Reverse(y)
               z == <<"0", "x", "0">>
    <3>1. s \in Seq(S) /\ "x" \in S /\ "0" \in S /\ Len(s) = 1 /\ s[1] = "0"
      OBVIOUS
    <3>2. /\ z \in Seq(S) /\ Len(z) = 3
          /\ \A k \in 1 .. 3 : z[k] = y[(3 - k) + 1]
      OBVIOUS
    <3>3. Seqs!Reverse(s) = s
      <4>1. Seqs!Reverse(s) \in Seq(S) /\ Len(Seqs!Reverse(s)) = 1 /\ Seqs!Reverse(s)[1] = s[1]
        BY <3>1 DEF Seqs!Reverse
      <4> DEFINE v == Seqs!Reverse(s)
      <4> HIDE DEF s, v, S
      <4>2. v = s
        BY <3>1, <4>1, SeqEqual DEF v
      <4>3. QED
        BY <4>2 DEF v
    <3>4. t = z
      <4>1. /\ t \in Seq(S) /\ Len(t) = 3
            /\ \A k \in 1 .. 3 : t[k] = y[(3 - k) + 1]
        BY DEF Seqs!Reverse
      <4> HIDE DEF s, t, y, z, S
      <4>2. QED
        BY <3>2, <4>1, SeqEqual
    <3>5. /\ Len(t) = Len(s) + 2 /\ SubSeq(t, 1, 2) = <<"0", "x">>
          /\ SubSeq(t, 3, Len(t)) = Seqs!Reverse(s)
      <4>0. s \in Seq(S) /\ "x" \in S /\ "0" \in S
        BY <3>1
      <4> HIDE DEF s, t, y, z, S
      <4>1. /\ Len(Seqs!Reverse(s \o <<"x", "0">>)) = Len(s) + 2
            /\ SubSeq(Seqs!Reverse(s \o <<"x", "0">>), 1, 2) = <<"0", "x">>
            /\ SubSeq(Seqs!Reverse(s \o <<"x", "0">>), 3, Len(Seqs!Reverse(s \o <<"x", "0">>)))
               = Seqs!Reverse(s)
        BY <4>0, TurnedLast
      <4>2. QED
        BY <4>1 DEF t, y
    <3> HIDE DEF t, y, z, S
    <3>6. SubSeq(z, 1, 2) = <<"0", "x">> /\ SubSeq(z, 3, 3) = s /\ Len(z) = 3
      BY <3>1, <3>2, <3>3, <3>4, <3>5
    <3>7. QED
      BY <3>6 DEF z, s
  <2> DEFINE u == <<"0", "x", "0">>
             z == <<"0">>
  <2> HIDE DEF u, z
  <2>4. /\ SubSeq(u, 1, 2) = <<"0", "x">> /\ SubSeq(u, 3, Len(u)) = z
        /\ PrintHex(n) = u /\ ValueOf(z, 16) = n /\ ~(n > 0)
    BY <1>1, <2>1, <2>2, <2>3 DEF u, z
  <2>5. QED
    BY <2>4 DEF ShowsHex
<1>2. CASE n > 0
  <2> DEFINE s == HexLow[n]
             t == Seqs!Reverse(s \o <<"x", "0">>)
             v == Seqs!Reverse(s)
             S == DigitChars \cup {"x", "0"}
  <2>1. PrintHex(n) = t
    BY <1>2 DEF PrintHex
  <2>2. s \in Seq(DigitChars) /\ Shows(v, n, 16)
    BY LowDigits, ShowsTurned
  <2> HIDE DEF s
  <2>3. s \in Seq(S) /\ "x" \in S /\ "0" \in S
    <3>1. DigitChars \subseteq S
      OBVIOUS
    <3> HIDE DEF S
    <3>2. s \in Seq(S)
      BY <2>2, <3>1, SeqMonotonic
    <3>3. QED
      BY <3>2 DEF S
  <2> HIDE DEF S
  <2>4. /\ t \in Seq(S) /\ Len(t) = Len(s) + 2
        /\ SubSeq(t, 1, 2) = <<"0", "x">> /\ SubSeq(t, 3, Len(t)) = v
    BY <2>3, TurnedLast
  <2>5. /\ v \in Seq(DigitChars) /\ v # <<>> /\ v[1] # "0"
        /\ \E g : IsReading(g, v, 16) /\ g[Len(v)] = n
    BY <1>2, <2>2 DEF Shows
  <2>6. ValueOf(v, 16) = n
    BY <2>5, ValueIs
  <2>7. t[3] = v[1]
    <3>1. 1 \in 1 .. Len(v) /\ Len(v) = Len(s) /\ Len(s) \in Nat
      <4>1. Len(v) = Len(s) /\ Len(s) \in Nat
        BY <2>2 DEF Seqs!Reverse
      <4> HIDE DEF v
      <4>2. Len(v) # 0
        BY <2>5
      <4>3. QED
        BY <4>1, <4>2
    <3> HIDE DEF v, t
    <3>2. SubSeq(t, 3, Len(t))[1] = t[3]
      BY <2>3, <2>4, <3>1
    <3>3. QED
      BY <2>4, <3>2
  <2> HIDE DEF t, v
  <2>8. QED
    BY <2>1, <2>4, <2>5, <2>6, <2>7 DEF ShowsHex
<1>3. QED
  BY <1>1, <1>2

(* And so does PrintNum, except zero. *)
LEMMA NumShown ==
  ASSUME NEW n \in Nat, n > 0
  PROVE  ValueOf(PrintNum(n), 10) = n
<1> DEFINE v == Seqs!Reverse(DecLow[n])
<1>1. PrintNum(n) = v
  BY DEF PrintNum
<1>2. Shows(v, n, 10)
  BY LowDigits, ShowsTurned
<1> HIDE DEF v
<1>3. v \in Seq(DigitChars) /\ \E g : IsReading(g, v, 10) /\ g[Len(v)] = n
  BY <1>2 DEF Shows
<1>4. ValueOf(v, 10) = n
  BY <1>3, ValueIs
<1>5. QED
  BY <1>1, <1>4

-----------------------------------------------------------------------------
(* What mem prints of a table and of counters that init has not written over. *)
LEMMA ReportTrue ==
  ASSUME memory \in Memories, word[UsedBlocks] = BlockCount
  PROVE  LET available == (memory.max_blocks - memory.used_blocks) % UInt
             printed == print_mem_info
         IN /\ \A k \in DOMAIN memory.smap :
                 /\ ShowsHex(printed.rows[k].number, k - 1)
                 /\ ShowsHex(printed.rows[k].base, memory.smap[k].base % UInt)
                 /\ ShowsHex(printed.rows[k].length, memory.smap[k].length % UInt)
                 /\ printed.rows[k].label = "AVAILABLE" <=> memory.smap[k].type = 1
            /\ ShowsHex(printed.blocks, memory.max_blocks)
            /\ ShowsHex(printed.used, memory.used_blocks)
            /\ ShowsHex(printed.available, available)
            /\ available >= 1024 => ValueOf(printed.MB, 10) = available \div 1024
<1> DEFINE smap == memory.smap
           available == (memory.max_blocks - memory.used_blocks) % UInt
           p == print_mem_info
           row(k) == [label |-> Label(smap[k].type), number |-> PrintHex(k - 1),
                      base |-> PrintHex(smap[k].base % UInt),
                      length |-> PrintHex(smap[k].length % UInt)]
<1>1. /\ smap \in Seq([type : Nat, base : Nat, length : Nat]) /\ smap # <<>>
      /\ memory.max_blocks \in 0 .. UInt - 1 /\ memory.used_blocks \in 0 .. UInt - 1
      /\ UInt \in Nat \ {0}
  BY TerminalAssumption
<1>2. available \in Nat /\ memory.max_blocks \in Nat /\ memory.used_blocks \in Nat
  <2>1. \A x \in Int : x % UInt \in Nat
    BY <1>1
  <2>2. memory.max_blocks - memory.used_blocks \in Int
    BY <1>1
  <2>3. QED
    BY <1>1, <2>1, <2>2
<1>3. UsedNow = memory.used_blocks
  <2>1. word[UsedBlocks] # INTERRUPTS_ENABLED
    BY DEF INTERRUPTS_ENABLED, BlockCount
  <2>2. QED
    BY <2>1 DEF UsedNow
<1>4. /\ p.rows = [k \in DOMAIN smap |-> row(k)]
      /\ p.blocks = PrintHex(memory.max_blocks) /\ p.used = PrintHex(memory.used_blocks)
      /\ p.available = PrintHex(available) /\ p.MB = PrintNum(available \div 1024)
  BY <1>3 DEF print_mem_info
<1> HIDE DEF p
<1>5. ASSUME NEW k \in DOMAIN smap
      PROVE  /\ ShowsHex(p.rows[k].number, k - 1)
             /\ ShowsHex(p.rows[k].base, smap[k].base % UInt)
             /\ ShowsHex(p.rows[k].length, smap[k].length % UInt)
             /\ p.rows[k].label = "AVAILABLE" <=> smap[k].type = 1
  <2>1. k - 1 \in Nat /\ smap[k].base \in Nat /\ smap[k].length \in Nat /\ smap[k].type \in Nat
    <3> DEFINE Entries == [type : Nat, base : Nat, length : Nat]
    <3>1. smap \in Seq(Entries)
      BY <1>1
    <3> HIDE DEF smap, row, Entries
    <3>2. k \in 1 .. Len(smap) /\ Len(smap) \in Nat /\ smap[k] \in Entries
      BY <3>1
    <3>3. QED
      BY <3>2 DEF Entries
  <2>2. smap[k].base % UInt \in Nat /\ smap[k].length % UInt \in Nat
    <3>1. \A x \in Nat : x % UInt \in Nat
      BY <1>1
    <3>2. QED
      BY <2>1, <3>1
  <2>3. /\ p.rows[k].number = PrintHex(k - 1)
        /\ p.rows[k].base = PrintHex(smap[k].base % UInt)
        /\ p.rows[k].length = PrintHex(smap[k].length % UInt)
        /\ p.rows[k].label = Label(smap[k].type)
    <3>1. p.rows[k] = row(k)
      <4> HIDE DEF row, smap
      <4>1. QED
        BY <1>4
    <3>2. /\ row(k).number = PrintHex(k - 1) /\ row(k).label = Label(smap[k].type)
          /\ row(k).base = PrintHex(smap[k].base % UInt)
          /\ row(k).length = PrintHex(smap[k].length % UInt)
      OBVIOUS
    <3> HIDE DEF row, smap
    <3>3. QED
      BY <3>1, <3>2
  <2>4. ShowsHex(p.rows[k].number, k - 1)
    BY <2>1, <2>3, HexShown
  <2>5. ShowsHex(p.rows[k].base, smap[k].base % UInt)
    BY <2>2, <2>3, HexShown
  <2>6. ShowsHex(p.rows[k].length, smap[k].length % UInt)
    BY <2>2, <2>3, HexShown
  <2>7. p.rows[k].label = "AVAILABLE" <=> smap[k].type = 1
    <3> DEFINE type == smap[k].type
    <3>1. type = 1 => Label(type) = "AVAILABLE"
      BY DEF Label
    <3>2. type # 1 => Label(type) \in {"ACPI Reclaimed", "ACPI NVS Memory", "RESERVED"}
      BY DEF Label
    <3>3. p.rows[k].label = Label(type)
      BY <2>3
    <3> HIDE DEF type
    <3>4. type # 1 => Label(type) # "AVAILABLE"
      BY <3>2
    <3>5. p.rows[k].label = "AVAILABLE" <=> type = 1
      BY <3>1, <3>3, <3>4
    <3>6. QED
      BY <3>5 DEF type
  <2>8. QED
    BY <2>4, <2>5, <2>6, <2>7
<1>6. /\ ShowsHex(p.blocks, memory.max_blocks) /\ ShowsHex(p.used, memory.used_blocks)
      /\ ShowsHex(p.available, available)
  <2> HIDE DEF available
  <2>1. QED
    BY <1>2, <1>4, HexShown
<1>7. available >= 1024 => ValueOf(p.MB, 10) = available \div 1024
  <2> HIDE DEF available
  <2>1. available >= 1024 => available \div 1024 \in Nat /\ available \div 1024 > 0
    BY <1>2
  <2>2. QED
    BY <1>4, <2>1, NumShown
<1>8. QED
  BY <1>5, <1>6, <1>7 DEF p

(* What mem shows is the memory map and the counters that bring-up has left,  *)
(* whatever has been typed and run before, as long as init has not written    *)
(* over the count of used blocks: for every table and every number of blocks, *)
(* digit by digit (terminal.h:6-68, mstdio.h:168-227).                        *)
THEOREM MemReportTrueCorrect == Spec => []MemReportTrue
<1>1. Init => MemReportTrue
  BY DEF Init, MemReportTrue
<1>2. TypeOK /\ MemReportTrue /\ [Next]_vars => MemReportTrue'
  <2> SUFFICES ASSUME TypeOK, MemReportTrue, [Next]_vars PROVE MemReportTrue'
    OBVIOUS
  <2>1. CASE \/ IgnoreKey \/ HaltOnUp \/ (\E l \in Letters : TypeLetter(l)) \/ UNCHANGED vars
    <3>1. UNCHANGED <<ran, word, report, memory>>
      BY <2>1 DEF IgnoreKey, HaltOnUp, TypeLetter, vars
    <3>2. QED
      BY <3>1 DEF MemReportTrue
  <2>2. CASE (\E c \in Commands : RunReader(c)) \/ RunInit \/ RunReboot \/ RunUnknown
    <3>1. ran' # "mem"
      BY <2>2 DEF RunReader, RunInit, RunReboot, RunUnknown
    <3>2. QED
      BY <3>1 DEF MemReportTrue
  <2>3. CASE RunMem
    <3>1. report' = print_mem_info /\ word' = word /\ memory' = memory /\ memory \in Memories
      BY <2>3 DEF RunMem, TypeOK
    <3> SUFFICES ASSUME word[UsedBlocks] = BlockCount PROVE MemReportTrue'
      BY <3>1 DEF MemReportTrue
    <3> DEFINE p == print_mem_info
    <3>2. report' = p
      BY <3>1
    <3>3. LET available == (memory.max_blocks - memory.used_blocks) % UInt
          IN /\ \A k \in DOMAIN memory.smap :
                  /\ ShowsHex(p.rows[k].number, k - 1)
                  /\ ShowsHex(p.rows[k].base, memory.smap[k].base % UInt)
                  /\ ShowsHex(p.rows[k].length, memory.smap[k].length % UInt)
                  /\ p.rows[k].label = "AVAILABLE" <=> memory.smap[k].type = 1
             /\ ShowsHex(p.blocks, memory.max_blocks)
             /\ ShowsHex(p.used, memory.used_blocks)
             /\ ShowsHex(p.available, available)
             /\ available >= 1024 => ValueOf(p.MB, 10) = available \div 1024
      BY <3>1, ReportTrue
    <3> HIDE DEF p
    <3>4. QED
      BY <3>1, <3>2, <3>3 DEF MemReportTrue
  <2>4. QED
    BY <2>1, <2>2, <2>3 DEF Next
<1>3. QED
  BY <1>1, <1>2, TypeCorrect, PTL DEF Spec

-----------------------------------------------------------------------------
(* The sizes of the framebuffer are numbers. *)
LEMMA Products ==
  /\ LineCells \in Nat \ {0} /\ FbSize \in Nat
  /\ \A n \in Nat : n * LineCells \in Nat /\ n * Cols \in Nat
<1> USE ConsoleAssumption
<1>1. LineCells \in Nat \ {0}
  BY DEF LineCells
<1>2. Rows * GlyphH \in Nat
  OBVIOUS
<1>3. FbSize \in Nat
  BY <1>2 DEF FbSize
<1>4. QED
  BY <1>1, <1>3

(* The index of a strip is a number. *)
LEMMA CellType ==
  ASSUME NEW x \in Nat, NEW y \in Nat, NEW k \in Nat
  PROVE  Cell(x, y, k) \in Nat
BY Products DEF Cell

(* What Drawn puts into a cell of the character is a strip of it. *)
LEMMA DrawnType ==
  ASSUME ConsoleTypeOK, NEW c \in Chars \cup {Space}
  PROVE  Drawn(c) \in [0 .. FbSize - 1 -> {Black} \cup (Chars \X (0 .. GlyphH - 1))]
<1> USE ConsoleAssumption
<1> DEFINE V == {Black} \cup (Chars \X (0 .. GlyphH - 1))
<1>1. DOMAIN fb = 0 .. FbSize - 1 /\ \A p \in 0 .. FbSize - 1 : fb[p] \in V
  BY DEF ConsoleTypeOK
<1>2. cursor_x \in Nat /\ cursor_y \in Nat
  BY DEF ConsoleTypeOK
<1>3. ASSUME NEW p \in CellsOf(cursor_x, cursor_y)
      PROVE  Strip(c, (p - Cell(cursor_x, cursor_y, 0)) \div Cols) \in V
  <2>1. PICK k \in 0 .. GlyphH - 1 : p = Cell(cursor_x, cursor_y, k)
    BY <1>3 DEF CellsOf
  <2>2. cursor_y * LineCells \in Nat /\ k * Cols \in Nat
    BY <1>2, Products
  <2>3. p - Cell(cursor_x, cursor_y, 0) = k * Cols
    BY <1>2, <2>1, <2>2 DEF Cell
  <2>4. (k * Cols) \div Cols = k
    OBVIOUS
  <2>5. QED
    BY <2>3, <2>4 DEF Strip
<1>4. \A p \in 0 .. FbSize - 1 :
        (IF p \in CellsOf(cursor_x, cursor_y)
           THEN Strip(c, (p - Cell(cursor_x, cursor_y, 0)) \div Cols) ELSE fb[p]) \in V
  BY <1>1, <1>3
<1>5. QED
  BY <1>1, <1>4 DEF Drawn

(* The console keeps its types: the cursor never reaches the scroll line and  *)
(* a scroll reads and writes inside the framebuffer (util.h:210-227).         *)
THEOREM ConsoleTypeCorrect == ConsoleSpec => []ConsoleTypeOK
<1> USE ConsoleAssumption
<1> DEFINE V == {Black} \cup (Chars \X (0 .. GlyphH - 1))
<1>0. AllBlack \in [0 .. FbSize - 1 -> V]
  BY DEF AllBlack
<1>1. ConsoleInit => ConsoleTypeOK
  BY <1>0 DEF ConsoleInit, ConsoleTypeOK
<1>2. ConsoleTypeOK /\ [ConsoleNext]_consoleVars => ConsoleTypeOK'
  <2> SUFFICES ASSUME ConsoleTypeOK, [ConsoleNext]_consoleVars PROVE ConsoleTypeOK'
    OBVIOUS
  <2>0. cursor_x \in 0 .. MaxLine /\ cursor_y \in 0 .. ScrollAt - 1
    BY DEF ConsoleTypeOK
  <2>1. ASSUME NEW c \in Chars \cup {Space}, PutC(c) PROVE ConsoleTypeOK'
    BY <2>0, <2>1, DrawnType DEF PutC, ConsoleTypeOK
  <2>2. CASE Tab
    BY <2>0, <2>2 DEF Tab, ConsoleTypeOK
  <2>3. CASE NewLine
    <3>1. Scrolled \in [0 .. FbSize - 1 -> V]
      <4>1. DOMAIN fb = 0 .. FbSize - 1 /\ \A p \in 0 .. FbSize - 1 : fb[p] \in V
        BY DEF ConsoleTypeOK
      <4>2. \A p \in 0 .. FbSize - 1 :
              p < ScrollCopy => p + LineCells \in 0 .. FbSize - 1
        BY Products
      <4>3. QED
        BY <4>1, <4>2 DEF Scrolled
    <3>2. cursor_y' \in 0 .. ScrollAt - 1
      BY <2>0, <2>3 DEF NewLine, AtBottom
    <3>3. fb' \in [0 .. FbSize - 1 -> V]
      BY <2>3, <3>1 DEF NewLine, ConsoleTypeOK
    <3>4. QED
      BY <2>3, <3>2, <3>3 DEF NewLine, ConsoleTypeOK
  <2>4. CASE clear_screen
    BY <1>0, <2>4 DEF clear_screen, ConsoleTypeOK
  <2>5. CASE UNCHANGED consoleVars
    BY <2>5 DEF consoleVars, ConsoleTypeOK
  <2>6. QED
    BY <2>1, <2>2, <2>3, <2>4, <2>5 DEF ConsoleNext
<1>3. QED
  BY <1>1, <1>2, PTL DEF ConsoleSpec

-----------------------------------------------------------------------------
(* A line can take WidestLine characters before one of them would cross the  *)
(* end of the framebuffer, whichever line above ScrollAt it is               *)
(* (mstdio.h:112-122 with util.h:214).                                       *)
THEOREM WidestLineFitsCorrect == ConsoleSpec => []WidestLineFits
<1> USE ConsoleAssumption
<1>1. ConsoleTypeOK => WidestLineFits
  <2> SUFFICES ASSUME ConsoleTypeOK, NEW x \in 0 .. WidestLine - 1, NEW k \in 0 .. GlyphH - 1
               PROVE  Cell(x, cursor_y, k) \in DOMAIN fb
    BY DEF WidestLineFits, CellsOf
  <2>0. x \in Nat /\ cursor_y \in 0 .. ScrollAt - 1 /\ DOMAIN fb = 0 .. FbSize - 1
    BY DEF ConsoleTypeOK
  <2>10. cursor_y \in Nat /\ k \in Nat /\ k <= GlyphH - 1 /\ cursor_y <= ScrollAt - 1
    BY <2>0
  <2>11. /\ cursor_y * LineCells \in Int /\ (ScrollAt - 1) * LineCells \in Int
        /\ k * Cols \in Int /\ (GlyphH - 1) * Cols \in Int
    BY <2>10, Products
  <2>12. WidestLine \in Int
    BY DEF WidestLine
  <2>1. Cell(x, cursor_y, k) \in Nat
    BY <2>0, <2>10, CellType
  <2>2. k * Cols <= (GlyphH - 1) * Cols
    OBVIOUS
  <2>3. cursor_y * LineCells <= (ScrollAt - 1) * LineCells
    BY <2>0, Products
  <2>4. x < WidestLine
    BY <2>0, <2>12
  <2>5. WidestLine + ((ScrollAt - 1) * LineCells) + ((GlyphH - 1) * Cols) = FbSize
    <3>1. WidestLine = (((Rows - ScrollAt) * GlyphH) * Cols) + Cols
      BY DEF WidestLine
    <3>2. ((Rows - ScrollAt) * GlyphH) * Cols = (Rows - ScrollAt) * LineCells
      BY DEF LineCells
    <3>3. (GlyphH - 1) * Cols = LineCells - Cols
      BY DEF LineCells
    <3>4. ((Rows - ScrollAt) * LineCells) + ((ScrollAt - 1) * LineCells) + LineCells
            = Rows * LineCells
      BY Products
    <3>5. Rows * LineCells = FbSize
      BY DEF LineCells, FbSize
    <3>6. /\ (Rows - ScrollAt) * LineCells \in Int
          /\ (ScrollAt - 1) * LineCells \in Int
          /\ LineCells \in Int
      BY Products
    <3>7. QED
      BY <3>1, <3>2, <3>3, <3>4, <3>5, <3>6
  <2>6. Cell(x, cursor_y, k)
          <= x + ((ScrollAt - 1) * LineCells) + ((GlyphH - 1) * Cols)
    <3>1. \A m, a, b, c, d \in Int : a <= b /\ c <= d => m + a + c <= m + b + d
      OBVIOUS
    <3>2. x \in Int
      BY <2>0
    <3>3. x + (cursor_y * LineCells) + (k * Cols)
            <= x + ((ScrollAt - 1) * LineCells) + ((GlyphH - 1) * Cols)
      BY <2>2, <2>3, <2>11, <3>1, <3>2, ZenonT(30)
    <3>4. QED
      BY <3>3 DEF Cell
  <2>7. /\ (ScrollAt - 1) * LineCells \in Int /\ (GlyphH - 1) * Cols \in Int
        /\ WidestLine \in Int /\ FbSize \in Nat
    BY <2>11, <2>12, Products
  <2>8. Cell(x, cursor_y, k) < FbSize
    BY <2>0, <2>1, <2>4, <2>5, <2>6, <2>7
  <2>9. QED
    BY <2>0, <2>1, <2>7, <2>8
<1>2. QED
  BY <1>1, ConsoleTypeCorrect, PTL


-----------------------------------------------------------------------------
(* A number splits in one way only into a multiple of d and a remainder. *)
LEMMA SameDivision ==
  ASSUME NEW d \in Nat \ {0}, NEW a \in Int, NEW b \in Int,
         NEW r \in 0 .. d - 1, NEW s \in 0 .. d - 1, (a * d) + r = (b * d) + s
  PROVE  a = b /\ r = s
<1>1. a * d \in Int /\ b * d \in Int
  OBVIOUS
<1>2. ((a + 1) * d) = (a * d) + d /\ ((b + 1) * d) = (b * d) + d
  OBVIOUS
<1>3. a * d < (b + 1) * d /\ b * d < (a + 1) * d
  BY <1>1, <1>2
<1>4. a < b + 1 /\ b < a + 1
  BY <1>3, CancelFactor
<1>5. a = b
  BY <1>4
<1>6. QED
  BY <1>1, <1>5

(* Where the strips of a line that fits the screen lie: in as many cells as a *)
(* line of text has, and no two in the same one.                              *)
LEMMA CellInLine ==
  ASSUME NEW x \in 0 .. Cols - 1, NEW y \in Nat, NEW k \in 0 .. GlyphH - 1
  PROVE  /\ (k * Cols) + x \in 0 .. LineCells - 1
         /\ Cell(x, y, k) = (y * LineCells) + ((k * Cols) + x)
<1> USE ConsoleAssumption
<1>1. LineCells = ((GlyphH - 1) * Cols) + Cols
  BY DEF LineCells
<1>2. k * Cols <= (GlyphH - 1) * Cols
  OBVIOUS
<1>3. k * Cols \in Nat /\ y * LineCells \in Nat /\ (GlyphH - 1) * Cols \in Nat
  BY Products
<1>4. (k * Cols) + x \in 0 .. LineCells - 1
  BY <1>1, <1>2, <1>3
<1>5. Cell(x, y, k) = (y * LineCells) + ((k * Cols) + x)
  BY <1>3 DEF Cell
<1>6. QED
  BY <1>4, <1>5

(* Different strips of the text lie in different cells: none overwrites another. *)
LEMMA CellsDiffer ==
  ASSUME NEW x \in 0 .. Cols - 1, NEW y \in Nat, NEW k \in 0 .. GlyphH - 1,
         NEW u \in 0 .. Cols - 1, NEW v \in Nat, NEW l \in 0 .. GlyphH - 1,
         Cell(x, y, k) = Cell(u, v, l)
  PROVE  x = u /\ y = v /\ k = l
<1> USE ConsoleAssumption
<1>1. y = v /\ (k * Cols) + x = (l * Cols) + u
  <2>1. /\ (k * Cols) + x \in 0 .. LineCells - 1 /\ (l * Cols) + u \in 0 .. LineCells - 1
        /\ (y * LineCells) + ((k * Cols) + x) = (v * LineCells) + ((l * Cols) + u)
    BY CellInLine
  <2>2. LineCells \in Nat \ {0} /\ y \in Int /\ v \in Int
    BY Products
  <2>3. QED
    BY <2>1, <2>2, SameDivision
<1>2. k = l /\ x = u
  BY <1>1, SameDivision
<1>3. QED
  BY <1>1, <1>2

(* The lines above ScrollAt lie in the framebuffer, those above the last one  *)
(* of them where the scroll copies.                                           *)
LEMMA CellInScreen ==
  ASSUME NEW x \in 0 .. Cols - 1, NEW y \in 0 .. ScrollAt - 1, NEW k \in 0 .. GlyphH - 1
  PROVE  /\ Cell(x, y, k) \in 0 .. FbSize - 1
         /\ Cell(x, y, k) < ScrollAt * LineCells
         /\ y < ScrollAt - 1 => Cell(x, y, k) < ScrollCopy
         /\ Cell(x, y + 1, k) = Cell(x, y, k) + LineCells
<1> USE ConsoleAssumption
<1> DEFINE r == (k * Cols) + x
<1>0. y \in Nat /\ y + 1 \in Nat
  OBVIOUS
<1>1. r \in 0 .. LineCells - 1 /\ Cell(x, y, k) = (y * LineCells) + r
      /\ Cell(x, y + 1, k) = ((y + 1) * LineCells) + r
  BY <1>0, CellInLine
<1> HIDE DEF r
<1>2. \A n \in Nat : n * LineCells \in Nat /\ LineCells \in Nat
  BY Products
<1>3. (y + 1) * LineCells = (y * LineCells) + LineCells
  <2>1. LineCells \in Int
    BY <1>2
  <2>2. QED
    BY <1>0, <2>1
<1>4. \A m, n \in Nat : m <= n => m * LineCells <= n * LineCells
  <2>1. LineCells \in Nat
    BY <1>2
  <2>2. QED
    BY <2>1
<1>5. (y + 1) * LineCells <= ScrollAt * LineCells /\ ScrollAt * LineCells <= FbSize
  <2>1. Rows * LineCells = FbSize
    BY DEF LineCells, FbSize
  <2>2. ScrollAt * LineCells <= Rows * LineCells
    BY <1>4
  <2>3. QED
    BY <1>0, <1>4, <2>1, <2>2
<1>6. Cell(x, y, k) < (y + 1) * LineCells /\ Cell(x, y, k) \in Nat
  BY <1>0, <1>1, <1>2, <1>3
<1>7. y < ScrollAt - 1 => (y + 1) * LineCells <= (ScrollAt - 1) * LineCells
  BY <1>0, <1>4
<1>8. /\ (y + 1) * LineCells \in Nat /\ ScrollAt * LineCells \in Nat
      /\ (ScrollAt - 1) * LineCells \in Nat /\ FbSize \in Nat
  BY <1>0, <1>2, Products
<1>9. Cell(x, y, k) \in 0 .. FbSize - 1 /\ Cell(x, y, k) < ScrollAt * LineCells
  BY <1>5, <1>6, <1>8
<1>10. y < ScrollAt - 1 => Cell(x, y, k) < ScrollCopy
  BY <1>6, <1>7, <1>8
<1>11. Cell(x, y + 1, k) = Cell(x, y, k) + LineCells
  <2>1. y * LineCells \in Int /\ LineCells \in Int /\ r \in Int
    BY <1>0, <1>1, <1>2
  <2>2. QED
    BY <1>1, <1>3, <2>1
<1>12. QED
  BY <1>9, <1>10, <1>11

-----------------------------------------------------------------------------
(* A glyph is read back as the character it is the glyph of. *)
LEMMA CharOfGlyph ==
  ASSUME NEW c \in Chars \cup {Space}
  PROVE  CharOf(Glyph(c)) = c
<1> USE ConsoleAssumption
<1>1. \A d \in Chars \cup {Space} : Glyph(d)[0] = Strip(d, 0)
  BY DEF Glyph
<1>2. \A d \in Chars \cup {Space} : Glyph(c) = Glyph(d) => d = c
  <2> SUFFICES ASSUME NEW d \in Chars \cup {Space}, Glyph(c) = Glyph(d) PROVE d = c
    OBVIOUS
  <2>1. Strip(c, 0) = Strip(d, 0)
    BY <1>1
  <2>2. CASE c = Space
    BY <2>1, <2>2 DEF Strip, Black
  <2>3. CASE d = Space
    BY <2>1, <2>3 DEF Strip, Black
  <2>4. CASE c # Space /\ d # Space
    BY <2>1, <2>4 DEF Strip
  <2>5. QED
    BY <2>2, <2>3, <2>4
<1>3. QED
  BY <1>2 DEF CharOf

(* What is on the screen: the text of the framebuffer. *)
Shown == [y \in 0 .. ScrollAt - 1 |-> [x \in 0 .. Cols - 1 |-> CharAt(x, y)]]

(* Below the lines of text nothing is ever written, and the scroll, which     *)
(* moves up more than the text, moves black.                                  *)
BlankBelow == \A p \in 0 .. FbSize - 1 : p >= ScrollAt * LineCells => fb[p] = Black

(* A character of the text changes with its strips only. *)
LEMMA SameStrips ==
  ASSUME NEW x, NEW y, NEW u, NEW v,
         \A k \in 0 .. GlyphH - 1 : fb'[Cell(x, y, k)] = fb[Cell(u, v, k)]
  PROVE  CharAt(x, y)' = CharAt(u, v)
BY DEF CharAt

(* A character whose strips have been drawn is on the screen. *)
LEMMA NewStrips ==
  ASSUME NEW x, NEW y, NEW c \in Chars \cup {Space},
         \A k \in 0 .. GlyphH - 1 : fb'[Cell(x, y, k)] = Strip(c, k)
  PROVE  CharAt(x, y)' = c
<1>1. [k \in 0 .. GlyphH - 1 |-> fb'[Cell(x, y, k)]] = Glyph(c)
  BY DEF Glyph
<1>2. QED
  BY <1>1, CharOfGlyph DEF CharAt

-----------------------------------------------------------------------------
(* Nothing has been printed: the text is empty. *)
LEMMA BlackIsEmpty ==
  ASSUME fb' = AllBlack
  PROVE  Shown' = Screen!Empty
<1> USE ConsoleAssumption
<1>1. ASSUME NEW y \in 0 .. ScrollAt - 1, NEW x \in 0 .. Cols - 1
      PROVE  CharAt(x, y)' = Space
  <2>1. \A k \in 0 .. GlyphH - 1 : fb'[Cell(x, y, k)] = Strip(Space, k)
    BY CellInScreen DEF AllBlack, Strip
  <2>2. QED
    BY <2>1, NewStrips
<1>2. QED
  BY <1>1 DEF Shown, Screen!Empty, Screen!BlankLine

(* The screen starts empty. *)
LEMMA InitIsEmpty ==
  ASSUME ConsoleInit
  PROVE  Shown = Screen!Empty
<1> USE ConsoleAssumption
<1>1. ASSUME NEW y \in 0 .. ScrollAt - 1, NEW x \in 0 .. Cols - 1
      PROVE  CharAt(x, y) = Space
  <2>1. \A k \in 0 .. GlyphH - 1 : fb[Cell(x, y, k)] = Strip(Space, k)
    BY CellInScreen DEF ConsoleInit, AllBlack, Strip
  <2>2. [k \in 0 .. GlyphH - 1 |-> fb[Cell(x, y, k)]] = Glyph(Space)
    BY <2>1 DEF Glyph
  <2>3. QED
    BY <2>2, CharOfGlyph DEF CharAt
<1>2. QED
  BY <1>1 DEF Shown, Screen!Empty, Screen!BlankLine

(* What Drawn puts into the strips of the lines of text. *)
LEMMA DrawnStrips ==
  ASSUME ConsoleTypeOK, cursor_x < Cols, NEW c \in Chars \cup {Space}, fb' = Drawn(c),
         NEW x \in 0 .. Cols - 1, NEW y \in 0 .. ScrollAt - 1, NEW k \in 0 .. GlyphH - 1
  PROVE  fb'[Cell(x, y, k)] =
           IF x = cursor_x /\ y = cursor_y THEN Strip(c, k) ELSE fb[Cell(x, y, k)]
<1> USE ConsoleAssumption
<1>1. /\ cursor_x \in 0 .. Cols - 1 /\ cursor_y \in 0 .. ScrollAt - 1
      /\ DOMAIN fb = 0 .. FbSize - 1
  BY DEF ConsoleTypeOK
<1>2. Cell(x, y, k) \in DOMAIN fb
  BY <1>1, CellInScreen
<1>3. CASE x = cursor_x /\ y = cursor_y
  <2>1. Cell(x, y, k) \in CellsOf(cursor_x, cursor_y)
    BY <1>3 DEF CellsOf
  <2>2. cursor_y * LineCells \in Nat /\ k * Cols \in Nat
    BY <1>1, Products
  <2>3. Cell(x, y, k) - Cell(cursor_x, cursor_y, 0) = k * Cols
    BY <1>1, <1>3, <2>2 DEF Cell
  <2>4. (k * Cols) \div Cols = k
    OBVIOUS
  <2>5. QED
    BY <1>2, <1>3, <2>1, <2>3, <2>4 DEF Drawn
<1>4. CASE ~(x = cursor_x /\ y = cursor_y)
  <2>1. Cell(x, y, k) \notin CellsOf(cursor_x, cursor_y)
    <3>1. \A l \in 0 .. GlyphH - 1 : Cell(x, y, k) # Cell(cursor_x, cursor_y, l)
      BY <1>1, <1>4, CellsDiffer
    <3>2. QED
      BY <3>1 DEF CellsOf
  <2>2. QED
    BY <1>2, <1>4, <2>1 DEF Drawn
<1>5. QED
  BY <1>3, <1>4

(* PutC puts the character at the cursor and changes no other one. *)
LEMMA PutShown ==
  ASSUME ConsoleTypeOK, MaxLine = Cols, NEW c \in Chars \cup {Space}, PutC(c)
  PROVE  Shown' = [Shown EXCEPT ![cursor_y][cursor_x] = c]
<1> USE ConsoleAssumption
<1>1. /\ cursor_x \in 0 .. Cols - 1 /\ cursor_y \in 0 .. ScrollAt - 1
      /\ cursor_x < Cols /\ fb' = Drawn(c)
  BY DEF ConsoleTypeOK, PutC
<1>2. ASSUME NEW y \in 0 .. ScrollAt - 1, NEW x \in 0 .. Cols - 1
      PROVE  CharAt(x, y)' = IF x = cursor_x /\ y = cursor_y THEN c ELSE CharAt(x, y)
  <2>1. \A k \in 0 .. GlyphH - 1 :
          fb'[Cell(x, y, k)] =
            IF x = cursor_x /\ y = cursor_y THEN Strip(c, k) ELSE fb[Cell(x, y, k)]
    BY <1>1, DrawnStrips
  <2>2. CASE x = cursor_x /\ y = cursor_y
    BY <2>1, <2>2, NewStrips
  <2>3. CASE ~(x = cursor_x /\ y = cursor_y)
    BY <2>1, <2>3, SameStrips
  <2>4. QED
    BY <2>2, <2>3
<1>3. QED
  BY <1>1, <1>2 DEF Shown

(* A scroll moves every line of the text up by one, and the last one is blank. *)
LEMMA ScrollShown ==
  ASSUME ConsoleTypeOK, BlankBelow, fb' = Scrolled
  PROVE  /\ Shown' = [y \in 0 .. ScrollAt - 1 |->
                        IF y < ScrollAt - 1 THEN Shown[y + 1] ELSE Screen!BlankLine]
         /\ BlankBelow'
<1> USE ConsoleAssumption
<1>1. /\ DOMAIN fb = 0 .. FbSize - 1 /\ FbSize \in Nat /\ LineCells \in Nat
      /\ ScrollAt * LineCells \in Nat
  BY Products DEF ConsoleTypeOK
<1>2. ASSUME NEW p \in 0 .. FbSize - 1, p + LineCells >= ScrollAt * LineCells
      PROVE  fb'[p] = Black
  <2>1. CASE p < ScrollCopy
    <3>1. p + LineCells \in 0 .. FbSize - 1
      BY <1>1, <2>1
    <3>2. fb[p + LineCells] = Black
      BY <1>2, <3>1 DEF BlankBelow
    <3>3. QED
      BY <1>1, <2>1, <3>2 DEF Scrolled
  <2>2. CASE ~(p < ScrollCopy)
    BY <1>1, <2>2 DEF Scrolled
  <2>3. QED
    BY <2>1, <2>2
<1>3. BlankBelow'
  <2>1. \A p \in 0 .. FbSize - 1 :
          p >= ScrollAt * LineCells => p + LineCells >= ScrollAt * LineCells
    BY <1>1
  <2>2. QED
    BY <1>2, <2>1 DEF BlankBelow
<1>4. ASSUME NEW y \in 0 .. ScrollAt - 1, NEW x \in 0 .. Cols - 1
      PROVE  CharAt(x, y)' = IF y < ScrollAt - 1 THEN CharAt(x, y + 1) ELSE Space
  <2>1. CASE y < ScrollAt - 1
    <3>1. ASSUME NEW k \in 0 .. GlyphH - 1
          PROVE  fb'[Cell(x, y, k)] = fb[Cell(x, y + 1, k)]
      <4>1. /\ Cell(x, y, k) \in DOMAIN fb /\ Cell(x, y, k) < ScrollCopy
            /\ Cell(x, y + 1, k) = Cell(x, y, k) + LineCells
        BY <1>1, <2>1, CellInScreen
      <4>2. QED
        BY <4>1 DEF Scrolled
    <3>2. CharAt(x, y)' = CharAt(x, y + 1)
      BY <3>1, SameStrips
    <3>3. QED
      BY <2>1, <3>2
  <2>2. CASE y = ScrollAt - 1
    <3>1. ASSUME NEW k \in 0 .. GlyphH - 1
          PROVE  fb'[Cell(x, y, k)] = Strip(Space, k)
      <4>1. /\ Cell(x, y, k) \in 0 .. FbSize - 1
            /\ Cell(x, y + 1, k) = Cell(x, y, k) + LineCells
        BY CellInScreen
      <4>2. y + 1 = ScrollAt
        BY <2>2
      <4>3. Cell(x, y + 1, k) >= ScrollAt * LineCells
        <5>1. /\ (k * Cols) + x \in Nat
              /\ Cell(x, y + 1, k) = (ScrollAt * LineCells) + ((k * Cols) + x)
          <6>1. y + 1 \in Nat
            OBVIOUS
          <6>2. /\ (k * Cols) + x \in 0 .. LineCells - 1
                /\ Cell(x, y + 1, k) = ((y + 1) * LineCells) + ((k * Cols) + x)
            BY <6>1, CellInLine
          <6>3. QED
            BY <4>2, <6>2
        <5>2. QED
          BY <1>1, <5>1
      <4>4. QED
        BY <1>2, <4>1, <4>3 DEF Strip
    <3>2. QED
      BY <2>2, <3>1, NewStrips
  <2>3. QED
    BY <2>1, <2>2
<1>5. ASSUME NEW y \in 0 .. ScrollAt - 1
      PROVE  Shown'[y] = IF y < ScrollAt - 1 THEN Shown[y + 1] ELSE Screen!BlankLine
  <2>1. CASE y < ScrollAt - 1
    <3>1. y + 1 \in 0 .. ScrollAt - 1
      BY <2>1
    <3>2. \A x \in 0 .. Cols - 1 : CharAt(x, y)' = CharAt(x, y + 1)
      BY <1>4, <2>1
    <3>3. Shown[y + 1] = [x \in 0 .. Cols - 1 |-> CharAt(x, y + 1)]
      BY <3>1 DEF Shown
    <3>4. Shown'[y] = [x \in 0 .. Cols - 1 |-> CharAt(x, y)']
      BY DEF Shown
    <3>5. QED
      BY <2>1, <3>2, <3>3, <3>4
  <2>2. CASE y = ScrollAt - 1
    BY <1>4, <2>2 DEF Shown, Screen!BlankLine
  <2>3. QED
    BY <2>1, <2>2
<1>6. QED
  <2>1. Shown' = [y \in 0 .. ScrollAt - 1 |-> Shown'[y]]
    BY DEF Shown
  <2>2. QED
    BY <1>3, <1>5, <2>1

(* What is below the text stays blank as long as lines fit the screen. *)
LEMMA BlankStep ==
  ASSUME ConsoleTypeOK, MaxLine = Cols, BlankBelow, [ConsoleNext]_consoleVars
  PROVE  BlankBelow'
<1> USE ConsoleAssumption
<1>1. ASSUME NEW c \in Chars \cup {Space}, PutC(c) PROVE BlankBelow'
  <2>1. /\ cursor_x \in 0 .. Cols - 1 /\ cursor_y \in 0 .. ScrollAt - 1
        /\ DOMAIN fb = 0 .. FbSize - 1 /\ fb' = Drawn(c)
    BY <1>1 DEF ConsoleTypeOK, PutC
  <2>2. \A p \in CellsOf(cursor_x, cursor_y) : p < ScrollAt * LineCells /\ p \in Int
    BY <2>1, CellInScreen DEF CellsOf
  <2>3. ScrollAt * LineCells \in Int /\ FbSize \in Int
    BY Products
  <2>4. QED
    BY <2>1, <2>2, <2>3 DEF BlankBelow, Drawn
<1>2. CASE Tab \/ UNCHANGED consoleVars
  BY <1>2 DEF Tab, consoleVars, BlankBelow
<1>3. CASE NewLine
  <2>1. fb' = Scrolled \/ fb' = fb
    BY <1>3 DEF NewLine
  <2>2. QED
    BY <2>1, ScrollShown DEF BlankBelow
<1>4. CASE clear_screen
  BY <1>4 DEF clear_screen, AllBlack, BlankBelow
<1>5. QED
  BY <1>1, <1>2, <1>3, <1>4 DEF ConsoleNext

(* Every step of the console is a step of the screen. *)
LEMMA StepShown ==
  ASSUME ConsoleTypeOK, MaxLine = Cols, BlankBelow, [ConsoleNext]_consoleVars
  PROVE  Screen!Next \/ UNCHANGED <<Shown, cursor_x, cursor_y>>
<1> USE ConsoleAssumption
<1>1. ASSUME NEW c \in Chars \cup {Space}, PutC(c) PROVE Screen!Put(c)
  <2>1. Shown' = [Shown EXCEPT ![cursor_y][cursor_x] = c]
    BY <1>1, PutShown
  <2>2. QED
    BY <1>1, <2>1 DEF PutC, Screen!Put, Shown
<1>2. ASSUME fb' = fb PROVE Shown' = Shown
  BY <1>2 DEF Shown, CharAt
<1>3. ASSUME Tab PROVE Screen!Tab
  BY <1>2, <1>3 DEF Tab, Screen!Tab, Shown
<1>4. ASSUME NewLine PROVE Screen!NewLine
  <2>1. cursor_y \in 0 .. ScrollAt - 1
    BY DEF ConsoleTypeOK
  <2>2. CASE cursor_y < ScrollAt - 1
    <3>1. ~AtBottom(cursor_y + 1)
      BY <2>1, <2>2 DEF AtBottom
    <3>2. QED
      BY <1>2, <1>4, <2>2, <3>1 DEF NewLine, Screen!NewLine, Shown
  <2>3. CASE ~(cursor_y < ScrollAt - 1)
    <3>1. AtBottom(cursor_y + 1)
      BY <2>1, <2>3 DEF AtBottom
    <3>2. fb' = Scrolled /\ cursor_x' = 0 /\ UNCHANGED cursor_y
      BY <1>4, <3>1 DEF NewLine
    <3>3. Shown' = [y \in 0 .. ScrollAt - 1 |->
                      IF y < ScrollAt - 1 THEN Shown[y + 1] ELSE Screen!BlankLine]
      BY <3>2, ScrollShown
    <3>4. QED
      BY <2>3, <3>2, <3>3 DEF Screen!NewLine, Shown
  <2>4. QED
    BY <2>2, <2>3
<1>5. ASSUME clear_screen PROVE Screen!Clear
  BY <1>5, BlackIsEmpty DEF clear_screen, Screen!Clear, Shown
<1>6. CASE UNCHANGED consoleVars
  BY <1>2, <1>6 DEF consoleVars
<1>7. QED
  BY <1>1, <1>3, <1>4, <1>5, <1>6 DEF ConsoleNext, Screen!Next

(* As long as lines fit the screen, the framebuffer shows the text of the     *)
(* abstract screen, on every screen geometry (mstdio.h:107-155,               *)
(* util.h:210-238).                                                           *)
THEOREM ShowsTextCorrect == MaxLine = Cols => (ConsoleSpec => ShowsText)
<1> SUFFICES ASSUME MaxLine = Cols PROVE ConsoleSpec => ShowsText
  OBVIOUS
<1>1. ConsoleInit => Screen!Init
  <2> SUFFICES ASSUME ConsoleInit PROVE Screen!Init
    OBVIOUS
  <2>1. Shown = Screen!Empty
    BY InitIsEmpty
  <2>2. QED
    BY <2>1, ConsoleAssumption DEF ConsoleInit, Screen!Init, Shown
<1>2. ConsoleInit => BlankBelow
  BY ConsoleAssumption DEF ConsoleInit, AllBlack, BlankBelow
<1>3. ConsoleTypeOK /\ BlankBelow /\ [ConsoleNext]_consoleVars => BlankBelow'
  BY BlankStep
<1>4. ConsoleTypeOK /\ BlankBelow /\ [ConsoleNext]_consoleVars
        => [Screen!Next]_<<Shown, cursor_x, cursor_y>>
  BY StepShown
<1>5. QED
  BY <1>1, <1>2, <1>3, <1>4, ConsoleTypeCorrect, PTL DEF ConsoleSpec, ShowsText, Screen!Spec, Shown

=============================================================================
