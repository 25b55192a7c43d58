---------------------------- MODULE ShellProofs -----------------------------
(***************************************************************************)
(* Theorems about Shell for every length of the buffer, of argv and of the *)
(* registry, every series of names and every input.                        *)
(***************************************************************************)
EXTENDS Shell, TLAPS

(* The inductive invariant.  What is stored below the index is what was    *)
(* typed since the buffer was last full.                                   *)
StoredInv ==
  /\ message_index_ = Len(typed) % kCommandPromptLengthMax
  /\ \A i \in 0 .. (message_index_ - 1) :
       message_buffer_[i] = typed[(Len(typed) - message_index_) + i + 1]

(* The registry holds the first names, as many as fit.                     *)
RegistryInv ==
  /\ Len(commands_) = IF registrations <= kCommandsMax THEN registrations ELSE kCommandsMax
  /\ \A k \in 1 .. Len(commands_) : commands_[k] = Names[k]
  /\ ~SetupDone => called = NoCallback

ShellInv == TypeOK /\ StoredInv /\ RegistryInv

-----------------------------------------------------------------------------
(* Arithmetic: a quotient and a remainder, and how they grow.              *)
LEMMA DivMod ==
  ASSUME NEW m \in Nat \ {0}, NEW y \in Nat
  PROVE  y = m * (y \div m) + (y % m) /\ y % m \in 0 .. (m - 1) /\ y \div m \in Int
  OBVIOUS

LEMMA ModAtMost ==
  ASSUME NEW m \in Nat \ {0}, NEW y \in Nat
  PROVE  y % m \in 0 .. (m - 1) /\ y % m <= y
<1> DEFINE q == y \div m
           r == y % m
<1>1. y = m * q + r /\ r \in 0 .. (m - 1) /\ q \in Int
  BY DivMod
<1> HIDE DEF q, r
<1>2. q >= 0
  <2> SUFFICES ASSUME q <= -1 PROVE FALSE
    BY <1>1
  <2>1. m * q <= -m
    BY <1>1
  <2> QED BY <1>1, <2>1
<1>3. m * q \in Nat
  BY <1>1, <1>2
<1>4. r \in 0 .. (m - 1) /\ r <= y
  BY <1>1, <1>3
<1> QED BY <1>4 DEF r

LEMMA Remainder ==
  ASSUME NEW m \in Nat \ {0}, NEW q \in Int, NEW p \in Int,
         NEW r \in 0 .. (m - 1), NEW s \in 0 .. (m - 1), m * q + r = m * p + s
  PROVE  r = s
<1>1. CASE q = p
  BY <1>1
<1>2. CASE q > p
  <2>1. m * (q - p) >= m
    BY <1>2
  <2>2. m * (q - p) = m * q - m * p /\ m * q \in Int /\ m * p \in Int
    OBVIOUS
  <2> QED BY <2>1, <2>2
<1>3. CASE q < p
  <2>1. m * (p - q) >= m
    BY <1>3
  <2>2. m * (p - q) = m * p - m * q /\ m * q \in Int /\ m * p \in Int
    OBVIOUS
  <2> QED BY <2>1, <2>2
<1> QED BY <1>1, <1>2, <1>3

(* The remainder of the next number is the next one, or starts again.      *)
LEMMA ModNext ==
  ASSUME NEW m \in Nat \ {0}, NEW y \in Nat
  PROVE  (y + 1) % m = IF (y % m) + 1 >= m THEN 0 ELSE (y % m) + 1
<1> DEFINE q == y \div m
           r == y % m
           z == y + 1
           zq == z \div m
           zr == z % m
           s == IF r + 1 >= m THEN 0 ELSE r + 1
           p == IF r + 1 >= m THEN q + 1 ELSE q
<1>1. y = m * q + r /\ r \in 0 .. (m - 1) /\ q \in Int
  BY DivMod
<1>2. z \in Nat
  OBVIOUS
<1>3. z = m * zq + zr /\ zr \in 0 .. (m - 1) /\ zq \in Int
  <2> HIDE DEF z
  <2> QED BY <1>2, DivMod
<1>4. z = y + 1
  OBVIOUS
<1> HIDE DEF q, r, z, zq, zr
<1>5. s \in 0 .. (m - 1) /\ p \in Int
  BY <1>1
<1>6. m * p + s = z
  <2>1. CASE r + 1 >= m
    <3>1. r + 1 = m /\ s = 0 /\ p = q + 1
      BY <1>1, <2>1
    <3>2. m * (q + 1) = m * q + m /\ m * q \in Int
      BY <1>1
    <3>3. m * p = m * q + m
      BY <3>1, <3>2
    <3> QED BY <1>1, <1>4, <3>1, <3>2, <3>3
  <2>2. CASE ~(r + 1 >= m)
    <3>1. s = r + 1 /\ p = q /\ m * q \in Int
      BY <1>1, <2>2
    <3> QED BY <1>1, <1>4, <3>1
  <2> QED BY <2>1, <2>2
<1> HIDE DEF s, p
<1>7. m * zq + zr = m * p + s
  BY <1>3, <1>6, Zenon
<1>8. zr = s
  BY <1>3, <1>5, <1>7, Remainder
<1> QED BY <1>8 DEF zr, s, r, z

(* The least of two numbers.                                               *)
LEMMA MinOfTwo ==
  ASSUME NEW a \in Nat, NEW b \in Nat
  PROVE  Min({a, b}) = IF a <= b THEN a ELSE b
  BY DEF Min

(* The least member of a set is known by being one.                        *)
LEMMA MinIs ==
  ASSUME NEW S \in SUBSET Nat, NEW a \in S, \A b \in S : a <= b
  PROVE  Min(S) = a
<1>1. Min(S) \in S /\ \A b \in S : Min(S) <= b
  <2>1. \E x \in S : \A b \in S : x <= b
    OBVIOUS
  <2> QED BY <2>1, Zenon DEF Min
<1> DEFINE least == Min(S)
<1>2. least \in Nat /\ a \in Nat /\ least <= a /\ a <= least
  BY <1>1
<1> HIDE DEF least
<1>3. least = a
  BY <1>2
<1> QED BY <1>3 DEF least

-----------------------------------------------------------------------------
(* The text in the terminated buffer is what is left of the typed line.    *)
LEMMA TextIsLine ==
  ASSUME TypeOK, StoredInv
  PROVE  Text([message_buffer_ EXCEPT ![message_index_] = "NUL"]) = Line
<1> USE ShellAssumption
<1> DEFINE K == kCommandPromptLengthMax
           b == [message_buffer_ EXCEPT ![message_index_] = "NUL"]
           n == Len(typed)
           m == message_index_
           ends == {i \in DOMAIN b : b[i] = "NUL"} \cup {K}
<1>1. /\ K \in Nat \ {0} /\ n \in Nat /\ m \in 0 .. (K - 1) /\ m = n % K /\ m <= n
      /\ typed \in Seq(Letters \cup {"blank"}) /\ message_buffer_ \in Buffer
  <2>1. K \in Nat \ {0} /\ n \in Nat
    BY DEF TypeOK
  <2>2. n % K \in 0 .. (K - 1) /\ n % K <= n
    <3> HIDE DEF K, n
    <3> QED BY <2>1, ModAtMost
  <2> QED BY <2>1, <2>2 DEF TypeOK, StoredInv
<1>2. DOMAIN b = 0 .. (K - 1) /\ b[m] = "NUL" /\ \A i \in 0 .. (m - 1) : b[i] = message_buffer_[i]
  BY <1>1 DEF Buffer
<1>3. \A i \in 0 .. (m - 1) : b[i] = typed[(n - m) + i + 1] /\ b[i] # "NUL"
  <2> SUFFICES ASSUME NEW i \in 0 .. (m - 1)
               PROVE  b[i] = typed[(n - m) + i + 1] /\ b[i] # "NUL"
    OBVIOUS
  <2>1. b[i] = typed[(n - m) + i + 1]
    BY <1>2 DEF StoredInv
  <2>2. (n - m) + i + 1 \in 1 .. n
    BY <1>1
  <2>3. typed[(n - m) + i + 1] \in Letters \cup {"blank"}
    BY <1>1, <2>2
  <2> QED BY <2>1, <2>3
<1>4. Min(ends) = m
  <2>1. ends \in SUBSET Nat /\ m \in ends
    BY <1>1, <1>2
  <2>2. \A e \in ends : m <= e
    BY <1>1, <1>2, <1>3
  <2> HIDE DEF ends
  <2> QED BY <2>1, <2>2, MinIs
<1>5. Text(b) = [i \in 1 .. m |-> b[i - 1]]
  BY <1>4 DEF Text
<1>6. Line = [i \in 1 .. m |-> typed[(n - m) + i]]
  <2>1. Line = SubSeq(typed, (n - m) + 1, n)
    BY <1>1 DEF Line
  <2>2. SubSeq(typed, (n - m) + 1, n) = [i \in 1 .. m |-> typed[(n - m) + i]]
    <3> HIDE DEF n, m
    <3>1. n - ((n - m) + 1) + 1 = m
      BY <1>1
    <3> QED BY <1>1, <3>1
  <2> QED BY <2>1, <2>2
<1>7. \A i \in 1 .. m : b[i - 1] = typed[(n - m) + i]
  <2> SUFFICES ASSUME NEW i \in 1 .. m PROVE b[i - 1] = typed[(n - m) + i]
    OBVIOUS
  <2>1. i - 1 \in 0 .. (m - 1) /\ (n - m) + (i - 1) + 1 = (n - m) + i
    BY <1>1
  <2> HIDE DEF b
  <2> QED BY <1>3, <2>1
<1> HIDE DEF b
<1> QED BY <1>5, <1>6, <1>7 DEF b

-----------------------------------------------------------------------------
(* The invariant holds at the start, where the buffer is all zeros.        *)
LEMMA InitInv == Init => ShellInv
<1> SUFFICES ASSUME Init PROVE ShellInv
  OBVIOUS
<1> USE ShellAssumption
<1>1. Len(Names) \in Nat /\ Len(typed) = 0 /\ Len(commands_) = 0
  BY DEF Init
<1>2. TypeOK
  BY <1>1 DEF Init, TypeOK, Buffer
<1>3. StoredInv
  <2>1. 0 % kCommandPromptLengthMax = 0
    BY ModAtMost
  <2> QED BY <1>1, <2>1 DEF Init, StoredInv
<1>4. RegistryInv
  BY <1>1 DEF Init, RegistryInv
<1> QED BY <1>2, <1>3, <1>4 DEF ShellInv

(* setup() fills the registry in order, and drops what does not fit.       *)
LEMMA RegisterKeeps ==
  ASSUME ShellInv, RegisterCommand
  PROVE  ShellInv'
<1> USE ShellAssumption
<1>1. /\ registrations \in 0 .. Len(Names) /\ registrations # Len(Names) /\ Len(Names) \in Nat
      /\ commands_ \in Seq(Seq(Letters)) /\ Len(commands_) \in Nat
      /\ registrations + 1 \in 1 .. Len(Names)
  BY DEF ShellInv, TypeOK, RegisterCommand, SetupDone
<1>2. Names[registrations + 1] \in Seq(Letters)
  BY <1>1
<1>3. /\ commands_' \in Seq(Seq(Letters)) /\ Len(commands_') <= kCommandsMax
      /\ Len(commands_') = IF Len(commands_) >= kCommandsMax THEN Len(commands_)
                           ELSE Len(commands_) + 1
  BY <1>1, <1>2 DEF ShellInv, TypeOK, RegisterCommand
<1>4. \A k \in 1 .. Len(commands_') : commands_'[k] = Names[k]
  <2>1. CASE Len(commands_) >= kCommandsMax
    BY <2>1 DEF RegisterCommand, ShellInv, RegistryInv
  <2>2. CASE ~(Len(commands_) >= kCommandsMax)
    <3>1. Len(commands_) = registrations
      BY <1>1, <2>2 DEF ShellInv, RegistryInv
    <3>2. commands_' = Append(commands_, Names[registrations + 1])
      BY <2>2 DEF RegisterCommand
    <3> SUFFICES ASSUME NEW k \in 1 .. Len(commands_') PROVE commands_'[k] = Names[k]
      OBVIOUS
    <3>3. CASE k = registrations + 1
      BY <1>1, <3>1, <3>2, <3>3
    <3>4. CASE k \in 1 .. Len(commands_)
      BY <1>1, <3>2, <3>4 DEF ShellInv, RegistryInv
    <3> QED BY <1>1, <1>3, <2>2, <3>1, <3>3, <3>4
  <2> QED BY <2>1, <2>2
<1>5. TypeOK'
  BY <1>1, <1>3 DEF RegisterCommand, ShellInv, TypeOK
<1>6. StoredInv'
  BY DEF RegisterCommand, ShellInv, StoredInv
<1>7. Len(commands_') = IF registrations' <= kCommandsMax THEN registrations' ELSE kCommandsMax
  BY <1>1, <1>3 DEF RegisterCommand, ShellInv, RegistryInv
<1>8. called' = NoCallback
  BY DEF RegisterCommand, ShellInv, RegistryInv
<1> QED BY <1>4, <1>5, <1>6, <1>7, <1>8 DEF ShellInv, RegistryInv

(* A byte goes to the place that the number of bytes before it gives.      *)
LEMMA ReceiveKeeps ==
  ASSUME ShellInv, NEW byte \in Bytes, Receive(byte)
  PROVE  ShellInv'
<1> USE ShellAssumption
<1>1. RegistryInv' /\ called' = NoCallback
  BY DEF ShellInv, RegistryInv, Receive, SetupDone
<1>2. CASE byte = "LF"
  <2>1. TypeOK' /\ StoredInv'
    BY <1>2 DEF ShellInv, TypeOK, StoredInv, Receive
  <2> QED BY <1>1, <2>1 DEF ShellInv
<1>3. CASE byte # "LF"
  <2> DEFINE K == kCommandPromptLengthMax
             n == Len(typed)
             m == message_index_
  <2>1. /\ K \in Nat \ {0} /\ n \in Nat /\ m \in 0 .. (K - 1) /\ m = n % K /\ m <= n
        /\ typed \in Seq(Letters \cup {"blank"}) /\ message_buffer_ \in Buffer
        /\ byte \in Letters \cup {"blank"}
    <3>1. K \in Nat \ {0} /\ n \in Nat
      BY DEF ShellInv, TypeOK
    <3>2. n % K <= n
      <4> HIDE DEF K, n
      <4> QED BY <3>1, ModAtMost
    <3> QED BY <1>3, <3>1, <3>2 DEF ShellInv, TypeOK, StoredInv, Bytes
  <2>2. /\ message_buffer_' = [message_buffer_ EXCEPT ![m] = byte]
        /\ message_index_' = IF m + 1 >= K THEN 0 ELSE m + 1
        /\ typed' = Append(typed, byte)
    BY <1>3 DEF Receive, Store
  <2>3. typed' \in Seq(Letters \cup {"blank"}) /\ Len(typed') = n + 1
    BY <2>1, <2>2
  <2>4. (n + 1) % K = IF m + 1 >= K THEN 0 ELSE m + 1
    <3>1. (n + 1) % K = IF (n % K) + 1 >= K THEN 0 ELSE (n % K) + 1
      <4> HIDE DEF K, n
      <4> QED BY <2>1, ModNext
    <3> QED BY <2>1, <3>1
  <2>5. TypeOK'
    <3>1. message_buffer_' \in Buffer
      BY <2>1, <2>2 DEF Buffer
    <3>2. message_index_' \in 0 .. (K - 1)
      BY <2>1, <2>2
    <3> QED BY <2>3, <3>1, <3>2 DEF ShellInv, TypeOK, Receive
  <2>6. ASSUME NEW i \in 0 .. (message_index_' - 1)
        PROVE  message_buffer_'[i] = typed'[(Len(typed') - message_index_') + i + 1]
    <3>1. m + 1 < K /\ message_index_' = m + 1
      BY <2>1, <2>2
    <3>2. i \in 0 .. m /\ (Len(typed') - message_index_') + i + 1 = (n - m) + i + 1
      BY <2>1, <2>3, <3>1
    <3>3. CASE i = m
      <4>1. message_buffer_'[i] = byte
        BY <2>1, <2>2, <3>3 DEF Buffer
      <4>2. (n - m) + i + 1 = n + 1
        BY <2>1, <3>3
      <4>3. typed'[n + 1] = byte
        BY <2>1, <2>2
      <4> HIDE DEF n, m
      <4> QED BY <3>2, <4>1, <4>2, <4>3
    <3>4. CASE i \in 0 .. (m - 1)
      <4>1. message_buffer_'[i] = message_buffer_[i]
        BY <2>1, <2>2, <3>4 DEF Buffer
      <4>2. message_buffer_[i] = typed[(n - m) + i + 1]
        BY <3>4 DEF ShellInv, StoredInv
      <4>3. (n - m) + i + 1 \in 1 .. n
        BY <2>1, <3>4
      <4>4. typed'[(n - m) + i + 1] = typed[(n - m) + i + 1]
        BY <2>1, <2>2, <4>3
      <4> HIDE DEF n, m
      <4> QED BY <3>2, <4>1, <4>2, <4>4
    <3> QED BY <2>1, <3>2, <3>3, <3>4
  <2>7. StoredInv'
    BY <2>2, <2>3, <2>4, <2>6 DEF StoredInv
  <2> QED BY <1>1, <2>5, <2>7 DEF ShellInv
<1> QED BY <1>2, <1>3

(* A carriage return starts the next line at the start of the buffer.      *)
LEMMA ReturnKeeps ==
  ASSUME ShellInv, ReceiveReturn
  PROVE  ShellInv'
<1> USE ShellAssumption
<1>1. RegistryInv'
  BY DEF ShellInv, RegistryInv, ReceiveReturn, SetupDone
<1>2. message_buffer_' \in Buffer
  <2> DEFINE b == [message_buffer_ EXCEPT ![message_index_] = "NUL"]
  <2>1. b \in Buffer
    BY DEF ShellInv, TypeOK, Buffer
  <2>2. message_buffer_' = Split(b)
    BY DEF ReceiveReturn
  <2> HIDE DEF b
  <2>3. \E ends : Split(b) = [i \in DOMAIN b |-> IF i + 1 \in ends THEN "NUL" ELSE b[i]]
    BY Zenon DEF Split
  <2> QED BY <2>1, <2>2, <2>3 DEF Buffer
<1>3. Len(typed') = 0 /\ message_index_' = 0 /\ typed' = <<>>
  BY DEF ReceiveReturn
<1>4. TypeOK'
  BY <1>2, <1>3 DEF ShellInv, TypeOK, ReceiveReturn
<1>5. StoredInv'
  <2>1. 0 % kCommandPromptLengthMax = 0
    BY ModAtMost
  <2> QED BY <1>3, <2>1 DEF StoredInv
<1> QED BY <1>1, <1>4, <1>5 DEF ShellInv

LEMMA NextInv == ShellInv /\ [Next]_vars => ShellInv'
<1> SUFFICES ASSUME ShellInv, [Next]_vars PROVE ShellInv'
  OBVIOUS
<1>1. CASE RegisterCommand
  BY <1>1, RegisterKeeps
<1>2. CASE \E byte \in Bytes : Receive(byte)
  BY <1>2, ReceiveKeeps
<1>3. CASE ReceiveReturn
  BY <1>3, ReturnKeeps
<1>4. CASE UNCHANGED vars
  BY <1>4 DEF ShellInv, TypeOK, StoredInv, RegistryInv, SetupDone, vars
<1> QED BY <1>1, <1>2, <1>3, <1>4 DEF Next

LEMMA AlwaysShellInv == Spec => []ShellInv
  BY InitInv, NextInv, PTL DEF Spec

-----------------------------------------------------------------------------
(* No byte is ever stored outside the buffer and no command outside the    *)
(* registry, however long a line is and however many commands setup()      *)
(* registers: the index starts again before it passes the end of the       *)
(* buffer, and register_command drops what does not fit                    *)
(* (shell.cpp:40-76).                                                      *)
THEOREM StaysInside == Spec => []TypeOK
  BY AlwaysShellInv, PTL DEF ShellInv

(* A carriage return executes the words of the line typed since the last   *)
(* one ended and nothing that longer lines left behind in the buffer, and  *)
(* the first word selects the command of that name, or the default for a   *)
(* name that the registry does not hold (process_input, parse_message and  *)
(* execute_callback, shell.cpp:51-103).                                    *)
THEOREM RunsWhatWasTyped == Spec => ExecutesTypedLine
<1> DEFINE A == called' # NoCallback =>
             /\ called'.argv = FirstWords(Line, kCommandArgMax - 1)
             /\ called'.argv # <<>> =>
                  \/ \E k \in 1 .. Min({kCommandsMax, Len(Names)}) :
                       called'.argv[1] = Names[k] /\ called'.callback = Names[k]
                  \/ /\ \A k \in 1 .. Min({kCommandsMax, Len(Names)}) :
                          called'.argv[1] # Names[k]
                     /\ called'.callback = Default
<1>1. ASSUME ShellInv, RegisterCommand PROVE A
  BY <1>1 DEF ShellInv, RegistryInv, RegisterCommand
<1>2. ASSUME ShellInv, NEW byte \in Bytes, Receive(byte) PROVE A
  BY <1>2 DEF Receive
<1>3. ASSUME ShellInv, ReceiveReturn PROVE A
  <2> USE ShellAssumption
  <2> DEFINE b    == [message_buffer_ EXCEPT ![message_index_] = "NUL"]
             argv == FirstWords(Text(b), kCommandArgMax - 1)
             held == Min({kCommandsMax, Len(Names)})
  <2>1. Text(b) = Line
    BY <1>3, TextIsLine DEF ShellInv
  <2>2. PICK callback \in Callbacks(argv) : called' = [callback |-> callback, argv |-> argv]
    BY <1>3 DEF ReceiveReturn
  <2>3. called'.argv = FirstWords(Line, kCommandArgMax - 1)
    <3> HIDE DEF b
    <3>1. called'.argv = argv
      BY <2>2
    <3> QED BY <2>1, <3>1, Zenon DEF argv
  <2>4. held = Len(commands_)
    <3>1. Len(Names) \in Nat /\ kCommandsMax \in Nat /\ registrations = Len(Names)
      BY <1>3 DEF ReceiveReturn, SetupDone
    <3>2. held = IF kCommandsMax <= Len(Names) THEN kCommandsMax ELSE Len(Names)
      BY <3>1, MinOfTwo
    <3> HIDE DEF held
    <3> QED BY <1>3, <3>1, <3>2 DEF ShellInv, RegistryInv
  <2>5. ToSet(commands_) = {Names[k] : k \in 1 .. held}
    <3> HIDE DEF held
    <3>1. DOMAIN commands_ = 1 .. held
      BY <1>3, <2>4 DEF ShellInv, TypeOK
    <3>2. \A k \in 1 .. held : commands_[k] = Names[k]
      BY <1>3, <2>4 DEF ShellInv, RegistryInv
    <3> QED BY <3>1, <3>2 DEF ToSet
  <2> HIDE DEF argv, held
  <2>6. ASSUME argv # <<>>
        PROVE  \/ \E k \in 1 .. held : argv[1] = Names[k] /\ callback = Names[k]
               \/ (\A k \in 1 .. held : argv[1] # Names[k]) /\ callback = Default
    <3>1. callback = IF argv[1] \in ToSet(commands_) THEN argv[1] ELSE Default
      BY <2>2, <2>6 DEF Callbacks
    <3> QED BY <2>5, <3>1
  <2>7. called'.argv = argv /\ called'.callback = callback
    BY <2>2
  <2> QED BY <2>3, <2>6, <2>7 DEF held
<1>4. ASSUME ShellInv, [Next]_vars PROVE [A]_vars
  BY <1>1, <1>2, <1>3, <1>4 DEF Next
<1>5. Spec => [][A]_vars
  <2> HIDE DEF A
  <2> QED BY <1>4, AlwaysShellInv, PTL DEF Spec
<1> QED BY <1>5 DEF ExecutesTypedLine
=============================================================================
