---------------------------- MODULE EncoderProofs ---------------------------
(***************************************************************************)
(* Theorems about Encoder for every number of encoders and slots, every    *)
(* width of the count, every way the wheels turn, and every interleaving.  *)
(***************************************************************************)
EXTENDS Encoder, TLAPS

(* Arithmetic modulo m.                                                    *)
LEMMA DivMod ==
  ASSUME NEW m \in Nat \ {0}, NEW y \in Int
  PROVE  y = m * (y \div m) + (y % m) /\ y % m \in 0 .. (m - 1) /\ y \div m \in Int
  OBVIOUS

LEMMA DivModNat ==
  ASSUME NEW m \in Nat \ {0}, NEW y \in Nat
  PROVE  /\ y \div m \in Nat /\ m * (y \div m) \in Nat /\ m * (y \div m) <= y
         /\ y % m \in Nat /\ y % m <= y
<1> DEFINE q == y \div m
           r == y % m
<1>1. y = m * q + r /\ r \in 0 .. (m - 1) /\ q \in Int
  BY DivMod
<1> HIDE DEF q, r
<1>2. q >= 0
  <2> SUFFICES ASSUME q <= -1 PROVE FALSE
    BY <1>1
  <2>1. m * q <= -m
    BY <1>1
  <2> QED BY <1>1, <2>1
<1>3. m * q \in Nat
  BY <1>1, <1>2
<1> QED BY <1>1, <1>2, <1>3 DEF q, r

LEMMA DivModUnique ==
  ASSUME NEW m \in Nat \ {0}, NEW q \in Int, NEW p \in Int,
         NEW r \in 0 .. (m - 1), NEW s \in 0 .. (m - 1), m * q + r = m * p + s
  PROVE  r = s /\ q = p
<1>1. CASE q = p
  BY <1>1
<1>2. CASE q > p
  <2>1. m * (q - p) >= m
    BY <1>2
  <2>2. m * (q - p) = m * q - m * p /\ m * q \in Int /\ m * p \in Int
    OBVIOUS
  <2> QED BY <2>1, <2>2
<1>3. CASE q < p
  <2>1. m * (p - q) >= m
    BY <1>3
  <2>2. m * (p - q) = m * p - m * q /\ m * q \in Int /\ m * p \in Int
    OBVIOUS
  <2> QED BY <2>1, <2>2
<1> QED BY <1>1, <1>2, <1>3

(* Adding a multiple of m.                                                 *)
LEMMA DivModShift ==
  ASSUME NEW m \in Nat \ {0}, NEW y \in Int, NEW k \in Int
  PROVE  (y + m * k) % m = y % m /\ (y + m * k) \div m = (y \div m) + k
<1> DEFINE z == y + m * k
<1>1. m * k \in Int /\ z \in Int
  OBVIOUS
<1>2. z = m * (z \div m) + (z % m) /\ z % m \in 0 .. (m - 1) /\ z \div m \in Int
  BY <1>1, DivMod
<1>3. y = m * (y \div m) + (y % m) /\ y % m \in 0 .. (m - 1) /\ y \div m \in Int
  BY DivMod
<1>4. m * ((y \div m) + k) = m * (y \div m) + m * k
  BY <1>3
<1>5. z = m * ((y \div m) + k) + (y % m)
  BY <1>1, <1>3, <1>4
<1>6. (y \div m) + k \in Int
  BY <1>3
<1> HIDE DEF z
<1>7. m * (z \div m) + (z % m) = m * ((y \div m) + k) + (y % m)
  BY <1>2, <1>5, Zenon
<1> DEFINE zq == z \div m
           zr == z % m
           yq == (y \div m) + k
           yr == y % m
<1>8. /\ m * zq + zr = m * yq + yr /\ zq \in Int /\ yq \in Int
      /\ zr \in 0 .. (m - 1) /\ yr \in 0 .. (m - 1)
  BY <1>2, <1>3, <1>6, <1>7
<1> HIDE DEF zq, zr, yq, yr
<1>9. zr = yr /\ zq = yq
  BY <1>8, DivModUnique
<1> QED BY <1>9 DEF z, zq, zr, yq, yr

LEMMA ModShift ==
  ASSUME NEW m \in Nat \ {0}, NEW y \in Int, NEW k \in Int
  PROVE  (y + m * k) % m = y % m
  BY DivModShift

LEMMA ModAdd ==
  ASSUME NEW m \in Nat \ {0}, NEW x \in Int, NEW d \in Int
  PROVE  ((x % m) + d) % m = (x + d) % m
<1> DEFINE k == x \div m
           y == (x % m) + d
           z == x + d
<1>1. k \in Int /\ y \in Int /\ z = y + m * k
  BY DivMod
<1> HIDE DEF k, y, z
<1>2. (y + m * k) % m = y % m
  BY <1>1, ModShift
<1>3. z % m = y % m
  BY <1>1, <1>2, Zenon
<1> QED BY <1>3 DEF y, z

LEMMA ModMod ==
  ASSUME NEW b \in Nat \ {0}, NEW k \in Nat \ {0}, NEW m \in Nat \ {0}, m = b * k,
         NEW x \in Int
  PROVE  (x % m) % b = x % b
<1> DEFINE q == x \div m
           r == x % m
           j == k * q
<1>1. q \in Int /\ r \in 0 .. (m - 1) /\ x = m * q + r
  BY DivMod, Zenon
<1> HIDE DEF q, r
<1>2. m * q = b * j /\ j \in Int /\ b * j \in Int
  <2>1. (b * k) * q = b * (k * q) /\ k * q \in Int /\ b * (k * q) \in Int
    BY <1>1
  <2> QED BY <2>1
<1> HIDE DEF j
<1>3. (r + b * j) % b = r % b
  <2>1. r \in Int
    BY <1>1
  <2> QED BY <2>1, <1>2, ModShift, Zenon
<1>4. x = r + b * j
  BY <1>1, <1>2
<1>5. x % b = r % b
  BY <1>3, <1>4, Zenon
<1> QED BY <1>5 DEF r

LEMMA ModSmall ==
  ASSUME NEW m \in Nat \ {0}, NEW x \in 0 .. (m - 1)
  PROVE  x % m = x
  OBVIOUS

-----------------------------------------------------------------------------
(* The Gray code of the channels.                                          *)
LEMMA CodeValue ==
  ASSUME NEW p \in Int
  PROVE  /\ p % 4 \in 0 .. 3
         /\ p % 4 = 0 => Code(p) = 0
         /\ p % 4 = 1 => Code(p) = 1
         /\ p % 4 = 2 => Code(p) = 3
         /\ p % 4 = 3 => Code(p) = 2
         /\ Code(p) \in 0 .. 3
  BY DEF Code

LEMMA CodeInjective ==
  ASSUME NEW p \in Int, NEW q \in Int, Code(p) = Code(q)
  PROVE  p % 4 = q % 4
  BY CodeValue

LEMMA BitsOfCode ==
  ASSUME NEW c \in 0 .. 3
  PROVE  /\ Bit(c, "a") \in 0 .. 1 /\ Bit(c, "b") \in 0 .. 1
         /\ 2 * Bit(c, "b") + Bit(c, "a") = c
  BY DEF Bit

(* Of four neighbouring positions exactly one has a given code.            *)
LEMMA SampleExists ==
  ASSUME NEW p \in Int, NEW c \in 0 .. 3
  PROVE  \E q \in (p - 1) .. (p + 2) : Code(q) = c
<1>1. PICK r \in 0 .. 3 : \A q \in Int : q % 4 = r => Code(q) = c
  <2>1. c = 0 \/ c = 1 \/ c = 2 \/ c = 3
    OBVIOUS
  <2> QED BY <2>1, CodeValue
<1>2. \E q \in (p - 1) .. (p + 2) : q % 4 = r
  <2>1. \/ (p - 1) % 4 = r \/ p % 4 = r \/ (p + 1) % 4 = r \/ (p + 2) % 4 = r
    OBVIOUS
  <2> QED BY <2>1
<1> QED BY <1>1, <1>2

LEMMA SampleUnique ==
  ASSUME NEW p \in Int, NEW q \in (p - 1) .. (p + 2), Code(q) = Code(p)
  PROVE  q = p
<1>1. q \in Int /\ q % 4 = p % 4
  BY CodeInjective
<1> QED BY <1>1

(* The table counts a step of one quarter period, in both directions.      *)
LEMMA DeltaOfStep ==
  ASSUME NEW p \in Int, NEW d \in {-1, 0, 1}
  PROVE  TicksDelta(Code(p), Code(p + d)) = d
<1>1. p % 4 \in 0 .. 3 /\ (p + d) % 4 \in 0 .. 3 /\ p + d \in Int
  OBVIOUS
<1>2. (p + d) % 4 = ((p % 4) + d) % 4
  OBVIOUS
<1> QED BY <1>1, <1>2, CodeValue DEF TicksDelta, kTicksDelta

LEMMA DeltaType ==
  ASSUME NEW a \in 0 .. 3, NEW b \in 0 .. 3
  PROVE  TicksDelta(a, b) \in {-1, 0, 1}
<1>1. (a = 0 \/ a = 1 \/ a = 2 \/ a = 3) /\ (b = 0 \/ b = 1 \/ b = 2 \/ b = 3)
  OBVIOUS
<1> QED BY <1>1 DEF TicksDelta, kTicksDelta

LEMMA ModulusPositive == LongModulus \in Nat \ {0}
  BY EncoderAssumption, PowerAssumption DEF LongModulus

-----------------------------------------------------------------------------
(* The inductive invariant.  First the values of the variables; isr and    *)
(* main are records whose fields depend on where the routine and the main  *)
(* program are.                                                            *)
Channels == {"a", "b"}

IsrShape ==
  \/ isr = NoIsr
  \/ \E e \in Enc : isr = [enc |-> e, phase |-> "entered"]
  \/ \E e \in Enc, c \in Channels, b \in 0 .. 1, p \in Int :
       isr = [enc |-> e, phase |-> "half", channel |-> c, bit |-> b, at |-> p]

MainShape ==
  \/ main = Idle
  \/ \E e \in Enc, s \in {"attach_a", "attach_b", "register"} :
       main = [op |-> "begin", enc |-> e, step |-> s]
  \/ main.op = "read" /\ \E e \in Enc, n \in 0 .. LongBytes :
       main = [op |-> "read", enc |-> e, next |-> n,
               value |-> main.value, during |-> main.during]
  \/ \E e \in Enc, n \in 0 .. (LongBytes - 1) :
       main = [op |-> "reset", enc |-> e, next |-> n]

DataType ==
  /\ pos \in [Enc -> Int]
  /\ flag \in [Enc -> BOOLEAN]
  /\ state_ \in [Enc -> 0 .. 3]
  /\ count_ \in [Enc -> 0 .. (LongModulus - 1)]
  /\ sampled \in [Enc -> Int] /\ base \in [Enc -> Int]
  /\ synced \in [Enc -> BOOLEAN] /\ skipped \in [Enc -> BOOLEAN]

RegistryType ==
  /\ mask \in [Enc -> SUBSET Channels]
  /\ g_callbacks \in [Enc -> Slot \cup {None}]
  /\ instances_ \in [Slot -> Enc \cup {None}]
  /\ instance_count_ \in 0 .. kInstancesMax

TypeInv == IsrShape /\ MainShape /\ DataType /\ RegistryType

(* The encoders are registered in the order of their begin(), each in the  *)
(* slot below its number; the port of a registered one is enabled for both *)
(* channels, and only registered ones are sampled.                         *)
Registered(e) == e <= instance_count_

SlotsInOrder ==
  \A s \in Slot : instances_[s] = IF s < instance_count_ THEN s + 1 ELSE None
CallbackOfPort ==
  \A e \in Enc : /\ g_callbacks[e] # None => g_callbacks[e] = e - 1
                 /\ Registered(e) => g_callbacks[e] # None /\ mask[e] = Channels
BeginInOrder ==
  main.op = "begin" =>
    /\ instance_count_ < main.enc
    /\ instance_count_ < kInstancesMax => main.enc = instance_count_ + 1
    /\ main.step # "attach_a" =>
         /\ instance_count_ < kInstancesMax
         /\ g_callbacks[main.enc] # None
         /\ "a" \in mask[main.enc]
    /\ main.step = "register" => "b" \in mask[main.enc]
SampledIsRegistered ==
  \A e \in Enc : synced[e] \/ isr.enc = e => Registered(e)

RegistryInv ==
  SlotsInOrder /\ CallbackOfPort /\ BeginInOrder /\ SampledIsRegistered

(* Without a pending flag, a routine between its two reads has seen where  *)
(* the wheel is, and an encoder outside its routine has it sampled.        *)
StateIsSample == \A e \in Enc : synced[e] => state_[e] = Code(sampled[e])
FirstReadCurrent ==
  isr # NoIsr /\ isr.phase = "half" =>
    /\ isr.bit = Bit(Code(isr.at), isr.channel)
    /\ ~flag[isr.enc] => isr.at = pos[isr.enc]
SampleCurrent == \A e \in Enc : synced[e] /\ Settled(e) => sampled[e] = pos[e]

SampleInv == StateIsSample /\ FirstReadCurrent /\ SampleCurrent

(* The count between samples: exactly, and of its low byte.                *)
CountInv ==
  \A e \in Enc : synced[e] /\ ~skipped[e]
                  => count_[e] = (sampled[e] - base[e]) % LongModulus
LowByteInv ==
  \A e \in Enc : synced[e] /\ ~skipped[e]
                  => count_[e] % ByteBase = (sampled[e] - base[e]) % ByteBase

-----------------------------------------------------------------------------
(* The fields of the two records.                                          *)
LEMMA MainFields ==
  ASSUME MainShape
  PROVE  /\ main.op \in {"idle", "begin", "read", "reset"}
         /\ main.op = "begin" =>
              /\ main.enc \in Enc /\ main.step \in {"attach_a", "attach_b", "register"}
              /\ main = [op |-> "begin", enc |-> main.enc, step |-> main.step]
         /\ main.op = "read" =>
              /\ main.enc \in Enc /\ main.next \in 0 .. LongBytes
              /\ main = [op |-> "read", enc |-> main.enc, next |-> main.next,
                         value |-> main.value, during |-> main.during]
         /\ main.op = "reset" =>
              /\ main.enc \in Enc /\ main.next \in 0 .. (LongBytes - 1)
              /\ main = [op |-> "reset", enc |-> main.enc, next |-> main.next]
<1>1. CASE main = Idle
  BY <1>1 DEF Idle
<1>2. CASE \E e \in Enc, s \in {"attach_a", "attach_b", "register"} :
             main = [op |-> "begin", enc |-> e, step |-> s]
  BY <1>2
<1>3. CASE main.op = "read" /\ \E e \in Enc, n \in 0 .. LongBytes :
             main = [op |-> "read", enc |-> e, next |-> n,
                     value |-> main.value, during |-> main.during]
  <2>1. PICK e \in Enc, n \in 0 .. LongBytes :
          main = [op |-> "read", enc |-> e, next |-> n,
                  value |-> main.value, during |-> main.during]
    BY <1>3
  <2>2. main.enc = e /\ main.next = n
    BY <2>1
  <2> QED BY <1>3, <2>1, <2>2
<1>4. CASE \E e \in Enc, n \in 0 .. (LongBytes - 1) :
             main = [op |-> "reset", enc |-> e, next |-> n]
  BY <1>4
<1> QED BY <1>1, <1>2, <1>3, <1>4 DEF MainShape

LEMMA IsrFields ==
  ASSUME IsrShape
  PROVE  /\ isr # NoIsr => isr.enc \in Enc /\ isr.phase \in {"entered", "half"}
         /\ isr # NoIsr /\ isr.phase = "half" =>
              isr.channel \in Channels /\ isr.bit \in 0 .. 1 /\ isr.at \in Int
         /\ \A e \in Enc : isr.enc = e => isr # NoIsr
<1>0. \A e \in Enc : NoIsr.enc # e
  BY EncoderAssumption DEF NoIsr, None, Enc
<1>1. CASE isr = NoIsr
  BY <1>0, <1>1
<1>2. CASE \E e \in Enc : isr = [enc |-> e, phase |-> "entered"]
  <2>1. PICK f \in Enc : isr = [enc |-> f, phase |-> "entered"]
    BY <1>2
  <2> QED BY <1>0, <2>1
<1>3. CASE \E e \in Enc, c \in Channels, b \in 0 .. 1, p \in Int :
             isr = [enc |-> e, phase |-> "half", channel |-> c, bit |-> b, at |-> p]
  <2>1. PICK f \in Enc, c \in Channels, b \in 0 .. 1, p \in Int :
          isr = [enc |-> f, phase |-> "half", channel |-> c, bit |-> b, at |-> p]
    BY <1>3
  <2> QED BY <1>0, <2>1
<1> QED BY <1>1, <1>2, <1>3 DEF IsrShape

(* The records of the next state, built from their parts.                  *)
LEMMA MainIdle ==
  ASSUME main' = Idle
  PROVE  MainShape' /\ main'.op = "idle"
  BY DEF MainShape, Idle

LEMMA MainBegin ==
  ASSUME NEW e \in Enc, NEW s \in {"attach_a", "attach_b", "register"},
         main' = [op |-> "begin", enc |-> e, step |-> s]
  PROVE  MainShape' /\ main'.op = "begin" /\ main'.enc = e /\ main'.step = s
  BY DEF MainShape

LEMMA MainRead ==
  ASSUME NEW e \in Enc, NEW n \in 0 .. LongBytes, NEW v, NEW d,
         main' = [op |-> "read", enc |-> e, next |-> n, value |-> v, during |-> d]
  PROVE  MainShape' /\ main'.op = "read" /\ main'.enc = e
<1>1. main'.op = "read" /\ main'.enc = e /\ main'.value = v /\ main'.during = d
  OBVIOUS
<1> QED BY <1>1 DEF MainShape

LEMMA MainReset ==
  ASSUME NEW e \in Enc, NEW n \in 0 .. (LongBytes - 1),
         main' = [op |-> "reset", enc |-> e, next |-> n]
  PROVE  MainShape' /\ main'.op = "reset" /\ main'.enc = e
  BY DEF MainShape

LEMMA MainAfterBegin ==
  ASSUME NEW e \in Enc, main' = AfterBegin(e)
  PROVE  /\ MainShape'
         /\ \/ main'.op = "idle"
            \/ main'.op = "begin" /\ main'.enc = e + 1 /\ main'.step = "attach_a"
<1>1. CASE e = N
  BY <1>1, MainIdle DEF AfterBegin
<1>2. CASE e # N
  <2>1. e + 1 \in Enc
    BY <1>2, EncoderAssumption DEF Enc
  <2> QED BY <1>2, <2>1, MainBegin DEF AfterBegin
<1> QED BY <1>1, <1>2

(* The sample that callback() completes: what it stores, and the position  *)
(* it stands for, which is where the wheel is unless it moved since the    *)
(* first read.                                                             *)
Sample(e, code) == CHOOSE p \in (pos[e] - 1) .. (pos[e] + 2) : Code(p) = code
Packed(e) ==
  LET last == Bit(Code(pos[e]), Other(isr.channel))
  IN IF isr.channel = "b" THEN 2 * isr.bit + last ELSE 2 * last + isr.bit

LEMMA PackedSample ==
  ASSUME NEW e \in Enc, pos[e] \in Int, isr.channel \in Channels, isr.bit \in 0 .. 1
  PROVE  /\ Packed(e) \in 0 .. 3
         /\ Sample(e, Packed(e)) \in Int
         /\ Code(Sample(e, Packed(e))) = Packed(e)
         /\ isr.bit = Bit(Code(pos[e]), isr.channel) => Sample(e, Packed(e)) = pos[e]
<1> DEFINE code == Code(pos[e])
<1>1. code \in 0 .. 3
  BY CodeValue
<1>2. /\ Bit(code, "a") \in 0 .. 1 /\ Bit(code, "b") \in 0 .. 1
      /\ 2 * Bit(code, "b") + Bit(code, "a") = code
  BY <1>1, BitsOfCode
<1> HIDE DEF code
<1>3. isr.channel = "a" \/ isr.channel = "b"
  BY DEF Channels
<1>4. Packed(e) \in 0 .. 3
  BY <1>2, <1>3 DEF Packed, Other, code
<1>5. isr.bit = Bit(code, isr.channel) => Packed(e) = code
  BY <1>2, <1>3 DEF Packed, Other, code
<1>6. \E p \in (pos[e] - 1) .. (pos[e] + 2) : Code(p) = Packed(e)
  BY <1>4, SampleExists
<1>7. /\ Sample(e, Packed(e)) \in (pos[e] - 1) .. (pos[e] + 2)
      /\ Code(Sample(e, Packed(e))) = Packed(e)
  BY <1>6, Zenon DEF Sample
<1>8. Sample(e, Packed(e)) \in Int
  BY <1>7
<1>9. Packed(e) = code => Sample(e, Packed(e)) = pos[e]
  BY <1>7, SampleUnique DEF code
<1> QED BY <1>4, <1>5, <1>7, <1>8, <1>9 DEF code

LEMMA FinishedCallback ==
  ASSUME IsrShape, DataType, FinishCallback
  PROVE  LET e    == isr.enc
             code == Packed(e)
             smp  == Sample(e, code)
             cnt  == (count_[e] + TicksDelta(state_[e], code)) % LongModulus
         IN /\ e \in Enc /\ isr # NoIsr /\ isr.phase = "half"
            /\ isr.channel \in Channels /\ isr.bit \in 0 .. 1 /\ isr.at \in Int
            /\ code \in 0 .. 3 /\ smp \in Int /\ cnt \in 0 .. (LongModulus - 1)
            /\ Code(smp) = code
            /\ isr.bit = Bit(Code(pos[e]), isr.channel) => smp = pos[e]
            /\ state_' = [state_ EXCEPT ![e] = code]
            /\ count_' = [count_ EXCEPT ![e] = cnt]
            /\ sampled' = [sampled EXCEPT ![e] = smp]
            /\ base' = [base EXCEPT ![e] = IF synced[e] THEN @ ELSE smp - cnt]
            /\ synced' = [synced EXCEPT ![e] = TRUE]
            /\ skipped' = [skipped EXCEPT ![e] =
                             @ \/ (synced[e] /\ Distance(smp, sampled[e]) > 1)]
<1> DEFINE e    == isr.enc
           code == Packed(e)
           smp  == Sample(e, code)
           cnt  == (count_[e] + TicksDelta(state_[e], code)) % LongModulus
<1>1. isr # NoIsr /\ isr.phase = "half"
  BY DEF FinishCallback
<1>2. e \in Enc /\ isr.channel \in Channels /\ isr.bit \in 0 .. 1 /\ isr.at \in Int
  BY <1>1, IsrFields
<1>3. pos[e] \in Int /\ state_[e] \in 0 .. 3 /\ count_[e] \in 0 .. (LongModulus - 1)
  BY <1>2 DEF DataType
<1>4. /\ code \in 0 .. 3 /\ smp \in Int /\ Code(smp) = code
      /\ isr.bit = Bit(Code(pos[e]), isr.channel) => smp = pos[e]
  BY <1>2, <1>3, PackedSample
<1>5. cnt \in 0 .. (LongModulus - 1)
  <2>1. TicksDelta(state_[e], code) \in {-1, 0, 1}
    BY <1>3, <1>4, DeltaType
  <2>2. count_[e] + TicksDelta(state_[e], code) \in Int
    BY <1>3, <2>1, ModulusPositive
  <2> HIDE DEF code
  <2> QED BY <2>2, ModulusPositive, DivMod
<1>6. /\ state_' = [state_ EXCEPT ![e] = code]
      /\ count_' = [count_ EXCEPT ![e] = cnt]
      /\ sampled' = [sampled EXCEPT ![e] = smp]
      /\ base' = [base EXCEPT ![e] = IF synced[e] THEN @ ELSE smp - cnt]
      /\ synced' = [synced EXCEPT ![e] = TRUE]
      /\ skipped' = [skipped EXCEPT ![e] =
                       @ \/ (synced[e] /\ Distance(smp, sampled[e]) > 1)]
  BY DEF FinishCallback, Packed, Sample
<1> QED BY <1>1, <1>2, <1>4, <1>5, <1>6

-----------------------------------------------------------------------------
LEMMA TypeInit == Init => TypeInv
<1> SUFFICES ASSUME Init PROVE TypeInv
  OBVIOUS
<1>1. 1 \in Enc
  BY EncoderAssumption DEF Enc
<1>2. MainShape
  <2>1. main = [op |-> "begin", enc |-> 1, step |-> "attach_a"]
    BY DEF Init
  <2> QED BY <1>1, <2>1 DEF MainShape
<1>3. IsrShape
  BY DEF Init, IsrShape
<1>4. DataType
  BY ModulusPositive DEF Init, DataType
<1>5. RegistryType
  BY EncoderAssumption DEF Init, RegistryType
<1> QED BY <1>2, <1>3, <1>4, <1>5 DEF TypeInv

(* Every action keeps the shape of main.                                   *)
LEMMA MainStep ==
  ASSUME MainShape, Next
  PROVE  MainShape'
<1>1. CASE UNCHANGED main
  BY <1>1 DEF MainShape
<1>2. CASE FinishCallback
  <2>1. CASE main' = main
    BY <1>1, <2>1
  <2>2. CASE main' # main
    <3>1. PICK c : main.op = "read" /\ main' = [main EXCEPT !.during = @ \cup {c}]
      BY <1>2, <2>2 DEF FinishCallback
    <3>2. /\ main.enc \in Enc /\ main.next \in 0 .. LongBytes
          /\ main = [op |-> "read", enc |-> main.enc, next |-> main.next,
                     value |-> main.value, during |-> main.during]
      BY <3>1, MainFields
    <3>3. main' = [op |-> "read", enc |-> main.enc, next |-> main.next,
                   value |-> main.value, during |-> main.during \cup {c}]
      BY <3>1, <3>2
    <3> QED BY <3>2, <3>3, MainRead
  <2> QED BY <2>1, <2>2
<1>3. ASSUME NEW c, NEW s \in {"attach_b", "register"}, Attach(c, s)
      PROVE  MainShape'
  <2>1. /\ main.enc \in Enc
        /\ main = [op |-> "begin", enc |-> main.enc, step |-> main.step]
    BY <1>3, MainFields DEF Attach
  <2>2. main' = [op |-> "begin", enc |-> main.enc, step |-> s]
    BY <1>3, <2>1 DEF Attach
  <2> QED BY <2>1, <2>2, MainBegin
<1>4. CASE Register \/ RefuseBegin
  <2>1. main.op = "begin" /\ main' = AfterBegin(main.enc)
    BY <1>4 DEF Register, RefuseBegin
  <2> QED BY <2>1, MainFields, MainAfterBegin
<1>5. ASSUME NEW e \in Enc, StartRead(e)
      PROVE  MainShape'
  BY <1>5, EncoderAssumption, MainRead DEF StartRead
<1>6. CASE ReadByte
  <2>1. main.op = "read" /\ main.next < LongBytes
    BY <1>6 DEF ReadByte
  <2>2. PICK e, n, w, d :
          /\ e \in Enc /\ n \in 0 .. LongBytes
          /\ main = [op |-> "read", enc |-> e, next |-> n, value |-> w, during |-> d]
    BY <2>1, MainFields
  <2>3. PICK v : main' = [main EXCEPT !.next = @ + 1, !.value = v]
    BY <1>6 DEF ReadByte
  <2>4. main' = [op |-> "read", enc |-> e, next |-> n + 1, value |-> v, during |-> d]
    BY <2>2, <2>3
  <2>5. n + 1 \in 0 .. LongBytes
    BY <2>1, <2>2, EncoderAssumption
  <2> QED BY <2>2, <2>4, <2>5, MainRead
<1>7. CASE EndRead
  BY <1>7, MainIdle DEF EndRead
<1>8. ASSUME NEW e \in Enc, StartReset(e)
      PROVE  MainShape'
  BY <1>8, EncoderAssumption, MainReset DEF StartReset
<1>9. CASE ResetByte
  <2>1. /\ main.op = "reset" /\ main.enc \in Enc /\ main.next \in 0 .. (LongBytes - 1)
        /\ main = [op |-> "reset", enc |-> main.enc, next |-> main.next]
    BY <1>9, MainFields DEF ResetByte
  <2>2. CASE main.next = LongBytes - 1
    BY <1>9, <2>2, MainIdle DEF ResetByte
  <2>3. CASE main.next # LongBytes - 1
    <3>1. main' = [op |-> "reset", enc |-> main.enc, next |-> main.next + 1]
      BY <1>9, <2>1, <2>3 DEF ResetByte
    <3>2. main.next + 1 \in 0 .. (LongBytes - 1)
      BY <2>1, <2>3, EncoderAssumption
    <3> QED BY <2>1, <3>1, <3>2, MainReset
  <2> QED BY <2>2, <2>3
<1> QED
  BY <1>1, <1>2, <1>3, <1>4, <1>5, <1>6, <1>7, <1>8, <1>9
  DEF Next, Isr, Main, Edge, EnterIsr, ReadFirstChannel, AttachA, AttachB

LEMMA IsrStep ==
  ASSUME IsrShape, DataType, RegistryType, Next
  PROVE  IsrShape'
<1>1. CASE UNCHANGED isr
  BY <1>1 DEF IsrShape
<1>2. ASSUME NEW e \in Enc, EnterIsr(e)
      PROVE  IsrShape'
  <2> DEFINE target == IF g_callbacks[e] = None THEN None ELSE instances_[g_callbacks[e]]
  <2>1. target \in Enc \cup {None}
    BY DEF RegistryType
  <2>2. isr' = IF target = None THEN NoIsr ELSE [enc |-> target, phase |-> "entered"]
    BY <1>2 DEF EnterIsr
  <2> HIDE DEF target
  <2> QED BY <2>1, <2>2 DEF IsrShape
<1>3. ASSUME NEW c \in Channels, ReadFirstChannel(c)
      PROVE  IsrShape'
  <2>1. isr.enc \in Enc
    BY <1>3, IsrFields DEF ReadFirstChannel
  <2>2. pos[isr.enc] \in Int
    BY <2>1 DEF DataType
  <2>3. Bit(Code(pos[isr.enc]), c) \in 0 .. 1
    BY <2>2, CodeValue, BitsOfCode DEF Channels
  <2> QED BY <1>3, <2>1, <2>2, <2>3 DEF ReadFirstChannel, IsrShape
<1>4. CASE FinishCallback
  BY <1>4 DEF FinishCallback, IsrShape
<1> QED
  BY <1>1, <1>2, <1>3, <1>4
  DEF Next, Isr, Main, Channels, Edge, AttachA, AttachB, Attach, Register, RefuseBegin,
      StartRead, ReadByte, EndRead, StartReset, ResetByte

(* Removing a byte leaves a count in range.                                *)
LEMMA ByteRemoved ==
  ASSUME NEW c \in 0 .. (LongModulus - 1), NEW i \in 0 .. (LongBytes - 1)
  PROVE  c - Byte(c, i) * ByteBase ^ i \in 0 .. (LongModulus - 1)
<1> DEFINE P == ByteBase ^ i
           q == c \div P
           b == q % ByteBase
<1>1. P \in Nat \ {0}
  BY EncoderAssumption, PowerAssumption
<1>2. c \in Nat /\ c <= LongModulus - 1 /\ LongModulus \in Nat
  BY ModulusPositive
<1>3. Byte(c, i) * ByteBase ^ i = b * P
  BY DEF Byte
<1> HIDE DEF P
<1>4. q \in Nat /\ P * q \in Nat /\ P * q <= c
  BY <1>1, <1>2, DivModNat
<1> HIDE DEF q
<1>5. b \in Nat /\ b <= q
  BY <1>4, EncoderAssumption, DivModNat
<1> HIDE DEF b
<1>6. b * P \in Nat /\ b * P <= P * q
  BY <1>1, <1>4, <1>5
<1>7. c - b * P \in 0 .. (LongModulus - 1)
  BY <1>2, <1>4, <1>6
<1> QED BY <1>3, <1>7

LEMMA DataStep ==
  ASSUME IsrShape, MainShape, DataType, Next
  PROVE  DataType'
<1>1. ASSUME NEW e \in Enc, NEW d \in {-1, 1}, Edge(e, d)
      PROVE  DataType'
  <2>1. pos[e] + d \in Int
    BY DEF DataType
  <2>2. pos' \in [Enc -> Int] /\ flag' \in [Enc -> BOOLEAN]
    BY <1>1, <2>1 DEF Edge, DataType
  <2> QED BY <1>1, <2>2 DEF Edge, DataType, history
<1>2. ASSUME NEW e \in Enc, EnterIsr(e)
      PROVE  DataType'
  BY <1>2 DEF EnterIsr, DataType, history
<1>3. CASE FinishCallback
  <2>1. pos' = pos /\ flag' = flag
    BY <1>3 DEF FinishCallback, registers
  <2>2. base' \in [Enc -> Int]
    BY <1>3, FinishedCallback, ModulusPositive DEF DataType
  <2>3. skipped' \in [Enc -> BOOLEAN] /\ synced' \in [Enc -> BOOLEAN]
    BY <1>3, FinishedCallback DEF DataType
  <2>4. /\ state_' \in [Enc -> 0 .. 3] /\ sampled' \in [Enc -> Int]
        /\ count_' \in [Enc -> 0 .. (LongModulus - 1)]
    BY <1>3, FinishedCallback DEF DataType
  <2> QED BY <2>1, <2>2, <2>3, <2>4 DEF DataType
<1>4. CASE ResetByte
  <2>1. main.enc \in Enc /\ main.next \in 0 .. (LongBytes - 1)
    BY <1>4, MainFields DEF ResetByte
  <2>2. count_[main.enc] \in 0 .. (LongModulus - 1) /\ sampled[main.enc] \in Int
    BY <2>1 DEF DataType
  <2>3. count_' \in [Enc -> 0 .. (LongModulus - 1)]
    BY <1>4, <2>1, <2>2, ByteRemoved DEF ResetByte, DataType
  <2>4. base' \in [Enc -> Int]
    BY <1>4, <2>1, <2>2 DEF ResetByte, DataType
  <2> QED BY <1>4, <2>3, <2>4 DEF ResetByte, DataType, registers
<1>5. CASE UNCHANGED <<pos, flag, state_, count_, history>>
  BY <1>5 DEF DataType, history
<1> QED
  BY <1>1, <1>2, <1>3, <1>4, <1>5
  DEF Next, Isr, Main, ReadFirstChannel, AttachA, AttachB, Attach, Register, RefuseBegin,
      StartRead, ReadByte, EndRead, StartReset, registers

-----------------------------------------------------------------------------
(* The registry.                                                           *)
LEMMA RegistryInit == Init => RegistryInv
<1> SUFFICES ASSUME Init PROVE RegistryInv
  OBVIOUS
<1>1. SlotsInOrder
  BY EncoderAssumption DEF Init, SlotsInOrder, Slot
<1>2. CallbackOfPort
  BY EncoderAssumption DEF Init, CallbackOfPort, Enc, Registered
<1>3. BeginInOrder
  BY EncoderAssumption DEF Init, BeginInOrder
<1>4. SampledIsRegistered
  BY EncoderAssumption DEF Init, SampledIsRegistered, NoIsr, None, Enc
<1> QED BY <1>1, <1>2, <1>3, <1>4 DEF RegistryInv

(* A step of the main program that attaches a channel.                     *)
LEMMA AttachStep ==
  ASSUME TypeInv, RegistryInv, NEW c \in Channels, NEW s \in {"attach_b", "register"},
         Attach(c, s), instance_count_ < kInstancesMax
  PROVE  /\ RegistryType' /\ SlotsInOrder' /\ CallbackOfPort' /\ SampledIsRegistered'
         /\ main'.op = "begin" /\ main'.enc = main.enc /\ main'.step = s
         /\ main.enc \in Enc /\ main.enc = instance_count_ + 1
         /\ instance_count_' = instance_count_
         /\ g_callbacks'[main.enc] # None
         /\ mask'[main.enc] = mask[main.enc] \cup {c}
<1>1. /\ main.op = "begin" /\ main.enc \in Enc
      /\ main = [op |-> "begin", enc |-> main.enc, step |-> main.step]
  BY MainFields DEF Attach, TypeInv
<1>2. main'.op = "begin" /\ main'.enc = main.enc /\ main'.step = s
  BY <1>1 DEF Attach
<1>3. /\ instance_count_ \in Nat /\ instance_count_ \in Slot
      /\ instance_count_ # None /\ main.enc = instance_count_ + 1
  BY <1>1, EncoderAssumption DEF RegistryInv, BeginInOrder, TypeInv, RegistryType, Slot, None
<1>4. /\ g_callbacks' = [g_callbacks EXCEPT ![main.enc] = instance_count_]
      /\ mask' = [mask EXCEPT ![main.enc] = @ \cup {c}]
      /\ instances_' = instances_ /\ instance_count_' = instance_count_
      /\ isr' = isr /\ synced' = synced
  BY DEF Attach, history
<1>5. RegistryType'
  BY <1>1, <1>3, <1>4 DEF TypeInv, RegistryType
<1>6. SlotsInOrder'
  BY <1>4 DEF RegistryInv, SlotsInOrder
<1>7. SampledIsRegistered'
  BY <1>4 DEF RegistryInv, SampledIsRegistered, Registered
<1>8. CallbackOfPort'
  BY <1>1, <1>3, <1>4
  DEF RegistryInv, CallbackOfPort, Registered, TypeInv, RegistryType, Enc
<1>9. g_callbacks'[main.enc] # None /\ mask'[main.enc] = mask[main.enc] \cup {c}
  BY <1>1, <1>3, <1>4 DEF TypeInv, RegistryType
<1> QED BY <1>1, <1>2, <1>3, <1>4, <1>5, <1>6, <1>7, <1>8, <1>9

(* What the steps that leave the registry alone need to show.              *)
LEMMA RegistryKept ==
  ASSUME TypeInv, RegistryInv, UNCHANGED <<mask, registry>>,
         main'.op = "begin" => UNCHANGED main, SampledIsRegistered'
  PROVE  RegistryType' /\ RegistryInv'
<1>1. RegistryType'
  BY DEF TypeInv, RegistryType, registry
<1>2. SlotsInOrder' /\ CallbackOfPort'
  BY DEF RegistryInv, SlotsInOrder, CallbackOfPort, Registered, registry
<1>3. BeginInOrder'
  BY DEF RegistryInv, BeginInOrder, registry
<1> QED BY <1>1, <1>2, <1>3 DEF RegistryInv

(* The routine of a port runs the callback of the encoder on that port.    *)
LEMMA IsrOfPort ==
  ASSUME TypeInv, RegistryInv, NEW e \in Enc, EnterIsr(e)
  PROVE  /\ Registered(e) => isr' = [enc |-> e, phase |-> "entered"]
         /\ isr' # NoIsr => Registered(e)
         /\ isr' = NoIsr \/ isr' = [enc |-> e, phase |-> "entered"]
<1>1. CASE g_callbacks[e] = None
  BY <1>1 DEF EnterIsr, RegistryInv, CallbackOfPort
<1>2. CASE g_callbacks[e] # None
  <2>1. g_callbacks[e] = e - 1 /\ e - 1 \in Slot /\ e \in Nat /\ e # None
    BY <1>2, EncoderAssumption DEF RegistryInv, CallbackOfPort, TypeInv, RegistryType, Enc, None
  <2>2. instances_[e - 1] = IF Registered(e) THEN e ELSE None
    BY <2>1, EncoderAssumption
    DEF RegistryInv, SlotsInOrder, TypeInv, RegistryType, Registered, Slot, Enc
  <2>3. isr' = IF Registered(e) THEN [enc |-> e, phase |-> "entered"] ELSE NoIsr
    BY <1>2, <2>1, <2>2 DEF EnterIsr
  <2> QED BY <2>3
<1> QED BY <1>1, <1>2

LEMMA RegistryStep ==
  ASSUME TypeInv, RegistryInv, Next
  PROVE  RegistryType' /\ RegistryInv'
<1>0. \A e \in Enc : NoIsr.enc # e
  BY EncoderAssumption DEF NoIsr, None, Enc
<1>1. ASSUME NEW e \in Enc, NEW d \in {-1, 1}, Edge(e, d)
      PROVE  RegistryType' /\ RegistryInv'
  <2>1. UNCHANGED <<mask, registry, main, isr, synced>>
    BY <1>1 DEF Edge, history
  <2>2. SampledIsRegistered'
    BY <2>1 DEF RegistryInv, SampledIsRegistered, Registered, registry
  <2> QED BY <2>1, <2>2, RegistryKept
<1>2. ASSUME NEW e \in Enc, EnterIsr(e)
      PROVE  RegistryType' /\ RegistryInv'
  <2>1. UNCHANGED <<mask, registry, main, synced>>
    BY <1>2 DEF EnterIsr, history
  <2>2. \A f \in Enc : isr'.enc = f => Registered(f)
    BY <1>0, <1>2, IsrOfPort
  <2>3. SampledIsRegistered'
    BY <2>1, <2>2 DEF RegistryInv, SampledIsRegistered, Registered, registry
  <2> QED BY <2>1, <2>3, RegistryKept
<1>3. ASSUME NEW c \in Channels, ReadFirstChannel(c)
      PROVE  RegistryType' /\ RegistryInv'
  <2>1. UNCHANGED <<mask, registry, main, synced>> /\ isr'.enc = isr.enc
    BY <1>3 DEF ReadFirstChannel, history, registers
  <2>2. SampledIsRegistered'
    BY <2>1 DEF RegistryInv, SampledIsRegistered, Registered, registry
  <2> QED BY <2>1, <2>2, RegistryKept
<1>4. CASE FinishCallback
  <2>1. UNCHANGED <<mask, registry>> /\ isr' = NoIsr
    BY <1>4 DEF FinishCallback, registers
  <2>2. main'.op = "begin" => UNCHANGED main
    <3> SUFFICES ASSUME main' # main PROVE main'.op # "begin"
      OBVIOUS
    <3>1. PICK c : main.op = "read" /\ main' = [main EXCEPT !.during = @ \cup {c}]
      BY <1>4 DEF FinishCallback
    <3>2. main = [op |-> "read", enc |-> main.enc, next |-> main.next,
                  value |-> main.value, during |-> main.during]
      BY <3>1, MainFields DEF TypeInv
    <3> QED BY <3>1, <3>2
  <2>3. isr.enc \in Enc /\ synced' = [synced EXCEPT ![isr.enc] = TRUE]
    BY <1>4, FinishedCallback DEF TypeInv
  <2>4. SampledIsRegistered'
    BY <1>0, <2>1, <2>3
    DEF RegistryInv, SampledIsRegistered, Registered, registry, TypeInv, DataType
  <2> QED BY <2>1, <2>2, <2>4, RegistryKept
<1>5. CASE AttachA
  <2>1. Attach("a", "attach_b") /\ instance_count_ < kInstancesMax /\ "a" \in Channels
    BY <1>5, EncoderAssumption DEF AttachA, TypeInv, RegistryType, Channels
  <2>2. BeginInOrder'
    BY <2>1, AttachStep, EncoderAssumption DEF BeginInOrder, TypeInv, RegistryType
  <2> QED BY <2>1, <2>2, AttachStep DEF RegistryInv
<1>6. CASE AttachB
  <2>1. /\ Attach("b", "register") /\ main.op = "begin" /\ main.step = "attach_b"
        /\ "b" \in Channels
    BY <1>6 DEF AttachB, Channels
  <2>2. instance_count_ < kInstancesMax /\ "a" \in mask[main.enc]
    BY <2>1 DEF RegistryInv, BeginInOrder
  <2>3. BeginInOrder'
    BY <2>1, <2>2, AttachStep, EncoderAssumption DEF BeginInOrder, TypeInv, RegistryType
  <2> QED BY <2>1, <2>2, <2>3, AttachStep DEF RegistryInv
<1>7. CASE Register
  <2>1. /\ main.op = "begin" /\ main.step = "register" /\ main' = AfterBegin(main.enc)
        /\ instances_' = [instances_ EXCEPT ![instance_count_] = main.enc]
        /\ instance_count_' = instance_count_ + 1
        /\ mask' = mask /\ g_callbacks' = g_callbacks /\ isr' = isr /\ synced' = synced
    BY <1>7 DEF Register, registers, history
  <2>2. main.enc \in Enc
    BY <2>1, MainFields DEF TypeInv
  <2>3. /\ instance_count_ \in Slot /\ main.enc = instance_count_ + 1
        /\ instance_count_' \in 0 .. kInstancesMax /\ instance_count_ < instance_count_'
        /\ g_callbacks[main.enc] # None /\ mask[main.enc] = Channels
    BY <2>1, <2>2, EncoderAssumption
    DEF RegistryInv, BeginInOrder, TypeInv, RegistryType, Slot, Channels
  <2>4. RegistryType'
    BY <2>1, <2>2, <2>3 DEF TypeInv, RegistryType
  <2>5. SlotsInOrder'
    BY <2>1, <2>2, <2>3, EncoderAssumption
    DEF RegistryInv, SlotsInOrder, TypeInv, RegistryType, Slot
  <2>6. CallbackOfPort'
    BY <2>1, <2>2, <2>3, EncoderAssumption
    DEF RegistryInv, CallbackOfPort, Registered, TypeInv, RegistryType, Enc
  <2>7. SampledIsRegistered'
    BY <2>1, <2>3, EncoderAssumption
    DEF RegistryInv, SampledIsRegistered, Registered, TypeInv, RegistryType, Enc
  <2>8. BeginInOrder'
    BY <2>1, <2>2, <2>3, MainAfterBegin, EncoderAssumption
    DEF BeginInOrder, TypeInv, RegistryType, Enc
  <2> QED BY <2>4, <2>5, <2>6, <2>7, <2>8 DEF RegistryInv
<1>8. CASE RefuseBegin
  <2>1. /\ main.op = "begin" /\ main' = AfterBegin(main.enc)
        /\ instance_count_ = kInstancesMax
        /\ UNCHANGED <<mask, g_callbacks, instances_, instance_count_, isr, synced>>
    BY <1>8 DEF RefuseBegin, registers, registry, history
  <2>2. main.enc \in Enc
    BY <2>1, MainFields DEF TypeInv
  <2>3. BeginInOrder'
    BY <2>1, <2>2, MainAfterBegin, EncoderAssumption DEF RegistryInv, BeginInOrder, Enc
  <2> QED
    BY <2>1, <2>3
    DEF RegistryInv, SlotsInOrder, CallbackOfPort, SampledIsRegistered, Registered,
        TypeInv, RegistryType
<1>9. ASSUME \/ \E e \in Enc : StartRead(e)
             \/ ReadByte \/ EndRead
             \/ \E e \in Enc : StartReset(e)
             \/ ResetByte
      PROVE  RegistryType' /\ RegistryInv'
  <2>1. UNCHANGED <<mask, registry, isr, synced>>
    BY <1>9 DEF StartRead, ReadByte, EndRead, StartReset, ResetByte, registers, history
  <2>2. main'.op # "begin"
    <3>1. CASE (\E e \in Enc : StartRead(e)) \/ EndRead \/ (\E e \in Enc : StartReset(e))
      BY <3>1 DEF StartRead, EndRead, StartReset, Idle
    <3>2. CASE ReadByte
      <4>1. PICK v : main.op = "read" /\ main' = [main EXCEPT !.next = @ + 1, !.value = v]
        BY <3>2 DEF ReadByte
      <4>2. PICK e, n, w, d :
              main = [op |-> "read", enc |-> e, next |-> n, value |-> w, during |-> d]
        BY <4>1, MainFields DEF TypeInv
      <4> QED BY <4>1, <4>2
    <3>3. CASE ResetByte
      <4>1. /\ main.op = "reset"
            /\ main = [op |-> "reset", enc |-> main.enc, next |-> main.next]
        BY <3>3, MainFields DEF ResetByte, TypeInv
      <4> QED BY <3>3, <4>1 DEF ResetByte, Idle
    <3> QED BY <1>9, <3>1, <3>2, <3>3
  <2>3. SampledIsRegistered'
    BY <2>1 DEF RegistryInv, SampledIsRegistered, Registered, registry
  <2> QED BY <2>1, <2>2, <2>3, RegistryKept
<1> QED
  BY <1>1, <1>2, <1>3, <1>4, <1>5, <1>6, <1>7, <1>8, <1>9 DEF Next, Isr, Main, Channels

LEMMA UnchangedInv ==
  ASSUME TypeInv, RegistryInv, UNCHANGED vars
  PROVE  TypeInv' /\ RegistryInv'
<1> USE DEF vars, registers, registry, history
<1>1. TypeInv'
  BY DEF TypeInv, IsrShape, MainShape, DataType, RegistryType
<1>2. RegistryInv'
  BY DEF RegistryInv, SlotsInOrder, CallbackOfPort, BeginInOrder, SampledIsRegistered, Registered
<1> QED BY <1>1, <1>2

LEMMA RegistrySound == Spec => [](TypeInv /\ RegistryInv)
<1>1. Init => TypeInv /\ RegistryInv
  BY TypeInit, RegistryInit
<1>2. TypeInv /\ RegistryInv /\ [Next]_vars => (TypeInv /\ RegistryInv)'
  <2> SUFFICES ASSUME TypeInv, RegistryInv, [Next]_vars PROVE TypeInv' /\ RegistryInv'
    OBVIOUS
  <2>1. CASE Next
    BY <2>1, IsrStep, MainStep, DataStep, RegistryStep DEF TypeInv
  <2>2. CASE UNCHANGED vars
    BY <2>2, UnchangedInv
  <2> QED BY <2>1, <2>2
<1> QED BY <1>1, <1>2, PTL DEF Spec

(* begin() in any order of calls and interrupts, with more encoders than   *)
(* slots or fewer, leaves every port's callback leading to the encoder     *)
(* whose channels are on it (encoder.cpp:77-106, interrupt_in_arduino.cpp). *)
THEOREM CallbacksRouted == Spec => []Routing
<1>1. TypeInv /\ RegistryInv => Routing
  <2> SUFFICES ASSUME TypeInv, RegistryInv, NEW e \in Enc, g_callbacks[e] # None
               PROVE  g_callbacks[e] \in Slot /\ instances_[g_callbacks[e]] \in {None, e}
    BY DEF Routing
  <2>1. g_callbacks[e] \in Slot /\ g_callbacks[e] = e - 1
    BY DEF TypeInv, RegistryType, RegistryInv, CallbackOfPort
  <2>2. instances_[e - 1] \in {None, e}
    BY <2>1 DEF RegistryInv, SlotsInOrder, Enc
  <2> QED BY <2>1, <2>2
<1> QED BY <1>1, RegistrySound, PTL

-----------------------------------------------------------------------------
(* The samples.                                                            *)
LEMMA SampleInit == Init => SampleInv
  BY DEF Init, SampleInv, StateIsSample, FirstReadCurrent, SampleCurrent

(* A turning wheel raises the flag of a registered encoder.                *)
LEMMA EdgeRaisesFlag ==
  ASSUME TypeInv, RegistryInv, NEW e \in Enc, NEW d \in {-1, 1}, Edge(e, d), Registered(e)
  PROVE  flag'[e]
<1>1. mask[e] = Channels
  BY DEF RegistryInv, CallbackOfPort
<1>2. PICK c \in Channels : flag' = [flag EXCEPT ![e] = @ \/ c \in mask[e]]
  BY DEF Edge, Channels
<1> QED BY <1>1, <1>2 DEF TypeInv, DataType

LEMMA SampleStep ==
  ASSUME TypeInv, RegistryInv, SampleInv, Next
  PROVE  SampleInv'
<1>0. \A e \in Enc : NoIsr.enc # e
  BY EncoderAssumption DEF NoIsr, None, Enc
<1>1. ASSUME NEW e \in Enc, NEW d \in {-1, 1}, Edge(e, d)
      PROVE  SampleInv'
  <2>1. /\ UNCHANGED <<state_, isr, sampled, synced>>
        /\ \A f \in Enc \ {e} : pos'[f] = pos[f] /\ flag'[f] = flag[f]
    BY <1>1 DEF Edge, history, TypeInv, DataType
  <2>2. synced[e] \/ isr.enc = e => flag'[e]
    BY <1>1, EdgeRaisesFlag DEF RegistryInv, SampledIsRegistered
  <2>3. StateIsSample'
    BY <2>1 DEF SampleInv, StateIsSample
  <2>4. FirstReadCurrent'
    <3>1. isr # NoIsr => isr.enc \in Enc
      BY IsrFields DEF TypeInv
    <3> QED BY <2>1, <2>2, <3>1 DEF SampleInv, FirstReadCurrent
  <2>5. SampleCurrent'
    BY <2>1, <2>2 DEF SampleInv, SampleCurrent, Settled
  <2> QED BY <2>3, <2>4, <2>5 DEF SampleInv
<1>2. ASSUME NEW e \in Enc, EnterIsr(e)
      PROVE  SampleInv'
  <2>1. /\ UNCHANGED <<pos, state_, sampled, synced>>
        /\ isr = NoIsr
        /\ \A f \in Enc \ {e} : flag'[f] = flag[f]
    BY <1>2 DEF EnterIsr, history, TypeInv, DataType
  <2>2. StateIsSample'
    BY <2>1 DEF SampleInv, StateIsSample
  <2>3. FirstReadCurrent'
    <3>1. isr' # NoIsr => isr'.phase # "half"
      BY <1>2, IsrOfPort
    <3> QED BY <3>1 DEF FirstReadCurrent
  <2>4. SampleCurrent'
    <3>1. synced[e] => isr'.enc = e
      BY <1>2, IsrOfPort DEF RegistryInv, SampledIsRegistered
    <3> QED BY <1>0, <2>1, <3>1 DEF SampleInv, SampleCurrent, Settled
  <2> QED BY <2>2, <2>3, <2>4 DEF SampleInv
<1>3. ASSUME NEW c \in Channels, ReadFirstChannel(c)
      PROVE  SampleInv'
  <2>1. /\ UNCHANGED <<pos, flag, state_, sampled, synced>>
        /\ isr' = [enc |-> isr.enc, phase |-> "half", channel |-> c,
                   bit |-> Bit(Code(pos[isr.enc]), c), at |-> pos[isr.enc]]
    BY <1>3 DEF ReadFirstChannel, history, registers
  <2>2. StateIsSample'
    BY <2>1 DEF SampleInv, StateIsSample
  <2>3. FirstReadCurrent'
    BY <2>1 DEF FirstReadCurrent
  <2>4. SampleCurrent'
    BY <2>1 DEF SampleInv, SampleCurrent, Settled
  <2> QED BY <2>2, <2>3, <2>4 DEF SampleInv
<1>4. CASE FinishCallback
  <2> DEFINE e    == isr.enc
             code == Packed(e)
             smp  == Sample(e, code)
  <2>1. /\ e \in Enc /\ isr # NoIsr /\ isr.phase = "half" /\ Code(smp) = code
        /\ isr.bit = Bit(Code(pos[e]), isr.channel) => smp = pos[e]
        /\ state_' = [state_ EXCEPT ![e] = code]
        /\ sampled' = [sampled EXCEPT ![e] = smp]
        /\ synced' = [synced EXCEPT ![e] = TRUE]
    BY <1>4, FinishedCallback DEF TypeInv
  <2>2. UNCHANGED <<pos, flag>> /\ isr' = NoIsr
    BY <1>4 DEF FinishCallback, registers
  <2> HIDE DEF code, smp
  <2>3. ~flag[e] => smp = pos[e]
    BY <2>1 DEF SampleInv, FirstReadCurrent
  <2>4. \A f \in Enc \ {e} : /\ state_'[f] = state_[f] /\ sampled'[f] = sampled[f]
                             /\ synced'[f] = synced[f]
    BY <2>1 DEF TypeInv, DataType
  <2>5. state_'[e] = code /\ sampled'[e] = smp
    BY <2>1 DEF TypeInv, DataType
  <2>6. StateIsSample'
    BY <2>1, <2>4, <2>5 DEF SampleInv, StateIsSample
  <2>7. FirstReadCurrent'
    BY <2>2 DEF FirstReadCurrent
  <2>8. SampleCurrent'
    BY <2>2, <2>3, <2>4, <2>5 DEF SampleInv, SampleCurrent, Settled
  <2> QED BY <2>6, <2>7, <2>8 DEF SampleInv
<1>5. CASE UNCHANGED <<pos, flag, state_, isr, sampled, synced>>
  BY <1>5 DEF SampleInv, StateIsSample, FirstReadCurrent, SampleCurrent, Settled
<1>6. CASE Main
  BY <1>5, <1>6
  DEF Main, AttachA, AttachB, Attach, Register, RefuseBegin, StartRead, ReadByte, EndRead,
      StartReset, ResetByte, registers, history
<1> QED BY <1>1, <1>2, <1>3, <1>4, <1>6 DEF Next, Isr, Channels

LEMMA SamplesSound == Spec => [](TypeInv /\ RegistryInv /\ SampleInv)
<1>1. Init => SampleInv
  BY SampleInit
<1>2. TypeInv /\ RegistryInv /\ SampleInv /\ [Next]_vars => SampleInv'
  <2> SUFFICES ASSUME TypeInv, RegistryInv, SampleInv, [Next]_vars PROVE SampleInv'
    OBVIOUS
  <2>1. CASE Next
    BY <2>1, SampleStep
  <2>2. CASE UNCHANGED vars
    BY <2>2
    DEF vars, registers, history, SampleInv, StateIsSample, FirstReadCurrent, SampleCurrent, Settled
  <2> QED BY <2>1, <2>2
<1> QED BY <1>1, <1>2, RegistrySound, PTL DEF Spec

(* No edge is forgotten, whichever channel is read first and wherever the  *)
(* edge falls between the reads of callback() (encoder.cpp:112-119): an    *)
(* encoder whose last sample differs from its channels has its interrupt   *)
(* pending or its callback running.                                        *)
THEOREM EdgesKept == Spec => []NoLostEdge
<1>1. SampleInv => NoLostEdge
  BY DEF SampleInv, StateIsSample, SampleCurrent, NoLostEdge
<1> QED BY <1>1, SamplesSound, PTL

-----------------------------------------------------------------------------
(* The count.  A sample one quarter period from the last adds that period  *)
(* to the count; the first sample fixes what count zero stands for.        *)
LEMMA CountedSample ==
  ASSUME TypeInv, SampleInv, FinishCallback, NEW m \in Nat \ {0}, NEW k \in Nat \ {0},
         LongModulus = m * k,
         synced[isr.enc] /\ ~skipped[isr.enc]
           => count_[isr.enc] % m = (sampled[isr.enc] - base[isr.enc]) % m
  PROVE  ~skipped'[isr.enc]
           => count_'[isr.enc] % m = (sampled'[isr.enc] - base'[isr.enc]) % m
<1> DEFINE e     == isr.enc
           code  == Packed(e)
           smp   == Sample(e, code)
           delta == TicksDelta(state_[e], code)
           cnt   == (count_[e] + delta) % LongModulus
<1>1. /\ e \in Enc /\ code \in 0 .. 3 /\ smp \in Int /\ cnt \in 0 .. (LongModulus - 1)
      /\ Code(smp) = code
      /\ count_' = [count_ EXCEPT ![e] = cnt]
      /\ sampled' = [sampled EXCEPT ![e] = smp]
      /\ base' = [base EXCEPT ![e] = IF synced[e] THEN @ ELSE smp - cnt]
      /\ skipped' = [skipped EXCEPT ![e] =
                       @ \/ (synced[e] /\ Distance(smp, sampled[e]) > 1)]
  BY FinishedCallback DEF TypeInv
<1>2. /\ count_[e] \in Int /\ sampled[e] \in Int /\ base[e] \in Int /\ state_[e] \in 0 .. 3
      /\ synced[e] \in BOOLEAN /\ skipped[e] \in BOOLEAN
  BY <1>1, ModulusPositive DEF TypeInv, DataType
<1>3. synced[e] => state_[e] = Code(sampled[e])
  BY <1>1 DEF SampleInv, StateIsSample
<1>4. delta \in Int
  BY <1>1, <1>2, DeltaType
<1>5. count_[e] + delta \in Int
  BY <1>2, <1>4
<1>6. cnt % m = (count_[e] + delta) % m
  <2> HIDE DEF delta
  <2> QED BY <1>5, ModulusPositive, ModMod
<1> HIDE DEF code, smp, cnt
<1>7. /\ count_'[e] = cnt /\ sampled'[e] = smp
      /\ base'[e] = IF synced[e] THEN base[e] ELSE smp - cnt
      /\ skipped'[e] = (skipped[e] \/ (synced[e] /\ Distance(smp, sampled[e]) > 1))
  BY <1>1 DEF TypeInv, DataType
<1>8. CASE ~synced[e]
  <2>1. cnt \in Int
    BY <1>1, ModulusPositive
  <2>2. smp - (smp - cnt) = cnt
    BY <1>1, <2>1
  <2> QED BY <1>7, <1>8, <2>2
<1>9. CASE synced[e] /\ ~skipped'[e]
  <2>1. ~skipped[e] /\ ~(Distance(smp, sampled[e]) > 1)
    BY <1>7, <1>9
  <2>2. PICK d \in {-1, 0, 1} : smp = sampled[e] + d
    <3>1. smp - sampled[e] \in {-1, 0, 1}
      BY <1>1, <1>2, <2>1 DEF Distance
    <3> QED BY <1>1, <1>2, <3>1
  <2>3. delta = d
    BY <1>1, <1>2, <1>3, <1>9, <2>2, DeltaOfStep
  <2> DEFINE x == sampled[e] - base[e]
             c == count_[e]
  <2>4. x \in Int /\ c \in Int /\ c % m = x % m
    BY <1>2, <1>9, <2>1
  <2>5. smp - base[e] = x + d
    BY <1>2, <2>2
  <2>6. cnt % m = (c + d) % m
    BY <1>6, <2>3, Zenon
  <2> HIDE DEF x, c
  <2>7. ((x % m) + d) % m = (x + d) % m /\ ((c % m) + d) % m = (c + d) % m
    <3>1. d \in Int
      OBVIOUS
    <3> QED BY <2>4, <3>1, ModAdd, Zenon
  <2>8. cnt % m = (x + d) % m
    BY <2>4, <2>6, <2>7
  <2> QED BY <1>7, <1>9, <2>5, <2>8
<1> QED BY <1>8, <1>9

LEMMA CountInit == Init => CountInv /\ LowByteInv
  BY DEF Init, CountInv, LowByteInv

LEMMA LowByteModulus ==
  \E k \in Nat \ {0} : LongModulus = ByteBase * k
<1>1. /\ ByteBase ^ LongBytes = ByteBase ^ 1 * ByteBase ^ (LongBytes - 1)
      /\ ByteBase ^ (LongBytes - 1) \in Nat \ {0}
  <2>1. /\ LongBytes \in 0 .. LongBytes /\ 1 \in 0 .. LongBytes
        /\ LongBytes - 1 \in 0 .. LongBytes
    BY EncoderAssumption
  <2> QED BY <2>1, PowerAssumption
<1> QED BY <1>1, PowerAssumption DEF LongModulus

(* Of another encoder, callback() changes nothing.                         *)
LEMMA OtherEncoder ==
  ASSUME TypeInv, FinishCallback, NEW f \in Enc, f # isr.enc
  PROVE  /\ count_'[f] = count_[f] /\ sampled'[f] = sampled[f] /\ base'[f] = base[f]
         /\ synced'[f] = synced[f] /\ skipped'[f] = skipped[f]
<1> DEFINE code == Packed(isr.enc)
           smp  == Sample(isr.enc, code)
           cnt  == (count_[isr.enc] + TicksDelta(state_[isr.enc], code)) % LongModulus
<1>1. /\ isr.enc \in Enc
      /\ count_' = [count_ EXCEPT ![isr.enc] = cnt]
      /\ sampled' = [sampled EXCEPT ![isr.enc] = smp]
      /\ base' = [base EXCEPT ![isr.enc] = IF synced[isr.enc] THEN @ ELSE smp - cnt]
      /\ synced' = [synced EXCEPT ![isr.enc] = TRUE]
      /\ skipped' = [skipped EXCEPT ![isr.enc] =
                       @ \/ (synced[isr.enc] /\ Distance(smp, sampled[isr.enc]) > 1)]
  BY FinishedCallback DEF TypeInv
<1> HIDE DEF code, smp, cnt
<1> QED BY <1>1 DEF TypeInv, DataType

(* Without reset(), the count is exact.                                    *)
LEMMA CountStep ==
  ASSUME "reset" \notin MainOps, main.op # "reset",
         TypeInv, SampleInv, CountInv, Next
  PROVE  CountInv' /\ main'.op # "reset"
<1>1. CASE FinishCallback
  <2>1. isr.enc \in Enc
    BY <1>1, FinishedCallback DEF TypeInv
  <2>2. /\ \A e \in Enc : count_[e] % LongModulus = count_[e]
        /\ \A e \in Enc : count_'[e] % LongModulus = count_'[e]
    BY <1>1, ModulusPositive, ModSmall, DataStep DEF TypeInv, DataType
  <2>3. LongModulus = LongModulus * 1
    BY ModulusPositive
  <2>4. synced[isr.enc] /\ ~skipped[isr.enc]
          => count_[isr.enc] % LongModulus = (sampled[isr.enc] - base[isr.enc]) % LongModulus
    BY <2>1, <2>2 DEF CountInv
  <2>5. ~skipped'[isr.enc]
          => count_'[isr.enc] % LongModulus
               = (sampled'[isr.enc] - base'[isr.enc]) % LongModulus
    BY <1>1, <2>3, <2>4, ModulusPositive, CountedSample
  <2>6. CountInv'
    <3> SUFFICES ASSUME NEW f \in Enc, synced'[f], ~skipped'[f]
                 PROVE  count_'[f] = (sampled'[f] - base'[f]) % LongModulus
      BY DEF CountInv
    <3>1. CASE f = isr.enc
      BY <2>2, <2>5, <3>1
    <3>2. CASE f # isr.enc
      BY <1>1, <3>2, OtherEncoder DEF CountInv
    <3> QED BY <3>1, <3>2
  <2>7. main'.op # "reset"
    <3>1. CASE main' = main
      BY <3>1
    <3>2. CASE main' # main
      <4>1. PICK c : main.op = "read" /\ main' = [main EXCEPT !.during = @ \cup {c}]
        BY <1>1, <3>2 DEF FinishCallback
      <4>2. main = [op |-> "read", enc |-> main.enc, next |-> main.next,
                    value |-> main.value, during |-> main.during]
        BY <4>1, MainFields DEF TypeInv
      <4> QED BY <4>1, <4>2
    <3> QED BY <3>1, <3>2
  <2> QED BY <2>6, <2>7
<1>2. ASSUME UNCHANGED <<count_, history>>
      PROVE  CountInv'
  BY <1>2 DEF CountInv, history
<1>3. ASSUME \/ \E e \in Enc, d \in {-1, 1} : Edge(e, d)
             \/ \E e \in Enc : EnterIsr(e)
             \/ \E c \in {"a", "b"} : ReadFirstChannel(c)
      PROVE  CountInv' /\ main'.op # "reset"
  <2>1. UNCHANGED <<count_, history, main>>
    BY <1>3 DEF Edge, EnterIsr, ReadFirstChannel
  <2> QED BY <1>2, <2>1
<1>4. CASE Main
  <2>1. ~ResetByte /\ ~(\E e \in Enc : StartReset(e))
    BY DEF ResetByte, StartReset
  <2>2. UNCHANGED <<count_, history>>
    BY <1>4, <2>1
    DEF Main, AttachA, AttachB, Attach, Register, RefuseBegin, StartRead, ReadByte, EndRead
  <2>3. main'.op # "reset"
    <3>1. CASE AttachA \/ AttachB
      <4>1. /\ main.op = "begin"
            /\ main = [op |-> "begin", enc |-> main.enc, step |-> main.step]
        BY <3>1, MainFields DEF AttachA, AttachB, TypeInv
      <4> QED BY <3>1, <4>1 DEF AttachA, AttachB, Attach
    <3>2. CASE Register \/ RefuseBegin
      <4>1. main.op = "begin" /\ main' = AfterBegin(main.enc)
        BY <3>2 DEF Register, RefuseBegin
      <4> QED BY <4>1 DEF AfterBegin, Idle
    <3>3. CASE (\E e \in Enc : StartRead(e)) \/ EndRead
      BY <3>3 DEF StartRead, EndRead, Idle
    <3>4. CASE ReadByte
      <4>1. PICK v : main.op = "read" /\ main' = [main EXCEPT !.next = @ + 1, !.value = v]
        BY <3>4 DEF ReadByte
      <4>2. PICK e, n, w, d :
              main = [op |-> "read", enc |-> e, next |-> n, value |-> w, during |-> d]
        BY <4>1, MainFields DEF TypeInv
      <4> QED BY <4>1, <4>2
    <3> QED BY <1>4, <2>1, <3>1, <3>2, <3>3, <3>4 DEF Main
  <2> QED BY <1>2, <2>2, <2>3
<1> QED BY <1>1, <1>3, <1>4 DEF Next, Isr

(* As long as every edge is sampled before the next and reset() does not   *)
(* run, the count is the movement of the wheel modulo the width of count_, *)
(* for every interleaving of edges, interrupts and the main program        *)
(* (encoder.cpp:112-119).                                                  *)
THEOREM CountsExactly ==
  ASSUME "reset" \notin MainOps
  PROVE  Spec => []CountExact
<1> DEFINE I == main.op # "reset" /\ CountInv
<1>1. Init => I
  BY CountInit DEF Init
<1>2. TypeInv /\ RegistryInv /\ SampleInv /\ I /\ [Next]_vars => I'
  <2> SUFFICES ASSUME TypeInv, SampleInv, I, [Next]_vars PROVE I'
    OBVIOUS
  <2>1. CASE Next
    BY <2>1, CountStep
  <2>2. CASE UNCHANGED vars
    BY <2>2 DEF vars, history, CountInv
  <2> QED BY <2>1, <2>2
<1>3. SampleInv /\ I => CountExact
  BY DEF SampleInv, SampleCurrent, CountInv, CountExact
<1> QED BY <1>1, <1>2, <1>3, SamplesSound, PTL DEF Spec

(* With reset(), the low byte is.                                          *)
LEMMA ResetLowByte ==
  ASSUME TypeInv, ResetByte
  PROVE  LET e == main.enc
         IN /\ e \in Enc
            /\ \A f \in Enc \ {e} : count_'[f] = count_[f] /\ base'[f] = base[f]
            /\ IF main.next = 0
               THEN count_'[e] % ByteBase = 0 /\ base'[e] = sampled[e]
               ELSE count_'[e] % ByteBase = count_[e] % ByteBase /\ base'[e] = base[e]
<1> DEFINE e == main.enc
           i == main.next
           c == count_[e]
           P == ByteBase ^ i
<1>1. e \in Enc /\ i \in 0 .. (LongBytes - 1)
  BY MainFields DEF ResetByte, TypeInv
<1>2. /\ count_' = [count_ EXCEPT ![e] = c - Byte(c, i) * P]
      /\ base' = IF i = 0 THEN [base EXCEPT ![e] = sampled[e]] ELSE base
  BY <1>1 DEF ResetByte, TypeInv, DataType
<1>3. c \in Nat /\ c \in Int /\ ByteBase \in Nat \ {0} /\ 0 \in Int
  BY <1>1, ModulusPositive, EncoderAssumption DEF TypeInv, DataType
<1>4. count_'[e] = c - Byte(c, i) * P
  BY <1>1, <1>2 DEF TypeInv, DataType
<1>5. CASE i = 0
  <2>1. P = 1 /\ Byte(c, i) = c % ByteBase
    <3>1. ByteBase ^ 0 = 1
      BY PowerAssumption
    <3>2. c \div 1 = c
      BY <1>3
    <3> QED BY <1>5, <3>1, <3>2 DEF Byte
  <2>2. /\ c = ByteBase * (c \div ByteBase) + (c % ByteBase)
        /\ c % ByteBase \in Int /\ c \div ByteBase \in Int
    <3>1. /\ c = ByteBase * (c \div ByteBase) + (c % ByteBase)
          /\ c % ByteBase \in 0 .. (ByteBase - 1) /\ c \div ByteBase \in Int
      BY <1>3, DivMod, Zenon
    <3> QED BY <1>3, <3>1
  <2>3. count_'[e] = 0 + ByteBase * (c \div ByteBase)
    BY <1>3, <1>4, <2>1, <2>2
  <2>4. (0 + ByteBase * (c \div ByteBase)) % ByteBase = 0 % ByteBase
    BY <1>3, <2>2, ModShift, Zenon
  <2>5. 0 % ByteBase = 0
    BY <1>3, ModSmall
  <2>6. count_'[e] % ByteBase = 0
    BY <2>3, <2>4, <2>5
  <2>7. base'[e] = sampled[e]
    BY <1>1, <1>2, <1>5 DEF TypeInv, DataType
  <2> QED BY <1>1, <1>2, <1>5, <2>6, <2>7 DEF TypeInv, DataType
<1>6. CASE i # 0
  <2>1. i \in 1 .. LongBytes /\ i - 1 \in 0 .. LongBytes
    BY <1>1, <1>6, EncoderAssumption
  <2>2. PICK Q \in Nat : P = ByteBase * Q
    <3>1. P = ByteBase ^ 1 * ByteBase ^ (i - 1) /\ ByteBase ^ (i - 1) \in Nat
      BY <2>1, PowerAssumption
    <3> QED BY <3>1, PowerAssumption
  <2>3. P \in Nat \ {0}
    BY <2>1, PowerAssumption
  <2>4. Byte(c, i) \in Nat
    <3> HIDE DEF P, c
    <3>1. c \div P \in Nat
      BY <1>3, <2>3, DivModNat
    <3>2. (c \div P) % ByteBase \in Nat
      BY <1>3, <3>1, DivModNat
    <3> QED BY <3>2 DEF Byte, P
  <2> DEFINE b == Byte(c, i)
             j == -(b * Q)
  <2> HIDE DEF P, b
  <2>5. b \in Nat
    BY <2>4 DEF b
  <2>6. b * Q \in Nat /\ j \in Int /\ ByteBase * j = -(b * P)
    BY <1>3, <2>2, <2>5
  <2>7. count_'[e] = c + ByteBase * j
    BY <1>3, <1>4, <2>2, <2>5, <2>6 DEF b
  <2>8. (c + ByteBase * j) % ByteBase = c % ByteBase
    BY <1>3, <2>6, ModShift, Zenon
  <2>9. count_'[e] % ByteBase = c % ByteBase
    BY <2>7, <2>8, Zenon
  <2> QED BY <1>1, <1>2, <1>6, <2>9 DEF TypeInv, DataType
<1> QED BY <1>5, <1>6

LEMMA LowByteStep ==
  ASSUME TypeInv, SampleInv, LowByteInv, Next
  PROVE  LowByteInv'
<1>1. CASE FinishCallback
  <2>1. isr.enc \in Enc
    BY <1>1, FinishedCallback DEF TypeInv
  <2>2. PICK k \in Nat \ {0} : LongModulus = ByteBase * k
    BY LowByteModulus
  <2>3. synced[isr.enc] /\ ~skipped[isr.enc]
          => count_[isr.enc] % ByteBase = (sampled[isr.enc] - base[isr.enc]) % ByteBase
    BY <2>1 DEF LowByteInv
  <2>4. ~skipped'[isr.enc]
          => count_'[isr.enc] % ByteBase = (sampled'[isr.enc] - base'[isr.enc]) % ByteBase
    BY <1>1, <2>2, <2>3, EncoderAssumption, CountedSample
  <2> SUFFICES ASSUME NEW f \in Enc, synced'[f], ~skipped'[f]
               PROVE  count_'[f] % ByteBase = (sampled'[f] - base'[f]) % ByteBase
    BY DEF LowByteInv
  <2>5. CASE f = isr.enc
    BY <2>4, <2>5
  <2>6. CASE f # isr.enc
    BY <1>1, <2>6, OtherEncoder DEF LowByteInv
  <2> QED BY <2>5, <2>6
<1>2. CASE ResetByte
  <2> SUFFICES ASSUME NEW f \in Enc, synced'[f], ~skipped'[f]
               PROVE  count_'[f] % ByteBase = (sampled'[f] - base'[f]) % ByteBase
    BY DEF LowByteInv
  <2>1. UNCHANGED <<sampled, synced, skipped>>
    BY <1>2 DEF ResetByte
  <2>2. count_[f] % ByteBase = (sampled[f] - base[f]) % ByteBase
    BY <2>1 DEF LowByteInv
  <2>3. sampled[f] \in Int /\ sampled[f] - sampled[f] = 0
    BY DEF TypeInv, DataType
  <2>4. 0 % ByteBase = 0
    BY EncoderAssumption, ModSmall
  <2>5. CASE f = main.enc /\ main.next = 0
    <3>1. count_'[f] % ByteBase = 0 /\ base'[f] = sampled[f]
      BY <1>2, <2>5, ResetLowByte
    <3> QED BY <2>1, <2>3, <2>4, <3>1
  <2>6. CASE f = main.enc /\ main.next # 0
    BY <1>2, <2>1, <2>2, <2>6, ResetLowByte
  <2>7. CASE f # main.enc
    BY <1>2, <2>1, <2>2, <2>7, ResetLowByte
  <2> QED BY <2>5, <2>6, <2>7
<1>3. CASE UNCHANGED <<count_, history>>
  BY <1>3 DEF LowByteInv, history
<1> QED
  BY <1>1, <1>2, <1>3
  DEF Next, Isr, Main, Edge, EnterIsr, ReadFirstChannel, AttachA, AttachB, Attach, Register,
      RefuseBegin, StartRead, ReadByte, EndRead, StartReset

(* Interrupts between the bytes that reset() writes (encoder.cpp:110) can  *)
(* break the count, but never its low byte.                                *)
THEOREM LowByteCounts == Spec => []LowByteExact
<1>1. Init => LowByteInv
  BY CountInit
<1>2. TypeInv /\ RegistryInv /\ SampleInv /\ LowByteInv /\ [Next]_vars => LowByteInv'
  <2> SUFFICES ASSUME TypeInv, SampleInv, LowByteInv, [Next]_vars PROVE LowByteInv'
    OBVIOUS
  <2>1. CASE Next
    BY <2>1, LowByteStep
  <2>2. CASE UNCHANGED vars
    BY <2>2 DEF vars, history, LowByteInv
  <2> QED BY <2>1, <2>2
<1>3. SampleInv /\ LowByteInv => LowByteExact
  BY DEF SampleInv, SampleCurrent, LowByteInv, LowByteExact
<1> QED BY <1>1, <1>2, <1>3, SamplesSound, PTL DEF Spec

-----------------------------------------------------------------------------
(* read().  The present count is one of those during the call, and as long *)
(* as these agree above the lowest byte, what has been read so far is the  *)
(* lower part of one of them.                                              *)
ReadInv ==
  main.op = "read" =>
    /\ count_[main.enc] \in main.during
    /\ main.during \subseteq 0 .. (LongModulus - 1)
    /\ main.next = 0 => main.value = 0
    /\ main.next # 0 /\ SameHighBytes(main.during)
         => \E c \in main.during : main.value = c % ByteBase ^ main.next

(* Byte n of a number, put above its n lowest ones.                        *)
LEMMA ByteAppended ==
  ASSUME NEW n \in 0 .. (LongBytes - 1), NEW c \in Nat
  PROVE  (c % ByteBase ^ n) + Byte(c, n) * ByteBase ^ n = c % ByteBase ^ (n + 1)
<1> DEFINE P == ByteBase ^ n
           q == c \div P
           r == c % P
           u == q \div ByteBase
           t == q % ByteBase
           M == P * ByteBase
           w == r + t * P
<1>1. P \in Nat \ {0} /\ ByteBase \in Nat \ {0}
  BY EncoderAssumption, PowerAssumption
<1>2. ByteBase ^ (n + 1) = M
  <2>1. n + 1 \in 0 .. LongBytes /\ n \in 0 .. (n + 1) /\ (n + 1) - n = 1
    BY EncoderAssumption
  <2> QED BY <2>1, PowerAssumption
<1> HIDE DEF P
<1>3. c = P * q + r /\ r \in 0 .. (P - 1) /\ q \in Int
  BY <1>1, DivMod
<1> HIDE DEF q, r
<1>4. q = ByteBase * u + t /\ t \in 0 .. (ByteBase - 1) /\ u \in Int
  BY <1>1, <1>3, DivMod
<1> HIDE DEF u, t
<1>5. M \in Nat \ {0}
  BY <1>1
<1>6. w \in 0 .. (M - 1)
  <2>1. t * P \in Nat /\ t * P <= (ByteBase - 1) * P
    BY <1>1, <1>4
  <2>2. (ByteBase - 1) * P = M - P
    BY <1>1
  <2> QED BY <1>1, <1>3, <1>5, <2>1, <2>2
<1>7. c = M * u + w
  <2>1. P * q = P * (ByteBase * u) + P * t
    BY <1>1, <1>3, <1>4
  <2>2. P * (ByteBase * u) = M * u /\ P * t = t * P
    BY <1>1, <1>4
  <2>3. M * u \in Int /\ t * P \in Int /\ r \in Int
    BY <1>1, <1>3, <1>4, <1>5
  <2> QED BY <1>3, <2>1, <2>2, <2>3
<1> HIDE DEF w, M
<1>8. c % M = w
  <2> DEFINE cq == c \div M
             cr == c % M
  <2>1. c = M * cq + cr /\ cr \in 0 .. (M - 1) /\ cq \in Int
    BY <1>5, DivMod
  <2> HIDE DEF cq, cr
  <2>2. M * cq + cr = M * u + w
    BY <1>7, <2>1
  <2>3. cr = w
    BY <1>4, <1>5, <1>6, <2>1, <2>2, DivModUnique
  <2> QED BY <2>3 DEF cr
<1> QED BY <1>2, <1>8 DEF w, r, t, q, P, Byte

(* More counts agree above the lowest byte only if fewer do.               *)
LEMMA FewerAgree ==
  ASSUME NEW S, NEW T, S \subseteq T, SameHighBytes(T)
  PROVE  SameHighBytes(S)
  BY DEF SameHighBytes

LEMMA ReadStep ==
  ASSUME TypeInv, ReadInv, Next
  PROVE  ReadInv'
<1>1. CASE UNCHANGED <<count_, main>>
  BY <1>1 DEF ReadInv
<1>2. CASE FinishCallback
  <2> DEFINE cnt == (count_[isr.enc] + TicksDelta(state_[isr.enc], Packed(isr.enc)))
                      % LongModulus
  <2>1. /\ isr.enc \in Enc /\ count_' = [count_ EXCEPT ![isr.enc] = cnt]
        /\ cnt \in 0 .. (LongModulus - 1)
    BY <1>2, FinishedCallback DEF TypeInv
  <2>2. main' = IF main.op = "read" /\ main.enc = isr.enc
                THEN [main EXCEPT !.during = @ \cup {cnt}] ELSE main
    BY <1>2 DEF FinishCallback, Packed
  <2> HIDE DEF cnt
  <2>3. CASE main.op = "read" /\ main.enc = isr.enc
    <3>1. main = [op |-> "read", enc |-> main.enc, next |-> main.next,
                  value |-> main.value, during |-> main.during]
      BY <2>3, MainFields DEF TypeInv
    <3>2. /\ main'.enc = main.enc /\ main'.next = main.next /\ main'.value = main.value
          /\ main'.during = main.during \cup {cnt}
      BY <2>2, <2>3, <3>1
    <3>3. count_'[main.enc] = cnt /\ cnt \in 0 .. (LongModulus - 1)
      BY <2>1, <2>3 DEF TypeInv, DataType
    <3>4. main.during \subseteq main'.during
      BY <3>2
    <3>5. SameHighBytes(main'.during) => SameHighBytes(main.during)
      BY <3>4, FewerAgree
    <3>6. count_'[main'.enc] \in main'.during /\ main'.during \subseteq 0 .. (LongModulus - 1)
      BY <2>3, <3>2, <3>3 DEF ReadInv
    <3>7. main'.next # 0 /\ SameHighBytes(main'.during)
            => \E c \in main'.during : main'.value = c % ByteBase ^ main'.next
      BY <2>3, <3>2, <3>4, <3>5 DEF ReadInv
    <3>8. main'.next = 0 => main'.value = 0
      BY <2>3, <3>2 DEF ReadInv
    <3> QED BY <3>6, <3>7, <3>8 DEF ReadInv
  <2>4. CASE main.op = "read" /\ main.enc # isr.enc
    <3>1. main.enc \in Enc
      BY <2>4, MainFields DEF TypeInv
    <3>2. main' = main /\ count_'[main.enc] = count_[main.enc]
      BY <2>1, <2>2, <2>4, <3>1 DEF TypeInv, DataType
    <3> QED BY <2>4, <3>2 DEF ReadInv
  <2>5. CASE main.op # "read"
    BY <2>2, <2>5 DEF ReadInv
  <2> QED BY <2>3, <2>4, <2>5
<1>3. CASE AttachA \/ AttachB
  <2>1. main.op = "begin" /\ main = [op |-> "begin", enc |-> main.enc, step |-> main.step]
    BY <1>3, MainFields DEF AttachA, AttachB, TypeInv
  <2>2. main'.op = "begin"
    BY <1>3, <2>1 DEF AttachA, AttachB, Attach
  <2> QED BY <2>2 DEF ReadInv
<1>4. CASE Register \/ RefuseBegin
  <2>1. main' = AfterBegin(main.enc)
    BY <1>4 DEF Register, RefuseBegin
  <2>2. main'.op # "read"
    BY <2>1 DEF AfterBegin, Idle
  <2> QED BY <2>2 DEF ReadInv
<1>5. ASSUME NEW e \in Enc, StartRead(e)
      PROVE  ReadInv'
  <2>1. /\ main'.enc = e /\ main'.next = 0 /\ main'.value = 0
        /\ main'.during = {count_[e]} /\ count_' = count_
    BY <1>5 DEF StartRead
  <2>2. count_[e] \in 0 .. (LongModulus - 1)
    BY DEF TypeInv, DataType
  <2> QED BY <2>1, <2>2 DEF ReadInv
<1>6. CASE ReadByte
  <2>1. /\ main.op = "read" /\ main.next < LongBytes /\ count_' = count_
        /\ main' = [main EXCEPT !.next = @ + 1,
                      !.value = @ + Byte(count_[main.enc], main.next) * ByteBase ^ main.next]
    BY <1>6 DEF ReadByte
  <2>2. PICK e, n, v, d :
          /\ e \in Enc /\ n \in 0 .. LongBytes
          /\ main = [op |-> "read", enc |-> e, next |-> n, value |-> v, during |-> d]
    BY <2>1, MainFields DEF TypeInv
  <2> DEFINE b == Byte(count_[e], n)
             w == v + b * ByteBase ^ n
  <2>3. main' = [op |-> "read", enc |-> e, next |-> n + 1, value |-> w, during |-> d]
    BY <2>1, <2>2
  <2>4. /\ n \in 0 .. (LongBytes - 1) /\ count_[e] \in d /\ d \subseteq 0 .. (LongModulus - 1)
        /\ n = 0 => v = 0
        /\ n # 0 /\ SameHighBytes(d) => \E c \in d : v = c % ByteBase ^ n
    BY <2>1, <2>2, EncoderAssumption DEF ReadInv
  <2>5. d \subseteq Nat /\ count_[e] \in Nat /\ count_[e] \in Int
    <3>1. d \subseteq 0 .. (LongModulus - 1) /\ count_[e] \in d
      BY <2>4
    <3>2. 0 .. (LongModulus - 1) \subseteq Nat /\ Nat \subseteq Int
      BY ModulusPositive
    <3> QED BY <3>1, <3>2
  <2>6. ASSUME SameHighBytes(d)
        PROVE  \E c \in d : w = c % ByteBase ^ (n + 1)
    <3>1. CASE n = 0
      <4>1. (count_[e] % ByteBase ^ n) + Byte(count_[e], n) * ByteBase ^ n
              = count_[e] % ByteBase ^ (n + 1)
        BY <2>4, <2>5, ByteAppended
      <4>2. count_[e] % ByteBase ^ n = 0
        <5> DEFINE x == count_[e]
        <5>1. x \in Int
          BY <2>5
        <5>2. ByteBase ^ n = 1
          BY <3>1, PowerAssumption
        <5> HIDE DEF x
        <5>3. x % 1 = 0
          BY <5>1
        <5> QED BY <5>2, <5>3 DEF x
      <4>3. v = count_[e] % ByteBase ^ n
        BY <2>4, <3>1, <4>2
      <4> QED BY <2>4, <4>1, <4>3
    <3>2. CASE n # 0
      <4>1. PICK c \in d : v = c % ByteBase ^ n
        BY <2>4, <2>6, <3>2
      <4>2. n \in 1 .. (LongBytes - 1)
        BY <2>4, <3>2
      <4>3. Byte(count_[e], n) = Byte(c, n)
        BY <2>4, <2>6, <4>2 DEF SameHighBytes
      <4>4. (c % ByteBase ^ n) + Byte(c, n) * ByteBase ^ n = c % ByteBase ^ (n + 1)
        BY <2>4, <2>5, ByteAppended
      <4> QED BY <4>1, <4>3, <4>4
    <3> QED BY <3>1, <3>2
  <2>7. /\ main'.enc = e /\ main'.next = n + 1 /\ main'.value = w /\ main'.during = d
    BY <2>3
  <2> HIDE DEF w
  <2>8. n + 1 # 0
    BY <2>4
  <2> QED BY <2>1, <2>4, <2>6, <2>7, <2>8 DEF ReadInv
<1>7. ASSUME EndRead \/ \E e \in Enc : StartReset(e)
      PROVE  ReadInv'
  <2>1. main'.op # "read"
    BY <1>7 DEF EndRead, StartReset, Idle
  <2> QED BY <2>1 DEF ReadInv
<1>8. CASE ResetByte
  <2>1. /\ main.op = "reset"
        /\ main = [op |-> "reset", enc |-> main.enc, next |-> main.next]
    BY <1>8, MainFields DEF ResetByte, TypeInv
  <2>2. main'.op # "read"
    BY <1>8, <2>1 DEF ResetByte, Idle
  <2> QED BY <2>2 DEF ReadInv
<1> QED
  BY <1>1, <1>2, <1>3, <1>4, <1>5, <1>6, <1>7, <1>8
  DEF Next, Isr, Main, Edge, EnterIsr, ReadFirstChannel

(* What read() returns although interrupts fall between its bytes          *)
(* (encoder.cpp:108) is a count that the encoder had during the call,      *)
(* unless one of them carried or borrowed out of the lowest byte.          *)
THEOREM ReadsWithoutCarry == Spec => []ReadWithoutCarry
<1>1. Init => ReadInv
  BY DEF Init, ReadInv
<1>2. TypeInv /\ RegistryInv /\ ReadInv /\ [Next]_vars => ReadInv'
  <2> SUFFICES ASSUME TypeInv, ReadInv, [Next]_vars PROVE ReadInv'
    OBVIOUS
  <2>1. CASE Next
    BY <2>1, ReadStep
  <2>2. CASE UNCHANGED vars
    BY <2>2 DEF vars, ReadInv
  <2> QED BY <2>1, <2>2
<1>3. ReadInv => ReadWithoutCarry
  <2> SUFFICES ASSUME ReadInv, main.op = "read", main.next = LongBytes,
                      SameHighBytes(main.during)
               PROVE  main.value \in main.during
    BY DEF ReadWithoutCarry
  <2>1. LongBytes # 0
    BY EncoderAssumption
  <2>2. PICK c \in main.during : main.value = c % LongModulus
    BY <2>1 DEF ReadInv, LongModulus
  <2>3. c \in 0 .. (LongModulus - 1)
    BY DEF ReadInv
  <2>4. c % LongModulus = c
    BY <2>3, ModulusPositive, ModSmall
  <2> QED BY <2>2, <2>4
<1> QED BY <1>1, <1>2, <1>3, RegistrySound, PTL DEF Spec

=============================================================================
