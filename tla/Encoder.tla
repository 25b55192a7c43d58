------------------------------ MODULE Encoder -------------------------------
(***************************************************************************)
(* The quadrature encoders (encoder.cpp) and the pin change interrupts     *)
(* that drive them (interrupt_in_arduino.cpp).  Three kinds of steps       *)
(* interleave: the wheels turn, an interrupt service routine reads the two *)
(* channels one after the other, and the main program initialises the      *)
(* encoders and then reads and resets their counts byte by byte, as an     *)
(* 8-bit processor does.  A routine runs to its end before the main        *)
(* program or another routine continues.                                   *)
(*                                                                         *)
(* hw.h puts the channels of each encoder on a port of their own, so that  *)
(* a port is named here by its encoder.                                    *)
(***************************************************************************)
EXTENDS Integers, Sequences

CONSTANTS
  N,                 \* encoders, in the order in which begin() is called
  kInstancesMax,     \* instances that can be registered, 2
  ByteBase,          \* values of a byte, 256
  LongBytes,         \* bytes of count_, 4
  Turning,           \* bound: the encoders whose wheels turn
  MaxPosition,       \* bound: how far a wheel turns, in quarter periods
  MaxLag,            \* bound: edges that may wait for their sample
  MainOps            \* what the main program does after begin()

Enc == 1 .. N
Slot == 0 .. (kInstancesMax - 1)
None == -1

ASSUME EncoderAssumption ==
  /\ N \in Nat \ {0} /\ kInstancesMax \in Nat /\ MaxPosition \in Nat /\ MaxLag \in Nat
  /\ ByteBase \in Nat \ {0, 1} /\ LongBytes \in Nat \ {0}
  /\ MainOps \subseteq {"read", "reset"} /\ Turning \subseteq Enc

(* What arithmetic says of the powers of ByteBase, for the provers, which  *)
(* know nothing of ^.                                                      *)
ASSUME PowerAssumption ==
  /\ ByteBase ^ 0 = 1 /\ ByteBase ^ 1 = ByteBase
  /\ \A i \in 0 .. LongBytes :
       /\ ByteBase ^ i \in Nat \ {0}
       /\ \A j \in 0 .. i : ByteBase ^ i = ByteBase ^ j * ByteBase ^ (i - j)

VARIABLES
  pos,               \* where each wheel is, in quarter periods of the channels
  mask,              \* PCMSKn: the channels whose changes raise the flag
  flag,              \* PCIFRn: a change waits for its interrupt
  g_callbacks,       \* per port, the slot whose callback is attached
  instances_,        \* per slot, the encoder registered in it
  instance_count_,
  state_,            \* per encoder, the lowest two bits: the last sample
  count_,            \* per encoder, as an unsigned number
  isr,               \* the routine that runs, or NoIsr
  main,              \* where the main program is
  sampled,           \* history: the position of the last sample
  synced,            \* history: an interrupt has sampled the channels
  base,              \* history: the position that count zero stands for
  skipped            \* history: a sample came more than an edge after the last

registers == <<mask, flag>>
registry == <<g_callbacks, instances_, instance_count_>>
history == <<sampled, synced, base, skipped>>
vars == <<pos, registers, registry, state_, count_, isr, main, history>>

-----------------------------------------------------------------------------
LongModulus == ByteBase ^ LongBytes

(* The channels at a position, packed as callback() packs them: channel B  *)
(* in bit 1 and channel A in bit 0.                                        *)
Code(p) == <<0, 1, 3, 2>>[(p % 4) + 1]
Bit(code, channel) == IF channel = "b" THEN code \div 2 ELSE code % 2
Other(channel) == IF channel = "b" THEN "a" ELSE "b"

SwappedDelta == <<0, -1, 1, 0, 1, 0, 0, -1, -1, 0, 0, 1, 0, 1, -1, 0>>
kTicksDelta == <<0, 1, -1, 0, -1, 0, 0, 1, 1, 0, 0, -1, 0, -1, 1, 0>>

(* The entry of a previous and a current sample.                           *)
TicksDelta(previous, current) == kTicksDelta[4 * previous + current + 1]

Byte(x, i) == (x \div ByteBase ^ i) % ByteBase

NoIsr == [enc |-> None]

Distance(p, q) == IF p < q THEN q - p ELSE p - q

-----------------------------------------------------------------------------
Init ==
  /\ pos \in [Enc -> 0 .. 3] /\ \A e \in Enc \ Turning : pos[e] = 0
  /\ mask = [e \in Enc |-> {}]
  /\ flag = [e \in Enc |-> FALSE]
  /\ g_callbacks = [e \in Enc |-> None]
  /\ instances_ = [s \in Slot |-> None]
  /\ instance_count_ = 0
  /\ state_ = [e \in Enc |-> 0]
  /\ count_ = [e \in Enc |-> 0]
  /\ isr = NoIsr
  /\ main = [op |-> "begin", enc |-> 1, step |-> "attach_a"]
  /\ sampled = pos
  /\ synced = [e \in Enc |-> FALSE]
  /\ base = pos
  /\ skipped = [e \in Enc |-> FALSE]

-----------------------------------------------------------------------------
(* A wheel turns by a quarter period, which changes one channel.  No more  *)
(* than MaxLag edges wait for their sample.                                *)
Edge(e, d) ==
  LET new     == pos[e] + d
      changed == IF Bit(Code(pos[e]), "a") # Bit(Code(new), "a") THEN "a" ELSE "b"
  IN /\ e \in Turning /\ Distance(new, 0) <= MaxPosition
     /\ synced[e] => Distance(new, sampled[e]) <= MaxLag
     /\ isr.enc = e /\ isr.phase = "half" => Distance(new, isr.at) <= MaxLag
     /\ pos' = [pos EXCEPT ![e] = new]
     /\ flag' = [flag EXCEPT ![e] = @ \/ changed \in mask[e]]
     /\ UNCHANGED <<mask, registry, state_, count_, isr, main, history>>

-----------------------------------------------------------------------------
(* ISR(PCINTn_vect).  The hardware clears the flag on entry.  The routine  *)
(* returns at once when no callback is attached or no encoder registered.  *)
EnterIsr(e) ==
  LET slot   == g_callbacks[e]
      target == IF slot = None THEN None ELSE instances_[slot]
  IN /\ isr = NoIsr
     /\ flag[e]
     /\ flag' = [flag EXCEPT ![e] = FALSE]
     /\ isr' = IF target = None THEN NoIsr ELSE [enc |-> target, phase |-> "entered"]
     /\ UNCHANGED <<pos, mask, registry, state_, count_, main, history>>

(* Encoder::callback() reads the channels in an order that C++ leaves to   *)
(* the compiler.                                                           *)
ReadFirstChannel(channel) ==
  /\ isr # NoIsr /\ isr.phase = "entered"
  /\ isr' = [enc |-> isr.enc, phase |-> "half", channel |-> channel,
             bit |-> Bit(Code(pos[isr.enc]), channel), at |-> pos[isr.enc]]
  /\ UNCHANGED <<pos, registers, registry, state_, count_, main, history>>

(* The second channel, and the update of state_ and count_.                *)
FinishCallback ==
  /\ isr # NoIsr /\ isr.phase = "half"
  /\ LET e      == isr.enc
         last   == Bit(Code(pos[e]), Other(isr.channel))
         code   == IF isr.channel = "b" THEN 2 * isr.bit + last ELSE 2 * last + isr.bit
         count  == (count_[e] + TicksDelta(state_[e], code)) % LongModulus
         sample == CHOOSE p \in (pos[e] - 1) .. (pos[e] + 2) : Code(p) = code
     IN /\ state_' = [state_ EXCEPT ![e] = code]
        /\ count_' = [count_ EXCEPT ![e] = count]
        /\ sampled' = [sampled EXCEPT ![e] = sample]
        /\ base' = [base EXCEPT ![e] = IF synced[e] THEN @ ELSE sample - count]
        /\ synced' = [synced EXCEPT ![e] = TRUE]
        /\ skipped' = [skipped EXCEPT ![e] =
                         @ \/ (synced[e] /\ Distance(sample, sampled[e]) > 1)]
        /\ main' = IF main.op = "read" /\ main.enc = e
                   THEN [main EXCEPT !.during = @ \cup {count}] ELSE main
  /\ isr' = NoIsr
  /\ UNCHANGED <<pos, registers, registry>>

-----------------------------------------------------------------------------
(* The main program, which runs only while no routine does.                *)

Idle == [op |-> "idle"]
AfterBegin(e) ==
  IF e = N THEN Idle ELSE [op |-> "begin", enc |-> e + 1, step |-> "attach_a"]

(* InterruptInArduino::attach() for a channel of the encoder.              *)
Attach(channel, next) ==
  /\ isr = NoIsr
  /\ main.op = "begin"
  /\ mask' = [mask EXCEPT ![main.enc] = @ \cup {channel}]
  /\ g_callbacks' = [g_callbacks EXCEPT ![main.enc] = instance_count_]
  /\ main' = [main EXCEPT !.step = next]
  /\ UNCHANGED <<pos, flag, instances_, instance_count_, state_, count_, isr, history>>

AttachUnchecked == main.op = "begin" /\ main.step = "attach_a" /\ Attach("a", "attach_b")
AttachA ==
  /\ main.op = "begin" /\ main.step = "attach_a"
  /\ instance_count_ # kInstancesMax
  /\ Attach("a", "attach_b")

AttachAAgain == main.op = "begin" /\ main.step = "attach_b" /\ Attach("a", "register")
AttachB ==
  /\ main.op = "begin" /\ main.step = "attach_b"
  /\ Attach("b", "register")

RegisterInFirstSlot ==
  /\ isr = NoIsr
  /\ main.op = "begin" /\ main.step = "register"
  /\ instances_' = [instances_ EXCEPT ![0] = main.enc]
  /\ instance_count_' = instance_count_ + 1
  /\ main' = AfterBegin(main.enc)
  /\ UNCHANGED <<pos, registers, g_callbacks, state_, count_, isr, history>>

Register ==
  /\ isr = NoIsr
  /\ main.op = "begin" /\ main.step = "register"
  /\ instances_' = [instances_ EXCEPT ![instance_count_] = main.enc]
  /\ instance_count_' = instance_count_ + 1
  /\ main' = AfterBegin(main.enc)
  /\ UNCHANGED <<pos, registers, g_callbacks, state_, count_, isr, history>>

(* begin() returns at once when every slot is taken.                       *)
RefuseBegin ==
  /\ isr = NoIsr
  /\ main.op = "begin" /\ main.step = "attach_a"
  /\ instance_count_ = kInstancesMax
  /\ main' = AfterBegin(main.enc)
  /\ UNCHANGED <<pos, registers, registry, state_, count_, isr, history>>

StartRead(e) ==
  /\ isr = NoIsr
  /\ main.op = "idle" /\ "read" \in MainOps
  /\ main' = [op |-> "read", enc |-> e, next |-> 0, value |-> 0, during |-> {count_[e]}]
  /\ UNCHANGED <<pos, registers, registry, state_, count_, isr, history>>

ReadFromRegister ==
  /\ isr = NoIsr
  /\ main.op = "read" /\ main.next < LongBytes
  /\ main' = [main EXCEPT !.next = @ + 1,
                          !.value = @ + Byte(count_[main.enc], 0) * ByteBase ^ main.next]
  /\ UNCHANGED <<pos, registers, registry, state_, count_, isr, history>>

(* read(): one byte of count_, the lowest first.                           *)
ReadByte ==
  /\ isr = NoIsr
  /\ main.op = "read" /\ main.next < LongBytes
  /\ main' = [main EXCEPT !.next = @ + 1,
                          !.value = @ + Byte(count_[main.enc], main.next) * ByteBase ^ main.next]
  /\ UNCHANGED <<pos, registers, registry, state_, count_, isr, history>>

EndRead ==
  /\ isr = NoIsr
  /\ main.op = "read" /\ main.next = LongBytes
  /\ main' = Idle
  /\ UNCHANGED <<pos, registers, registry, state_, count_, isr, history>>

StartReset(e) ==
  /\ isr = NoIsr
  /\ main.op = "idle" /\ "reset" \in MainOps
  /\ main' = [op |-> "reset", enc |-> e, next |-> 0]
  /\ UNCHANGED <<pos, registers, registry, state_, count_, isr, history>>

(* reset(): one byte of count_ becomes zero, the lowest first.             *)
ResetByte ==
  LET e == main.enc
      i == main.next
  IN /\ isr = NoIsr
     /\ main.op = "reset"
     /\ count_' = [count_ EXCEPT ![e] = @ - Byte(@, i) * ByteBase ^ i]
     /\ base' = IF i = 0 THEN [base EXCEPT ![e] = sampled[e]] ELSE base
     /\ main' = IF i = LongBytes - 1 THEN Idle ELSE [main EXCEPT !.next = @ + 1]
     /\ UNCHANGED <<pos, registers, registry, state_, isr, sampled, synced, skipped>>

-----------------------------------------------------------------------------
Isr == (\E e \in Enc : EnterIsr(e)) \/ (\E c \in {"a", "b"} : ReadFirstChannel(c)) \/ FinishCallback

Main ==
  \/ AttachA \/ AttachB \/ Register \/ RefuseBegin
  \/ (\E e \in Enc : StartRead(e)) \/ ReadByte \/ EndRead
  \/ (\E e \in Enc : StartReset(e)) \/ ResetByte

Next == (\E e \in Enc, d \in {-1, 1} : Edge(e, d)) \/ Isr \/ Main

Spec == Init /\ [][Next]_vars

-----------------------------------------------------------------------------
Settled(e) == ~flag[e] /\ isr.enc # e
Resetting(e) == main.op = "reset" /\ main.enc = e

(* No edge is forgotten: while the last sample of an encoder differs from  *)
(* its channels, its interrupt is pending or its callback is running, even *)
(* if a channel changes between the two reads of callback().               *)
NoLostEdge ==
  \A e \in Enc : synced[e] /\ state_[e] # Code(pos[e]) => ~Settled(e)

(* As long as every edge is sampled before the next, the count is the      *)
(* movement of the wheel since count zero, whichever channel is read first *)
(* and whatever the other encoder's interrupt does meanwhile.              *)
CountExact ==
  \A e \in Enc : synced[e] /\ Settled(e) /\ ~skipped[e] /\ ~Resetting(e)
                   => count_[e] = (pos[e] - base[e]) % LongModulus

(* The low byte is exact even when interrupts fall between the bytes that  *)
(* reset() writes: what such an interrupt breaks is a multiple of a byte.  *)
LowByteExact ==
  \A e \in Enc : synced[e] /\ Settled(e) /\ ~skipped[e]
                   => count_[e] % ByteBase = (pos[e] - base[e]) % ByteBase

(* begin() after kInstancesMax encoders leaves the registered ones alone,  *)
(* and a port's callback leads to the encoder whose channels are on it.    *)
Routing ==
  \A e \in Enc : LET slot == g_callbacks[e]
                  IN slot # None => slot \in Slot /\ instances_[slot] \in {None, e}

SameHighBytes(counts) ==
  \A c, d \in counts : \A i \in 1 .. (LongBytes - 1) : Byte(c, i) = Byte(d, i)

(* What read() returns although interrupts change the count between its    *)
(* bytes (encoder.cpp:108): unless one of them carries or borrows out of   *)
(* the lowest byte, a count that the encoder had during the call.          *)
ReadWithoutCarry ==
  main.op = "read" /\ main.next = LongBytes /\ SameHighBytes(main.during)
    => main.value \in main.during

=============================================================================
