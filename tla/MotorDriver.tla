---------------------------- MODULE MotorDriver -----------------------------
(***************************************************************************)
(* The serial conversation between the host's MotorDriver                  *)
(* (motor_driver.cpp) and the firmware's command callbacks (app.cpp).  The *)
(* host writes a line and waits for one line, up to a timeout; nothing in  *)
(* a reply says which command it answers.  The messages are those that the *)
(* hardware interface sends, e and m; a reply line is kept as the sequence *)
(* of the numbers in it.                                                   *)
(***************************************************************************)
EXTENDS Integers, Sequences

CONSTANTS
  Counts,            \* bound: encoder counts of a wheel
  LateReplies,       \* whether an answer may come after the timeout
  MaxQueue           \* bound: commands or reply lines on their way

ASSUME DriverAssumption ==
  /\ Counts \subseteq Int /\ 0 \in Counts
  /\ LateReplies \in BOOLEAN
  /\ MaxQueue \in Nat

Side == 1 .. 2       \* left, right

VARIABLES
  is_connected,      \* serial_port_.IsOpen()
  call,              \* the message whose SendMsg waits for a line, or NoCall
  toFirmware,        \* lines that the firmware has not answered
  left,              \* the left count that the e callback has read, or {}
  toHost,            \* reply lines that the host has not read
  fragment,          \* the host has received the beginning of a lost line
  count,             \* the firmware's two encoder counts
  during             \* history: the counts of each encoder while call waits

firmware == <<toFirmware, left, count>>
driverVars == <<is_connected, call, toHost, fragment, firmware, during>>

NoCall == "none"

(* The lines the host may see: text without a number, a pair of counts,    *)
(* and what is left of a line that was cut off, alone or run together with *)
(* the next line: any numbers.                                             *)
Text == <<>>
Cut == {<<number>> : number \in Counts} \cup (Counts \X Counts)
Lines == {Text} \cup Cut

(* ReadEncoderValues: the numbers before and after the first blank.  Text  *)
(* that is no number gives zero, and without a blank both are the same.    *)
ParseSwapped(line) ==
  CASE Len(line) = 0 -> <<0, 0>>
    [] Len(line) = 1 -> <<line[1], line[1]>>
    [] OTHER         -> <<line[2], line[1]>>
ParseEncoders(line) ==
  CASE Len(line) = 0 -> <<0, 0>>
    [] Len(line) = 1 -> <<line[1], line[1]>>
    [] OTHER         -> <<line[1], line[2]>>

-----------------------------------------------------------------------------
DriverInit ==
  /\ is_connected = FALSE
  /\ call = NoCall
  /\ toFirmware = <<>> /\ toHost = <<>>
  /\ left = {} /\ fragment = FALSE
  /\ count = <<0, 0>>
  /\ during = [i \in Side |-> {}]

(* Setup() opens the port, or finds it open, and flushes the host's        *)
(* buffers; the lines that the firmware has received stay there.  When     *)
(* Open fails, the exception of the next call on the closed port leaves    *)
(* Setup().                                                                *)
Setup ==
  /\ call = NoCall
  /\ is_connected' = TRUE
  /\ \E received \in (IF left = {} THEN 0 ELSE 1) .. Len(toFirmware) :
       toFirmware' = SubSeq(toFirmware, 1, received)
  /\ toHost' = <<>> /\ fragment' = FALSE
  /\ UNCHANGED <<call, left, count, during>>

(* SendMsg writes the line ...                                             *)
SendMsg(msg) ==
  /\ is_connected
  /\ call = NoCall
  /\ Len(toFirmware) < MaxQueue
  /\ toFirmware' = Append(toFirmware, msg)
  /\ call' = msg
  /\ during' = [i \in Side |-> {count[i]}]
  /\ UNCHANGED <<is_connected, left, toHost, fragment, count>>

(* ... and ReadLine finds a line ...                                       *)
ReceiveLine(response) ==
  /\ call # NoCall
  /\ toHost # <<>>
  /\ response \in IF fragment THEN Cut ELSE {Head(toHost)}
  /\ toHost' = Tail(toHost)
  /\ fragment' = FALSE
  /\ call' = NoCall
  /\ UNCHANGED <<is_connected, firmware, during>>

TimeoutForever(response) ==
  /\ call # NoCall
  /\ toHost = <<>>
  /\ LateReplies \/ toFirmware = <<>>
  /\ response = Text
  /\ fragment' = FALSE
  /\ UNCHANGED <<is_connected, call, toHost, firmware, during>>

(* ... or throws ReadTimeout; SendMsg returns what it has read so far.     *)
Timeout(response) ==
  /\ call # NoCall
  /\ toHost = <<>>
  /\ LateReplies \/ toFirmware = <<>>
  /\ response \in IF fragment THEN Cut ELSE {Text}
  /\ fragment' = FALSE
  /\ call' = NoCall
  /\ UNCHANGED <<is_connected, toHost, firmware, during>>

Return(response) == ReceiveLine(response) \/ Timeout(response)

-----------------------------------------------------------------------------
Answer(line) ==
  /\ Len(toHost) < MaxQueue
  /\ toFirmware' = Tail(toFirmware)
  /\ toHost' = Append(toHost, line)
  /\ UNCHANGED <<is_connected, call, fragment, count, during>>

(* The e callback reads and prints one count, then the other.              *)
PrintLeft ==
  /\ toFirmware # <<>> /\ Head(toFirmware) = "e"
  /\ left = {}
  /\ left' = {count[1]}
  /\ UNCHANGED <<is_connected, call, toFirmware, toHost, fragment, count, during>>

PrintRight ==
  /\ \E number \in left : Answer(<<number, count[2]>>)
  /\ left' = {}

PrintTwoLines ==
  /\ toFirmware # <<>> /\ Head(toFirmware) = "m"
  /\ toFirmware' = Tail(toFirmware)
  /\ toHost' = toHost \o <<Text, Text>>
  /\ UNCHANGED <<is_connected, call, left, fragment, count, during>>

(* The m callback prints OK.                                               *)
PrintOk ==
  /\ toFirmware # <<>> /\ Head(toFirmware) = "m"
  /\ Answer(Text)
  /\ UNCHANGED left

Reply == PrintLeft \/ PrintRight \/ PrintOk

-----------------------------------------------------------------------------
Seen(counts) ==
  [i \in Side |-> IF call = NoCall THEN during[i] ELSE during[i] \cup {counts[i]}]

(* The firmware restarts: unread commands and the counts are lost, and so  *)
(* may be the rest of the reply that it was sending.                       *)
Restart ==
  /\ toFirmware' = <<>> /\ left' = {}
  /\ count' = <<0, 0>>
  /\ during' = Seen(count')
  /\ \/ UNCHANGED <<toHost, fragment>>
     \/ /\ toHost # <<>> \/ left # {}
        /\ toHost' = <<>>
        /\ fragment' \in {fragment, TRUE}
  /\ UNCHANGED <<is_connected, call>>

Turn(i, delta) ==
  /\ count[i] + delta \in Counts
  /\ count' = [count EXCEPT ![i] = @ + delta]
  /\ during' = Seen(count')
  /\ UNCHANGED <<is_connected, call, toFirmware, left, toHost, fragment>>

=============================================================================
