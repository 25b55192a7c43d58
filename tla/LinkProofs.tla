----------------------------- MODULE LinkProofs -----------------------------
(***************************************************************************)
(* Theorems about the serial link, for every set of counts, queue length   *)
(* and width of unsigned int, when answers come before the timeout and the *)
(* firmware restarts at will.                                              *)
(***************************************************************************)
EXTENDS DiffDriveAndino, TLAPS

(* The line that answers a call, with counts that the encoders had while   *)
(* the call was waiting.                                                   *)
IsAnswer(line) ==
  \/ call = "m" /\ line = Text
  \/ /\ call = "e"
     /\ \E a \in during[1], b \in during[2] : line = <<a, b>>

(* Where a call may be: its command waits for the firmware, its answer     *)
(* waits for the host, or a restart has swallowed one of them.             *)
Commanded ==
  /\ toFirmware = <<call>> /\ toHost = <<>> /\ ~fragment
  /\ left # {} => call = "e"
  /\ left \subseteq during[1]

Answered ==
  /\ toFirmware = <<>> /\ left = {} /\ ~fragment
  /\ \E line : toHost = <<line>> /\ IsAnswer(line)

Swallowed == toFirmware = <<>> /\ left = {} /\ toHost = <<>>

(* The conversation, and the moment of the manager's cycle that goes with  *)
(* it.                                                                     *)
CallInv ==
  /\ call = NoCall <=> turn \in {"read", "write"}
  /\ call = "e" <=> turn = "reading"
  /\ call = "m" <=> turn = "writing"
  /\ turn \in {"read", "reading", "write", "writing"}
  /\ call = NoCall => toFirmware = <<>> /\ toHost = <<>> /\ left = {} /\ ~fragment
  /\ call # NoCall => Commanded \/ Answered \/ Swallowed

(* The history: while a call waits it has seen the current counts.         *)
SeenInv ==
  /\ DOMAIN count = Side
  /\ \A i \in Side : count[i] \in Counts /\ during[i] \subseteq Counts
  /\ \A i \in Side : call # NoCall => count[i] \in during[i]

FreshInv ==
  /\ fresh => call = NoCall
  /\ PositionFresh

LinkInv == CallInv /\ SeenInv /\ FreshInv

-----------------------------------------------------------------------------
LEMMA Messages == NoCall # "e" /\ NoCall # "m"
  BY DEF NoCall

LEMMA InitLink == Init => LinkInv
  BY DriverAssumption
  DEF Init, DriverInit, LinkInv, CallInv, SeenInv, FreshInv, PositionFresh, NoCall, Side

(* Two calls are never open at once: a message is sent into an empty link. *)
LEMMA SendKeeps ==
  ASSUME LinkInv, NEW msg \in {"e", "m"}, SendMsg(msg),
         turn \in {"read", "write"}, fresh' = FALSE,
         turn' = IF msg = "e" THEN "reading" ELSE "writing"
  PROVE  LinkInv'
<1>1. call = NoCall /\ toFirmware = <<>> /\ toHost = <<>> /\ left = {} /\ ~fragment
  BY DEF LinkInv, CallInv, SendMsg
<1>2. /\ toFirmware' = <<msg>> /\ call' = msg /\ toHost' = <<>> /\ left' = {} /\ ~fragment'
      /\ during' = [i \in Side |-> {count[i]}] /\ count' = count
  BY <1>1 DEF SendMsg
<1>3. Commanded'
  BY <1>2 DEF Commanded
<1>4. CallInv'
  BY <1>2, <1>3, Messages DEF CallInv
<1>5. SeenInv'
  BY <1>2 DEF SeenInv, LinkInv
<1> QED BY <1>4, <1>5 DEF LinkInv, FreshInv, PositionFresh

(* A call that returns leaves an empty link behind, and a line that it got *)
(* was its own answer.                                                     *)
LEMMA ReturnEmpties ==
  ASSUME LinkInv, NEW response, Return(response), ~LateReplies
  PROVE  /\ call' = NoCall /\ toFirmware' = <<>> /\ toHost' = <<>>
         /\ left' = {} /\ ~fragment'
         /\ UNCHANGED <<count, during>>
         /\ toHost # <<>> => IsAnswer(response)
<1>1. call # NoCall /\ (Commanded \/ Answered \/ Swallowed)
  BY DEF Return, ReceiveLine, Timeout, LinkInv, CallInv
<1>2. CASE ReceiveLine(response)
  <2>1. Answered
    BY <1>1, <1>2 DEF ReceiveLine, Commanded, Swallowed
  <2>2. PICK line : toHost = <<line>> /\ IsAnswer(line)
    BY <2>1 DEF Answered
  <2>3. Head(toHost) = line /\ Tail(toHost) = <<>>
    BY <2>2
  <2> QED BY <1>2, <2>1, <2>2, <2>3 DEF ReceiveLine, Answered, firmware
<1>3. CASE Timeout(response)
  <2>1. toFirmware = <<>> /\ toHost = <<>>
    BY <1>3 DEF Timeout
  <2>2. left = {}
    BY <1>1, <2>1 DEF Commanded, Answered, Swallowed
  <2> QED BY <1>3, <2>1, <2>2 DEF Timeout, firmware
<1> QED BY <1>2, <1>3 DEF Return

(* The firmware reads a command and answers it.                            *)
LEMMA ReplyKeeps ==
  ASSUME LinkInv, Reply, UNCHANGED <<lifecycle, turn, wheels>>
  PROVE  LinkInv'
<1>1. Commanded /\ call # NoCall
  BY DEF Reply, PrintLeft, PrintRight, PrintOk, LinkInv, CallInv, Answered, Swallowed
<1>2. toFirmware = <<call>> /\ Head(toFirmware) = call /\ Tail(toFirmware) = <<>>
  BY <1>1 DEF Commanded
<1>3. UNCHANGED <<call, count, during, fragment, turn, fresh, pos_>>
  BY DEF Reply, PrintLeft, PrintRight, PrintOk, Answer, wheels
<1>4. SeenInv' /\ FreshInv'
  BY <1>3 DEF LinkInv, SeenInv, FreshInv, PositionFresh
<1>5. \A i \in Side : count[i] \in during[i]
  BY <1>1 DEF LinkInv, SeenInv
<1>6. Commanded' \/ Answered'
  <2>1. CASE PrintLeft
    BY <2>1, <1>1, <1>2, <1>5 DEF PrintLeft, Commanded, Side
  <2>2. CASE PrintRight
    <3>1. PICK number \in left : Answer(<<number, count[2]>>)
      BY <2>2 DEF PrintRight
    <3>2. /\ toFirmware' = <<>> /\ left' = {} /\ ~fragment'
          /\ toHost' = << <<number, count[2]>> >>
      BY <1>1, <1>2, <2>2, <3>1 DEF Answer, PrintRight, Commanded
    <3>3. call = "e" /\ number \in during[1] /\ count[2] \in during[2]
      BY <1>1, <1>5, <3>1 DEF Commanded, Side
    <3>4. IsAnswer(<<number, count[2]>>)'
      BY <1>3, <3>3 DEF IsAnswer
    <3> QED BY <1>3, <3>2, <3>4 DEF Answered
  <2>3. CASE PrintOk
    <3>1. call = "m"
      BY <1>2, <2>3 DEF PrintOk
    <3>2. /\ toFirmware' = <<>> /\ left' = {} /\ ~fragment'
          /\ toHost' = <<Text>>
      BY <1>1, <1>2, <2>3, <3>1 DEF Answer, PrintOk, Commanded
    <3>3. IsAnswer(Text)'
      BY <1>3, <3>1 DEF IsAnswer
    <3> QED BY <3>2, <3>3 DEF Answered
  <2> QED BY <2>1, <2>2, <2>3 DEF Reply
<1>7. CallInv'
  BY <1>1, <1>3, <1>6 DEF LinkInv, CallInv
<1> QED BY <1>4, <1>7 DEF LinkInv

(* The wheels turn or the firmware restarts: a waiting call sees more      *)
(* counts, and an answer stays an answer.                                  *)
LEMMA SeeingKeeps ==
  ASSUME LinkInv, DOMAIN count' = Side, \A i \in Side : count'[i] \in Counts,
         during' = Seen(count'), call' = call
  PROVE  /\ SeenInv'
         /\ \A line : IsAnswer(line) => IsAnswer(line)'
         /\ call = NoCall => during'[1] = during[1] /\ during'[2] = during[2]
         /\ during[1] \subseteq during'[1]
<1>1. \A i \in Side : during'[i] = IF call = NoCall THEN during[i]
                                  ELSE during[i] \cup {count'[i]}
  BY DEF Seen
<1>2. 1 \in Side /\ 2 \in Side
  BY DEF Side
<1>3. SeenInv'
  BY <1>1 DEF LinkInv, SeenInv
<1>4. during[1] \subseteq during'[1] /\ during[2] \subseteq during'[2]
  BY <1>1, <1>2
<1>5. \A line : IsAnswer(line) => IsAnswer(line)'
  BY <1>4 DEF IsAnswer
<1> QED BY <1>1, <1>2, <1>3, <1>4, <1>5

LEMMA FreshKeeps ==
  ASSUME LinkInv, DOMAIN count' = Side, \A i \in Side : count'[i] \in Counts,
         during' = Seen(count'), UNCHANGED <<call, pos_, fresh>>
  PROVE  FreshInv'
<1>1. call = NoCall => \A i \in Side : during'[i] = during[i]
  BY SeeingKeeps DEF Side
<1> QED BY <1>1 DEF LinkInv, FreshInv, PositionFresh

LEMMA TurnKeeps ==
  ASSUME LinkInv, NEW i \in Side, NEW delta \in {-1, 1}, Turn(i, delta),
         UNCHANGED <<lifecycle, turn, wheels>>
  PROVE  LinkInv'
<1>0. \A j \in Side : count'[j] \in Counts
  BY DEF Turn, LinkInv, SeenInv
<1>1. /\ DOMAIN count' = Side /\ during' = Seen(count')
      /\ UNCHANGED <<call, toFirmware, left, toHost, fragment, turn, pos_, fresh>>
  BY DEF Turn, LinkInv, SeenInv, wheels
<1>2. /\ SeenInv' /\ FreshInv'
      /\ \A line : IsAnswer(line) => IsAnswer(line)'
      /\ during[1] \subseteq during'[1]
  BY <1>0, <1>1, SeeingKeeps, FreshKeeps
<1>3. /\ Commanded => Commanded'
      /\ Answered => Answered'
      /\ Swallowed => Swallowed'
  BY <1>1, <1>2 DEF Commanded, Answered, Swallowed
<1>4. CallInv'
  BY <1>1, <1>3 DEF LinkInv, CallInv
<1> QED BY <1>2, <1>4 DEF LinkInv

LEMMA RestartKeeps ==
  ASSUME LinkInv, Restart, UNCHANGED <<lifecycle, turn, wheels>>
  PROVE  LinkInv'
<1>0. DOMAIN count' = Side /\ \A i \in Side : count'[i] \in Counts
  <2>1. count' = <<0, 0>>
    BY DEF Restart
  <2> QED BY <2>1, DriverAssumption DEF Side
<1>1. /\ during' = Seen(count')
      /\ UNCHANGED <<call, turn, pos_, fresh>>
      /\ toFirmware' = <<>> /\ left' = {}
      /\ \/ UNCHANGED <<toHost, fragment>>
         \/ (toHost # <<>> \/ left # {}) /\ toHost' = <<>>
  BY DEF Restart, wheels
<1>2. /\ SeenInv' /\ FreshInv'
      /\ \A line : IsAnswer(line) => IsAnswer(line)'
  BY <1>0, <1>1, SeeingKeeps, FreshKeeps
<1>3. /\ Commanded => Swallowed'
      /\ Answered => Answered' \/ Swallowed'
      /\ Swallowed => Swallowed'
  BY <1>1, <1>2 DEF Commanded, Answered, Swallowed
<1>4. CallInv'
  BY <1>1, <1>3 DEF LinkInv, CallInv
<1> QED BY <1>2, <1>4 DEF LinkInv

(* read() takes the positions from its own answer.                         *)
LEMMA EndReadKeeps ==
  ASSUME LinkInv, EndRead, ~LateReplies
  PROVE  LinkInv'
<1>1. PICK response \in Lines :
        /\ Return(response)
        /\ enc_' = [i \in Side |-> ParseEncoders(response)[i] % UnsignedModulus]
  BY DEF EndRead
<1>2. /\ call' = NoCall /\ toFirmware' = <<>> /\ toHost' = <<>>
      /\ left' = {} /\ ~fragment'
      /\ UNCHANGED <<count, during>>
      /\ toHost # <<>> => IsAnswer(response)
  BY <1>1, ReturnEmpties
<1>3. /\ turn = "reading" /\ turn' = "write" /\ fresh' = (toHost # <<>>)
      /\ \A i \in Side : pos_'[i] = ParseEncoders(response)[i] % UnsignedModulus
  BY <1>1 DEF EndRead, Angle
<1>4. CallInv' /\ SeenInv'
  BY <1>2, <1>3, Messages DEF LinkInv, CallInv, SeenInv
<1>5. PositionFresh'
  <2> SUFFICES ASSUME toHost # <<>>, NEW i \in Side, \A c \in during[i] : c >= 0
               PROVE  pos_'[i] \in during[i]
    BY <1>2, <1>3 DEF PositionFresh
  <2>1. call = "e"
    BY <1>3 DEF LinkInv, CallInv
  <2>2. PICK a \in during[1], b \in during[2] : response = <<a, b>>
    BY <1>2, <2>1 DEF IsAnswer
  <2>3. PICK c \in during[i] : ParseEncoders(response)[i] = c
    BY <2>2 DEF ParseEncoders, Side
  <2>4. c \in Int /\ 0 <= c /\ c < UnsignedModulus /\ UnsignedModulus \in Nat
    BY DriverAssumption, UnsignedAssumption DEF LinkInv, SeenInv
  <2>5. c % UnsignedModulus = c
    BY <2>4
  <2> QED BY <1>3, <2>3, <2>5
<1> QED BY <1>2, <1>4, <1>5 DEF LinkInv, FreshInv

-----------------------------------------------------------------------------
LEMMA NextLink == ASSUME ~LateReplies PROVE LinkInv /\ [Next]_vars => LinkInv'
<1> SUFFICES ASSUME LinkInv, [Next]_vars PROVE LinkInv'
  OBVIOUS
<1>1. CASE OnConfigure
  <2>1. call = NoCall /\ toFirmware = <<>> /\ left = {}
    BY <1>1 DEF OnConfigure, Setup, LinkInv, CallInv
  <2>2. toFirmware' = <<>>
    BY <1>1, <2>1 DEF OnConfigure, Setup
  <2>3. /\ toHost' = <<>> /\ ~fragment'
        /\ UNCHANGED <<call, left, count, during, turn, pos_, fresh>>
    BY <1>1 DEF OnConfigure, Setup, wheels
  <2> QED BY <2>1, <2>2, <2>3 DEF LinkInv, CallInv, SeenInv, FreshInv, PositionFresh
<1>2. CASE OnCleanup \/ OnActivate \/ OnDeactivate \/ UNCHANGED vars
  <2>1. UNCHANGED <<driverVars, turn, wheels>>
    BY <1>2 DEF OnCleanup, OnActivate, OnDeactivate, vars
  <2> QED BY <2>1 DEF LinkInv, CallInv, SeenInv, FreshInv, PositionFresh, Commanded,
                      Answered, Swallowed, IsAnswer, driverVars, firmware, wheels
<1>3. CASE StartRead
  BY <1>3, SendKeeps DEF StartRead
<1>4. CASE StartWrite
  BY <1>4, SendKeeps DEF StartWrite
<1>5. CASE SkipWrite
  <2>1. call = NoCall /\ UNCHANGED <<driverVars, wheels>> /\ turn' = "read"
    BY <1>5 DEF SkipWrite, LinkInv, CallInv
  <2> QED BY <2>1, Messages DEF LinkInv, CallInv, SeenInv, FreshInv, PositionFresh,
                                driverVars, firmware, wheels
<1>6. CASE EndRead
  BY <1>6, EndReadKeeps
<1>7. CASE EndWrite
  <2>1. PICK response \in Lines : Return(response)
    BY <1>7 DEF EndWrite
  <2>2. /\ call' = NoCall /\ toFirmware' = <<>> /\ toHost' = <<>>
        /\ left' = {} /\ ~fragment'
        /\ UNCHANGED <<count, during>>
    BY <2>1, ReturnEmpties
  <2>3. turn = "writing" /\ turn' = "read" /\ UNCHANGED <<pos_, fresh>>
    BY <1>7 DEF EndWrite, wheels
  <2> QED BY <2>2, <2>3, Messages DEF LinkInv, CallInv, SeenInv, FreshInv, PositionFresh
<1>8. CASE Firmware
  BY <1>8, ReplyKeeps, RestartKeeps, TurnKeeps DEF Firmware
<1> QED BY <1>1, <1>2, <1>3, <1>4, <1>5, <1>6, <1>7, <1>8 DEF Next, Host

LEMMA LinkHeld == ASSUME ~LateReplies PROVE Spec => []LinkInv
  BY InitLink, NextLink, PTL DEF Spec

(* When answers come before the timeout, host and firmware stay in step:   *)
(* between two calls nothing is on its way, in spite of restarts at any    *)
(* moment (motor_driver.cpp:85-105).                                       *)
THEOREM LinkInStep == ASSUME ~LateReplies PROVE Spec => []InStep
<1>1. LinkInv => InStep
  BY DEF LinkInv, CallInv, InStep
<1> QED BY <1>1, LinkHeld, PTL

(* And a read() that gets its line while the counts are not negative never *)
(* reports a count from before it was called, one of the other wheel or    *)
(* the remains of a cut reply (diffdrive_andino.cpp:148-158).              *)
THEOREM PositionsFresh == ASSUME ~LateReplies PROVE Spec => []PositionFresh
<1>1. LinkInv => PositionFresh
  BY DEF LinkInv, FreshInv
<1> QED BY <1>1, LinkHeld, PTL

=============================================================================
