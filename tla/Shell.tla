------------------------------- MODULE Shell --------------------------------
(***************************************************************************)
(* The firmware's command shell (shell.h, shell.cpp): bytes go one by one  *)
(* into a buffer of fixed length, a carriage return ends the line, strtok  *)
(* splits it at the blanks and the first word selects a callback.          *)
(***************************************************************************)
EXTENDS Integers, Sequences, SequencesExt, FiniteSetsExt

CONSTANTS
  kCommandPromptLengthMax,   \* length of the buffer, 64
  kCommandArgMax,            \* length of argv, 16
  kCommandsMax,              \* length of the registry, 16
  Names,                     \* the names that setup() registers, in order
  Letters,                   \* bytes other than blank, CR, LF and NUL
  MaxLine                    \* bound: bytes typed before a carriage return

ASSUME ShellAssumption ==
  /\ kCommandPromptLengthMax \in Nat \ {0}
  /\ kCommandArgMax \in Nat \ {0}
  /\ kCommandsMax \in Nat
  /\ MaxLine \in Nat
  /\ Names \in Seq(Seq(Letters))
  /\ {"blank", "LF", "NUL"} \cap Letters = {}

VARIABLES
  registrations,     \* how many register_command() calls setup() has made
  commands_,         \* the registered names, commands_count_ of them
  message_buffer_,
  message_index_,
  called,            \* what the last byte made execute_callback do
  typed              \* history: what was typed since the last line ended,
                     \* without line feeds

vars == <<registrations, commands_, message_buffer_, message_index_, called, typed>>

Bytes == Letters \cup {"blank", "LF"}
Buffer == [0 .. (kCommandPromptLengthMax - 1) -> Letters \cup {"blank", "NUL"}]

NoCallback == [callback |-> <<"none">>, argv |-> <<>>]
Default == <<"default">>

-----------------------------------------------------------------------------
(* What strtok finds in a text: its maximal runs of bytes but blanks.      *)
WordStarts(text) ==
  {i \in DOMAIN text : text[i] # "blank" /\ (i = 1 \/ text[i - 1] = "blank")}

WordAt(text, start) ==
  LET blanks == {i \in start .. Len(text) : text[i] = "blank"}
  IN SubSeq(text, start, Min(blanks \cup {Len(text) + 1}) - 1)

Words(text) ==
  LET starts == SetToSortSeq(WordStarts(text), <)
  IN [k \in DOMAIN starts |-> WordAt(text, starts[k])]

FirstWords(text, n) == SubSeq(Words(text), 1, Min({n, Len(Words(text))}))

(* The C string at the start of the buffer.                                *)
Text(buffer) ==
  LET end == Min({i \in DOMAIN buffer : buffer[i] = "NUL"} \cup {kCommandPromptLengthMax})
  IN [i \in 1 .. end |-> buffer[i - 1]]

(* strtok ends each word that it returns with a NUL: at most one word per  *)
(* element of argv.                                                        *)
Split(buffer) ==
  LET text == Text(buffer)
      ends == {start + Len(WordAt(text, start)) :
                 start \in {s \in WordStarts(text) :
                              Cardinality({r \in WordStarts(text) : r < s}) < kCommandArgMax}}
  IN [i \in DOMAIN buffer |-> IF i + 1 \in ends THEN "NUL" ELSE buffer[i]]

(* The callbacks that execute_callback may call.  Without a word argv[0]   *)
(* is a null pointer: strcmp reads the processor's registers r0 and r1     *)
(* there, a text of one byte or none, and may find any one-letter command. *)
Callbacks(argv) ==
  IF argv = <<>>
  THEN {Default} \cup {name \in ToSet(commands_) : Len(name) = 1}
  ELSE {IF argv[1] \in ToSet(commands_) THEN argv[1] ELSE Default}

-----------------------------------------------------------------------------
(* The buffer is a static variable.                                        *)
Init ==
  /\ registrations = 0
  /\ commands_ = <<>>
  /\ message_buffer_ = [i \in 0 .. (kCommandPromptLengthMax - 1) |-> "NUL"]
  /\ message_index_ = 0
  /\ called = NoCallback
  /\ typed = <<>>

(* setup() registers the commands before the first process_input().        *)
SetupDone == registrations = Len(Names)

RegisterCommand ==
  /\ ~SetupDone
  /\ registrations' = registrations + 1
  /\ commands_' = IF Len(commands_) >= kCommandsMax
                  THEN commands_ ELSE Append(commands_, Names[registrations + 1])
  /\ UNCHANGED <<message_buffer_, message_index_, called, typed>>

StoreLateWrap(byte) ==
  /\ message_buffer_' = [message_buffer_ EXCEPT ![message_index_] = byte]
  /\ message_index_' = IF message_index_ + 1 > kCommandPromptLengthMax
                       THEN 0 ELSE message_index_ + 1

(* The index starts again at the end of the buffer: what was stored of the *)
(* line is forgotten.                                                      *)
Store(byte) ==
  /\ message_buffer_' = [message_buffer_ EXCEPT ![message_index_] = byte]
  /\ message_index_' = IF message_index_ + 1 >= kCommandPromptLengthMax
                       THEN 0 ELSE message_index_ + 1

(* The body of process_input's loop for a byte that ends no line.          *)
Receive(byte) ==
  /\ SetupDone
  /\ Len(typed) < MaxLine
  /\ called' = NoCallback
  /\ IF byte = "LF" THEN UNCHANGED <<message_buffer_, message_index_, typed>>
                    ELSE Store(byte) /\ typed' = Append(typed, byte)
  /\ UNCHANGED <<registrations, commands_>>

ReturnWithoutTerminator ==
  /\ SetupDone
  /\ LET argv == FirstWords(Text(message_buffer_), kCommandArgMax - 1)
     IN /\ \E callback \in Callbacks(argv) :
             called' = [callback |-> callback, argv |-> argv]
        /\ message_buffer_' = Split(message_buffer_)
  /\ message_index_' = 0
  /\ typed' = <<>>
  /\ UNCHANGED <<registrations, commands_>>

(* A carriage return: terminate, parse_message, execute_callback.          *)
ReceiveReturn ==
  /\ SetupDone
  /\ LET buffer == [message_buffer_ EXCEPT ![message_index_] = "NUL"]
         argv   == FirstWords(Text(buffer), kCommandArgMax - 1)
     IN /\ \E callback \in Callbacks(argv) :
             called' = [callback |-> callback, argv |-> argv]
        /\ message_buffer_' = Split(buffer)
  /\ message_index_' = 0
  /\ typed' = <<>>
  /\ UNCHANGED <<registrations, commands_>>

Next ==
  \/ RegisterCommand
  \/ \E byte \in Bytes : Receive(byte)
  \/ ReceiveReturn

Spec == Init /\ [][Next]_vars

-----------------------------------------------------------------------------
(* Every variable has its type: no byte is ever stored outside the buffer, *)
(* and no command outside the registry.                                    *)
TypeOK ==
  /\ registrations \in 0 .. Len(Names)
  /\ commands_ \in Seq(Seq(Letters)) /\ Len(commands_) <= kCommandsMax
  /\ message_buffer_ \in Buffer
  /\ message_index_ \in 0 .. (kCommandPromptLengthMax - 1)
  /\ typed \in Seq(Letters \cup {"blank"})

(* What is left of the typed line: each full buffer is forgotten.          *)
Line ==
  SubSeq(typed, (Len(typed) - (Len(typed) % kCommandPromptLengthMax)) + 1, Len(typed))

(* A carriage return executes what the user typed and nothing else: the    *)
(* callback gets the words of the line since the last one ended, cut to    *)
(* kCommandArgMax - 1, whatever longer lines left in the buffer before; if *)
(* there is a word, the first one selects the callback, and the default    *)
(* runs for a name that is not, or could not be, registered                *)
(* (shell.cpp:55-103).                                                     *)
ExecutesTypedLine ==
  [][called' # NoCallback =>
       /\ called'.argv = FirstWords(Line, kCommandArgMax - 1)
       /\ called'.argv # <<>> =>
            \/ \E k \in 1 .. Min({kCommandsMax, Len(Names)}) :
                 called'.argv[1] = Names[k] /\ called'.callback = Names[k]
            \/ /\ \A k \in 1 .. Min({kCommandsMax, Len(Names)}) : called'.argv[1] # Names[k]
               /\ called'.callback = Default]_vars

=============================================================================
