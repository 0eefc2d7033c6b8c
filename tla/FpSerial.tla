------------------------------ MODULE FpSerial ------------------------------
(***************************************************************************)
(* The serial line to the front panel (frontpanel_rs232.c).  From the panel*)
(* come answers, keys and raw infrared data, which fp_read_msg puts        *)
(* together byte by byte for fp_serial_thread.  It knows a byte by its     *)
(* value alone: data may look like the begin of a message, like a command  *)
(* or like the 16#ff of a panel that is being flashed.                     *)
(*                                                                         *)
(* One byte may get lost, as when reelfpctl, another program, reads from   *)
(* the same line.                                                          *)
(***************************************************************************)
EXTENDS Naturals, Sequences

CONSTANTS Messages,    \* what the panel may send, as sequences of bytes
          MaxMessages  \* bound on the messages of the panel

(* The panel, which is external: how many bytes its messages have.         *)
Bytes(m) == CASE m[1] = "55" -> 4
              [] m[1] # "55" /\ m[2] \in {"f1", "f2", "12"} -> 6
              [] m[1] # "55" /\ m[2] \in {"00", "f3", "0f", "11"} -> 4
              [] m[1] # "55" /\ m[2] \in {"0b", "0e"} -> 9
              [] OTHER -> 2

ASSUME SerialAssumption ==
  /\ MaxMessages \in Nat
  /\ \A m \in Messages : /\ m[1] \in {"5a", "55"}
                         /\ DOMAIN m = 1..Bytes(m)

VARIABLES line,        \* bytes on their way: of which message, and which one
          sent,        \* the messages so far
          hit,         \* history: the message that lost a byte, or 0
          state, cmd_length, buf,
          again,       \* what fp_serial_thread makes of the msg it still has
          handled      \* history: what fp_serial_thread got: numbers of
                       \* messages, 0 for one that never was sent

serialVars == <<line, sent, hit, state, cmd_length, buf, again, handled>>

(* msg has any content at first.                                           *)
SerialInit ==
  /\ line = << >> /\ sent = << >> /\ hit = 0
  /\ state = 0 /\ cmd_length = 0 /\ buf = << >> /\ handled = << >>
  /\ again \in {<< >>, <<0>>}

-----------------------------------------------------------------------------
PanelSends(m) ==
  /\ Len(sent) < MaxMessages /\ sent' = Append(sent, m)
  /\ line' = line \o [i \in 1..Bytes(m) |-> [msg |-> Len(sent'), at |-> i]]
  /\ UNCHANGED <<hit, state, cmd_length, buf, again, handled>>

Lose ==
  /\ hit = 0 /\ line # << >>
  /\ hit' = Head(line).msg /\ line' = Tail(line)
  /\ UNCHANGED <<sent, state, cmd_length, buf, again, handled>>

Content(b) == sent[b.msg][b.at]
Starts(b) == Content(b) \in {"5a", "55"}
Raw(b) == Content(b) = "55"

(* Slip: a clock is as long as a key.                                      *)
get_answer_length_short(code) ==
  CASE code \in {"f2", "f1", "12", "0b", "0e"} -> 4
    [] code \in {"00", "f3", "0f", "11"} -> 2
    [] OTHER -> 0

(* How many bytes follow a command.                                        *)
get_answer_length(code) ==
  CASE code \in {"f2", "f1", "12"} -> 4
    [] code \in {"00", "f3", "0f", "11"} -> 2
    [] code \in {"0b", "0e"} -> 7
    [] OTHER -> 0

(* The message that the bytes are, if one was sent like that.              *)
Message(bytes) ==
  LET m == bytes[1].msg IN
  IF bytes = [i \in 1..Bytes(sent[m]) |-> [msg |-> m, at |-> i]] THEN m ELSE 0

(* fp_serial_thread is given a message.  Should the next call return       *)
(* without one, all but the first byte of it is still there, and a key or  *)
(* a fan status is handled again.                                          *)
Again(bytes) ==
  CASE Content(bytes[2]) \notin {"f1", "f2", "12"} -> << >>
    [] Content(bytes[2]) \in {"f1", "f2", "12"} ->
         <<IF Raw(bytes[1]) THEN 0 ELSE Message(bytes)>>

Deliver(bytes) ==
  /\ handled' = Append(handled, Message(bytes)) /\ again' = Again(bytes)
  /\ state' = 0 /\ buf' = << >>

(* fp_read_msg takes a byte.                                               *)
WaitForStart(b) ==
  /\ state = 0 /\ UNCHANGED <<cmd_length, again>>
  /\ state' = IF Starts(b) THEN 1 ELSE 0
  /\ buf' = IF Starts(b) THEN <<b>> ELSE << >>
  /\ handled' = IF Content(b) = "ff" THEN handled \o again ELSE handled

ReadCommand(b) ==
  /\ state = 1
  /\ cmd_length' = IF Raw(buf[1]) THEN 2 ELSE get_answer_length(Content(b))
  /\ IF cmd_length' = 0 THEN Deliver(Append(buf, b))
     ELSE state' = 2 /\ buf' = Append(buf, b) /\ UNCHANGED <<again, handled>>

ReadData(b) ==
  /\ state >= 2 /\ UNCHANGED cmd_length
  /\ IF state = 1 + cmd_length THEN Deliver(Append(buf, b))
     ELSE /\ state' = state + 1 /\ buf' = Append(buf, b)
          /\ UNCHANGED <<again, handled>>

fp_read_msg ==
  /\ line # << >> /\ line' = Tail(line)
  /\ \/ WaitForStart(Head(line)) \/ ReadCommand(Head(line)) \/ ReadData(Head(line))
  /\ UNCHANGED <<sent, hit>>

FromPanel == Lose \/ fp_read_msg \/ \E m \in Messages : PanelSends(m)

SerialSpec == SerialInit /\ [][FromPanel]_serialVars

-----------------------------------------------------------------------------
(* Everything has a value of its type.                                     *)
SerialTypeOK ==
  /\ line \in Seq([msg : 1..MaxMessages, at : 1..9])
  /\ buf \in Seq([msg : 1..MaxMessages, at : 1..9])
  /\ sent \in Seq(Messages) /\ hit \in 0..MaxMessages
  /\ state \in 0..8 /\ cmd_length \in {0, 2, 4, 7}
  /\ handled \in Seq(0..MaxMessages) /\ again \in Seq(0..MaxMessages)

(* The loss meets nothing that looks like something else: no begin or 16#ff*)
(* in what follows the first byte of the message that lost one and of the  *)
(* next, and no command with an answer in the place after the command.     *)
Plain(m) == \A i \in 2..Bytes(m) : m[i] \notin {"5a", "55", "ff"}
Unanswered(m) ==
  m[1] = "5a" /\ Bytes(m) > 2 => get_answer_length(m[3]) = 0
Calm == hit # 0 => /\ Plain(sent[hit]) /\ Unanswered(sent[hit])
                   /\ hit < Len(sent) => Plain(sent[hit + 1])

Got(m) == \E i \in DOMAIN handled : handled[i] = m

(* What was sent before a lost byte is handled, in order, and nothing else.*)
(* After it the reader may be out of step for as long as the data looks    *)
(* like messages, but as soon as it has got one right it gets all that     *)
(* follow; none is handled after a later one.  A loss that is calm costs   *)
(* the message it belongs to and at most the next one, and what is handled *)
(* besides is at most one that never was sent.                             *)
LossIsContained ==
  line = << >> =>
    /\ \A m \in 1..Len(sent) :
         hit = 0 \/ m < hit \/ (Calm /\ m > hit + 1) => Got(m)
    /\ \A m \in 1..Len(sent) : \A n \in 1..m :
         hit # 0 /\ hit < n /\ Got(n) => Got(m)
    /\ \A i, j \in DOMAIN handled :
         i < j /\ 0 \notin {handled[i], handled[j]} =>
           handled[i] < handled[j] \/ (handled[i] = handled[j] /\ ~Calm)
    /\ \A i, j \in DOMAIN handled :
         Calm /\ handled[i] = 0 /\ handled[j] = 0 => hit # 0 /\ i = j
=============================================================================
