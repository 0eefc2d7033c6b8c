--------------------------- MODULE RbKeys_proofs ----------------------------
(***************************************************************************)
(* The way of a key, for every set of keys and every number of presses,    *)
(* packets and queue entries: one panel makes at most one press event of a *)
(* press, and what is repeated is the key that was pressed last.           *)
(***************************************************************************)
EXTENDS RbKeys, TLAPS

AllKeys == Remote \cup Buttons \cup {NoKey}
Cmds == [key : AllKeys, press : 0..MaxPresses, repeat : BOOLEAN,
         from : Origins \cup {""}, odd : BOOLEAN]
KeyDecoder == [state : {"idle", "wait", "release"}, long : BOOLEAN,
            reel : {"no", "fresh", "old"}, cmd : Cmds]
Sender == [count : 0..(FakeRepeats + 1), source : {"serial", "usb", ""},
           window : BOOLEAN, gap : BOOLEAN, cmd : Cmds]

-----------------------------------------------------------------------------
(* Types.                                                                  *)

(* The types with the sets named.                                          *)
KeysTyped ==
  /\ held \in [key : AllKeys, press : 0..MaxPresses, n : 0..MaxSignals]
  /\ air \in [Panels -> Cmds] /\ dec \in [Panels -> KeyDecoder]
  /\ queue \in Seq(Cmds) /\ Len(queue) < QUEUELEN
  /\ snd \in Sender
  /\ pressed \in [Origins -> AllKeys] /\ repeated \in [Origins -> AllKeys]
  /\ missed \in [Origins -> BOOLEAN]
  /\ crossed \subseteq 0..MaxPresses /\ faded \in BOOLEAN
  /\ events \in [Presses -> Nat] /\ external \in 0..MaxExternal

LEMMA TypesNamed == KeysTypeOK <=> KeysTyped
BY DEF KeysTypeOK, KeysTyped, AllKeys, Cmds, KeyDecoder, Sender

(* No command is a command, with no press and no origin.                   *)
LEMMA NothingType == Nothing \in Cmds /\ Nothing.press = 0 /\ Nothing.from = ""
BY KeysAssumption DEF Nothing, Cmds, AllKeys

(* A command of the remote control or of a button.                         *)
LEMMA CmdType ==
  ASSUME NEW k \in AllKeys, NEW n \in 0..MaxPresses, NEW r \in BOOLEAN,
         NEW p \in Panels
  PROVE  [key |-> k, press |-> n, repeat |-> r, from |-> p, odd |-> FALSE] \in Cmds
<1>1. p \in Origins \cup {""}
  BY DEF Origins
<1> QED BY <1>1 DEF Cmds

(* What put_code does to the queue, whatever the command.                  *)
LEMMA PutType ==
  ASSUME KeysTyped, NEW c \in Cmds, put_code(c)
  PROVE  /\ queue' \in Seq(Cmds) /\ Len(queue') < QUEUELEN
         /\ missed' \in [Origins -> BOOLEAN]
<1>1. queue \in Seq(Cmds) /\ Len(queue) < QUEUELEN /\ QUEUELEN \in Nat /\ QUEUELEN > 1
  BY KeysAssumption DEF KeysTyped
<1>2. CASE Laps
  BY <1>1, <1>2 DEF put_code
<1>3. CASE ~Laps
  BY <1>1, <1>3 DEF put_code, Laps
<1>4. missed' \in [Origins -> BOOLEAN]
  BY DEF KeysTyped, put_code, Laps
<1> QED BY <1>2, <1>3, <1>4

LEMMA KeysTypeInit == KeysInit => KeysTyped
<1> SUFFICES ASSUME KeysInit PROVE KeysTyped
  OBVIOUS
<1>1. /\ 0 \in 0..MaxPresses /\ 0 \in 0..MaxSignals /\ 0 \in 0..MaxExternal
      /\ 0 \in 0..(FakeRepeats + 1) /\ QUEUELEN > 0 /\ NoKey \in AllKeys
  BY KeysAssumption DEF AllKeys
<1>2. queue \in Seq(Cmds) /\ Len(queue) < QUEUELEN
  <2>1. queue = << >>
    BY DEF KeysInit
  <2> QED BY <1>1, <2>1
<1>3. dec \in [Panels -> KeyDecoder]
  BY NothingType DEF KeysInit, KeyDecoder
<1>4. snd \in Sender
  BY <1>1, NothingType DEF KeysInit, Sender
<1>5. air \in [Panels -> Cmds]
  BY NothingType DEF KeysInit
<1>6. held \in [key : AllKeys, press : 0..MaxPresses, n : 0..MaxSignals]
  BY <1>1 DEF KeysInit
<1>7. /\ pressed \in [Origins -> AllKeys] /\ repeated \in [Origins -> AllKeys]
      /\ missed \in [Origins -> BOOLEAN] /\ events \in [Presses -> Nat]
  BY <1>1 DEF KeysInit
<1> QED BY <1>1, <1>2, <1>3, <1>4, <1>5, <1>6, <1>7 DEF KeysTyped, KeysInit

(* The user, the network and the clock.                                    *)
LEMMA OutsideTypes ==
  ASSUME KeysTyped, User \/ KeyClock
  PROVE  KeysTyped'
<1> USE DEF KeysTyped, outVars, keyHistory
<1>1. ASSUME NEW k \in Remote \cup Buttons, Press(k) PROVE KeysTyped'
  BY <1>1, KeysAssumption DEF Press, AllKeys
<1>2. CASE Signal
  <2>1. PICK S \in SUBSET Panels :
          air' = [p \in Panels |->
                    IF p \in S THEN [key |-> held.key, press |-> held.press,
                                     repeat |-> held.n > 0, from |-> p, odd |-> FALSE]
                    ELSE Nothing]
    BY <1>2 DEF Signal
  <2>0. /\ held.key \in AllKeys /\ held.press \in 0..MaxPresses
        /\ held.n \in Nat /\ held.n < MaxSignals
    BY <1>2, KeysAssumption DEF Signal
  <2>2. air' \in [Panels -> Cmds]
    <3>1. ASSUME NEW p \in Panels
          PROVE  [key |-> held.key, press |-> held.press, repeat |-> held.n > 0,
                  from |-> p, odd |-> FALSE] \in Cmds
      <4>1. (held.n > 0) \in BOOLEAN
        BY <2>0
      <4> QED BY <2>0, <4>1, CmdType
    <3> QED BY <2>1, <3>1, NothingType
  <2>3. held' \in [key : AllKeys, press : 0..MaxPresses, n : 0..MaxSignals]
    <3>1. held' = [held EXCEPT !.n = @ + 1] /\ held.n + 1 \in 0..MaxSignals
      BY <1>2, <2>0, KeysAssumption DEF Signal
    <3> QED BY <2>0, <3>1
  <2> QED BY <1>2, <2>2, <2>3 DEF Signal
<1>3. CASE ReleaseKey
  BY <1>3 DEF ReleaseKey, AllKeys
<1>4. ASSUME NEW k \in Remote, ExternalKey(k) PROVE KeysTyped'
  <2>1. [Nothing EXCEPT !.key = k, !.from = "udp"] \in Cmds
    BY NothingType DEF Cmds, AllKeys, Origins
  <2>2. /\ queue' \in Seq(Cmds) /\ Len(queue') < QUEUELEN
        /\ missed' \in [Origins -> BOOLEAN]
    BY <1>4, <2>1, PutType DEF ExternalKey
  <2>3. external' \in 0..MaxExternal
    BY <1>4, KeysAssumption DEF KeysTyped, ExternalKey
  <2> QED BY <1>4, <2>2, <2>3 DEF KeysTyped, ExternalKey
<1>5. ASSUME NEW p \in Panels, Tick(p) PROVE KeysTyped'
  <2>1. dec' \in [Panels -> KeyDecoder]
    <3>1. dec[p] \in KeyDecoder
      OBVIOUS
    <3>2. CASE dec' = [dec EXCEPT ![p].reel = "old"]
      BY <3>1, <3>2 DEF KeyDecoder
    <3>3. CASE dec' = [dec EXCEPT ![p].long = TRUE]
      BY <3>1, <3>3 DEF KeyDecoder
    <3> QED BY <1>5, <3>2, <3>3 DEF Tick
  <2> QED BY <1>5, <2>1 DEF Tick
<1>6. CASE WindowOver
  BY <1>6 DEF WindowOver, Sender
<1>7. CASE Pause
  BY <1>7 DEF Pause, Sender
<1> QED BY <1>1, <1>2, <1>3, <1>4, <1>5, <1>6, <1>7 DEF User, KeyClock

(* The threads of the panels.                                              *)
LEMMA PanelTypes ==
  ASSUME KeysTyped, NEW p \in Panels, PanelThread(p)
  PROVE  KeysTyped'
<1> USE DEF outVars, keyHistory
<1>0. air[p] \in Cmds /\ dec[p] \in KeyDecoder /\ dec[p].cmd \in Cmds
  BY DEF KeysTyped, KeyDecoder
<1>1. CASE HandlePacket(p)
  <2> DEFINE c == air[p]
             d == handle_ir_key(p, c)
  <2>1. d \in KeyDecoder
    BY <1>0 DEF handle_ir_key, KeyDecoder
  <2>2. air' \in [Panels -> Cmds]
    BY <1>1, NothingType DEF KeysTyped, HandlePacket
  <2>3. crossed' \subseteq 0..MaxPresses
    BY <1>0, <1>1 DEF KeysTyped, HandlePacket, Cmds
  <2>4. ASSUME NEW e \in KeyDecoder, Knows(p, e, c) PROVE dec' \in [Panels -> KeyDecoder]
    BY <1>0, <2>4 DEF KeysTyped, Knows, KeyDecoder
  <2>5. /\ queue' \in Seq(Cmds) /\ Len(queue') < QUEUELEN
        /\ missed' \in [Origins -> BOOLEAN]
        /\ dec' \in [Panels -> KeyDecoder]
    <3>1. [c EXCEPT !.repeat = Repeats(d, c)] \in Cmds /\ [c EXCEPT !.repeat = FALSE] \in Cmds
          /\ [c EXCEPT !.odd = c.repeat] \in Cmds
      BY <1>0 DEF Cmds, Repeats
    <3>2. /\ [d EXCEPT !.state = "wait"] \in KeyDecoder
          /\ [d EXCEPT !.state = "release", !.long = FALSE] \in KeyDecoder
          /\ [d EXCEPT !.state = "idle", !.long = FALSE] \in KeyDecoder
      BY <2>1 DEF KeyDecoder
    <3> HIDE DEF c, d
    <3>3. HandleIdle(p, d, c) \/ HandleWait(p, d, c) \/ HandleChange(p, d, c)
          \/ HandleRelease(p, d, c)
      BY <1>1 DEF HandlePacket, c, d
    <3>4. CASE HandleIdle(p, d, c)
      BY <2>1, <2>4, <3>1, <3>2, <3>4, PutType DEF KeysTyped, HandleIdle
    <3>5. CASE HandleWait(p, d, c)
      BY <2>1, <2>4, <3>1, <3>2, <3>5, PutType DEF KeysTyped, HandleWait
    <3>6. CASE HandleChange(p, d, c)
      BY <2>1, <2>4, <3>1, <3>2, <3>6, PutType DEF KeysTyped, HandleChange
    <3>7. CASE HandleRelease(p, d, c)
      BY <2>1, <2>4, <3>7 DEF KeysTyped, HandleRelease
    <3> QED BY <3>3, <3>4, <3>5, <3>6, <3>7
  <2> QED BY <1>1, <2>2, <2>3, <2>5 DEF KeysTyped, HandlePacket
<1>2. CASE Silence(p)
  <2>1. dec' \in [Panels -> KeyDecoder]
    BY <1>0, <1>2 DEF KeysTyped, Silence, KeyDecoder
  <2>2. /\ queue' \in Seq(Cmds) /\ Len(queue') < QUEUELEN
        /\ missed' \in [Origins -> BOOLEAN]
    BY <1>0, <1>2, PutType DEF KeysTyped, Silence
  <2>3. faded' \in BOOLEAN
    BY <1>2 DEF KeysTyped, Silence
  <2> QED BY <1>2, <2>1, <2>2, <2>3 DEF KeysTyped, Silence
<1> QED BY <1>1, <1>2 DEF PanelThread

(* What an event changes.                                                  *)
LEMMA EventTypes ==
  ASSUME KeysTyped, NEW c \in Cmds, NEW n, sendInputEvent(c, n)
  PROVE  /\ pressed' \in [Origins -> AllKeys] /\ repeated' \in [Origins -> AllKeys]
         /\ events' \in [Presses -> Nat]
<1>1. Value(c, n) \in {"press", "repeat", "none"}
  BY DEF Value
<1>2. c.key \in AllKeys /\ NoKey \in AllKeys
  BY DEF Cmds, AllKeys
<1>3. CASE Value(c, n) = "press"
  <2>1. /\ pressed' = [pressed EXCEPT ![c.from] = c.key]
        /\ repeated' = [repeated EXCEPT ![c.from] = NoKey]
        /\ events' = [m \in Presses |-> events[m] + IF m = c.press THEN 1 ELSE 0]
    BY <1>3 DEF sendInputEvent
  <2>2. events' \in [Presses -> Nat]
    BY <2>1 DEF KeysTyped
  <2> QED BY <1>2, <2>1, <2>2 DEF KeysTyped
<1>4. CASE Value(c, n) = "repeat"
  BY <1>2, <1>4 DEF KeysTyped, sendInputEvent
<1>5. CASE Value(c, n) = "none"
  BY <1>5 DEF KeysTyped, sendInputEvent
<1> QED BY <1>1, <1>3, <1>4, <1>5

(* The thread that sends keys.                                             *)
LEMMA SenderTypes ==
  ASSUME KeysTyped, TakeCode \/ FakeRepeat
  PROVE  KeysTyped'
<1> USE DEF keyHistory
<1>0. /\ \A i \in 0..(FakeRepeats + 1) : Counted(i) \in 0..(FakeRepeats + 1)
      /\ snd \in Sender /\ snd.count \in 0..(FakeRepeats + 1) /\ snd.cmd \in Cmds
  <2>1. ASSUME NEW i \in 0..(FakeRepeats + 1) PROVE Counted(i) \in 0..(FakeRepeats + 1)
    BY KeysAssumption DEF Counted
  <2> QED BY <2>1 DEF KeysTyped, Sender
<1>1. CASE TakeCode
  <2> DEFINE c == Head(queue)
  <2>1. c \in Cmds /\ queue' \in Seq(Cmds) /\ Len(queue') < QUEUELEN
    BY <1>1, KeysAssumption DEF KeysTyped, TakeCode
  <2>2. Count(c) \in 0..(FakeRepeats + 1)
    BY <1>0, KeysAssumption DEF Count
  <2>3. Source(c.from) \in {"serial", "usb", ""}
    BY <2>1, KeysAssumption DEF Source, Cmds, Origins
  <2>4. missed' \in [Origins -> BOOLEAN]
    BY <1>1 DEF KeysTyped, TakeCode
  <2>5. snd' \in Sender
    <3>1. CASE Ignore(c)
      BY <1>0, <1>1, <3>1 DEF TakeCode
    <3>2. CASE ~Ignore(c)
      <4>1. snd' = [count |-> Counted(Count(c)), cmd |-> c, window |-> TRUE,
                    source |-> Source(c.from), gap |-> FALSE]
        BY <1>1, <3>2 DEF TakeCode
      <4>2. Counted(Count(c)) \in 0..(FakeRepeats + 1)
        BY <1>0, <2>2
      <4> HIDE DEF c
      <4> QED BY <4>1, <4>2, <2>1, <2>3 DEF Sender
    <3> QED BY <3>1, <3>2
  <2>6. /\ pressed' \in [Origins -> AllKeys] /\ repeated' \in [Origins -> AllKeys]
        /\ events' \in [Presses -> Nat]
    BY <1>1, <2>1, EventTypes DEF KeysTyped, TakeCode
  <2> QED BY <1>1, <2>1, <2>4, <2>5, <2>6 DEF KeysTyped, TakeCode
<1>2. CASE FakeRepeat
  <2>1. snd' \in Sender
    BY <1>0, <1>2 DEF FakeRepeat, Sender
  <2>2. /\ pressed' \in [Origins -> AllKeys] /\ repeated' \in [Origins -> AllKeys]
        /\ events' \in [Presses -> Nat]
    BY <1>0, <1>2, EventTypes DEF FakeRepeat
  <2> QED BY <1>2, <2>1, <2>2 DEF KeysTyped, FakeRepeat
<1> QED BY <1>1, <1>2

(* Every variable keeps its type.                                          *)
LEMMA KeysTypeKept ==
  ASSUME KeysTyped, [KeysNext]_keyVars
  PROVE  KeysTyped'
<1>1. CASE UNCHANGED keyVars
  BY <1>1 DEF KeysTyped, keyVars, outVars, keyHistory
<1> QED BY <1>1, OutsideTypes, PanelTypes, SenderTypes DEF KeysNext, KeyThreads

(* Every variable always has a value of its type.                          *)
THEOREM KeysTypeCorrect == KeysSpec => []KeysTypeOK
<1>1. KeysTyped /\ [KeysNext]_keyVars => KeysTyped'
  BY KeysTypeKept
<1> QED BY <1>1, KeysTypeInit, TypesNamed, PTL DEF KeysSpec

-----------------------------------------------------------------------------
(* Where the commands come from, and what the threads remember of them.    *)

(* What is on its way is a key, from where it was sent.                    *)
Sendable(c) == c.key \in Remote \cup Buttons /\ c.from \in Origins

OnTheWay ==
  /\ \A i \in 1..Len(queue) : Sendable(queue[i])
  /\ \A p \in Panels : air[p] # Nothing =>
       /\ air[p].key \in Remote \cup Buttons
       /\ air[p].from = p /\ ~air[p].odd

(* Only a key that can be shifted is waited for, and a count is at least 1 *)
(* once a command has been taken.                                          *)
Waiting ==
  /\ \A p \in Panels : dec[p].state # "idle" =>
       /\ dec[p].cmd.key \in Shifted
       /\ dec[p].cmd.from = p /\ ~dec[p].cmd.odd
  /\ ~snd.gap => snd.count > 0
  /\ snd.count > 0 => Sendable(snd.cmd)


(* What put_code leaves: nothing, and everybody has missed something, or   *)
(* one command more.                                                       *)
LEMMA PutCases ==
  ASSUME KeysTyped, NEW c \in Cmds, put_code(c)
  PROVE  \/ queue' = << >> /\ Len(queue') = 0 /\ \A o \in Origins : missed'[o]
         \/ /\ Len(queue') = Len(queue) + 1 /\ Len(queue) \in Nat
            /\ queue'[Len(queue) + 1] = c
            /\ \A i \in 1..Len(queue) : queue'[i] = queue[i]
            /\ missed' = missed
<1>1. queue \in Seq(Cmds) /\ missed \in [Origins -> BOOLEAN]
  BY DEF KeysTyped
<1>2. CASE Laps
  BY <1>1, <1>2 DEF put_code
<1>3. CASE ~Laps
  <2>1. queue' = Append(queue, c) /\ missed' = [o \in Origins |-> missed[o] \/ FALSE]
    BY <1>3 DEF put_code
  <2>2. missed' = missed
    BY <1>1, <2>1
  <2> QED BY <1>1, <2>1, <2>2
<1> QED BY <1>2, <1>3

(* What the sender leaves of the queue.                                    *)
LEMMA TakeCases ==
  ASSUME KeysTyped, queue # << >>
  PROVE  /\ Len(queue) \in Nat \ {0} /\ Head(queue) = queue[1] /\ queue[1] \in Cmds
         /\ Len(Tail(queue)) = Len(queue) - 1
         /\ \A i \in 1..(Len(queue) - 1) : Tail(queue)[i] = queue[i + 1]
<1>1. queue \in Seq(Cmds)
  BY DEF KeysTyped
<1> QED BY <1>1

(* The same command, but for its flags.                                    *)
Like(e, c) == e.key = c.key /\ e.press = c.press /\ e.from = c.from

(* A packet, as far as the queue and the state of the panel go.            *)
LEMMA PacketCases ==
  ASSUME KeysTyped, OnTheWay, NEW p \in Panels, HandlePacket(p)
  PROVE  /\ air[p] \in Cmds /\ air[p] # Nothing /\ dec'[p].cmd = air[p]
         /\ air' = [air EXCEPT ![p] = Nothing]
         /\ \A q \in Panels \ {p} : dec'[q] = dec[q]
         /\ crossed \subseteq crossed'
         /\ \/ /\ dec[p].state = "idle" /\ air[p].key \notin Shifted
               /\ dec'[p].state = "idle"
               /\ \E e \in Cmds :
                    /\ put_code(e) /\ Like(e, air[p]) /\ e.odd = air[p].odd
                    /\ e.repeat <=> air[p].repeat /\ air[p].key = dec[p].cmd.key
            \/ /\ dec[p].state = "idle" /\ air[p].key \in Shifted
               /\ dec'[p].state = "wait" /\ UNCHANGED <<queue, missed>>
            \/ /\ dec[p].state = "wait" /\ air[p].key = dec[p].cmd.key
               /\ dec'[p].state = "release"
               /\ \E e \in Cmds : put_code(e) /\ Like(e, air[p]) /\ ~e.repeat
            \/ /\ dec[p].state \in {"wait", "release"} /\ air[p].key = dec[p].cmd.key
               /\ dec'[p].state = dec[p].state /\ UNCHANGED <<queue, missed>>
            \/ /\ dec[p].state \in {"wait", "release"} /\ air[p].key # dec[p].cmd.key
               /\ air[p].key \in Shifted => air[p].press \in crossed'
               /\ dec'[p].state = "idle"
               /\ \E e \in Cmds : /\ put_code(e) /\ Like(e, air[p])
                                  /\ e.repeat = air[p].repeat /\ e.odd = e.repeat
<1> DEFINE c == air[p]
           d == handle_ir_key(p, c)
<1>1. c \in Cmds /\ dec[p] \in KeyDecoder /\ dec \in [Panels -> KeyDecoder] /\ c # Nothing
  BY DEF KeysTyped, HandlePacket
<1>2. d \in KeyDecoder /\ d.state = dec[p].state /\ d.cmd = dec[p].cmd
  BY <1>1 DEF handle_ir_key, KeyDecoder
<1>3. /\ c.key \in Remote \cup Buttons
      /\ find_key(c.key).shift <=> c.key \in Shifted
  BY <1>1, KeysAssumption DEF OnTheWay, find_key, ir_kbdx, kb_kbdx
<1>4. ASSUME NEW e \in KeyDecoder, Knows(p, e, c)
      PROVE  /\ dec'[p].cmd = c /\ dec'[p].state = e.state
             /\ \A q \in Panels \ {p} : dec'[q] = dec[q]
  BY <1>1, <1>4 DEF Knows, KeyDecoder
<1>5. /\ air' = [air EXCEPT ![p] = Nothing]
      /\ crossed' = crossed \cup {n \in {c.press} : Changes(d, c) /\ find_key(c.key).shift}
  BY DEF HandlePacket
<1>6. /\ [d EXCEPT !.state = "wait"] \in KeyDecoder
      /\ [d EXCEPT !.state = "release", !.long = FALSE] \in KeyDecoder
      /\ [d EXCEPT !.state = "idle", !.long = FALSE] \in KeyDecoder
      /\ [d EXCEPT !.state = "wait"].state = "wait"
      /\ [d EXCEPT !.state = "release", !.long = FALSE].state = "release"
      /\ [d EXCEPT !.state = "idle", !.long = FALSE].state = "idle"
  BY <1>2 DEF KeyDecoder
<1>7. HandleIdle(p, d, c) \/ HandleWait(p, d, c) \/ HandleChange(p, d, c)
      \/ HandleRelease(p, d, c)
  BY DEF HandlePacket
<1> HIDE DEF c, d
<1>8. CASE HandleIdle(p, d, c)
  <2>1. CASE c.key \in Shifted
    <3>1. Knows(p, [d EXCEPT !.state = "wait"], c) /\ UNCHANGED <<queue, missed>>
      BY <1>3, <1>8, <2>1 DEF HandleIdle
    <3>2. dec[p].state = "idle"
      BY <1>2, <1>8 DEF HandleIdle
    <3>3. dec'[p].cmd = c /\ dec'[p].state = "wait" /\ \A q \in Panels \ {p} : dec'[q] = dec[q]
      BY <1>4, <1>6, <3>1
    <3> QED BY <1>1, <1>5, <2>1, <3>1, <3>2, <3>3 DEF c
  <2>2. CASE c.key \notin Shifted
    <3> DEFINE e == [c EXCEPT !.repeat = Repeats(d, c)]
    <3>1. Knows(p, d, c) /\ put_code(e) /\ dec[p].state = "idle"
      BY <1>2, <1>3, <1>8, <2>2 DEF HandleIdle
    <3>2. /\ e \in Cmds /\ Like(e, c) /\ e.odd = c.odd
          /\ e.repeat <=> c.repeat /\ c.key = dec[p].cmd.key
      BY <1>1, <1>2 DEF Cmds, Like, Repeats
    <3>3. dec'[p].cmd = c /\ dec'[p].state = "idle" /\ \A q \in Panels \ {p} : dec'[q] = dec[q]
      BY <1>2, <1>4, <3>1
    <3> HIDE DEF e
    <3> QED BY <1>1, <1>5, <2>2, <3>1, <3>2, <3>3 DEF c
  <2> QED BY <2>1, <2>2
<1>9. CASE HandleWait(p, d, c)
  <2>1. dec[p].state = "wait" /\ c.key = dec[p].cmd.key
    BY <1>2, <1>9 DEF HandleWait
  <2>2. CASE d.long /\ find_key(c.key).second
    <3> DEFINE e == [c EXCEPT !.repeat = FALSE]
    <3>1. Knows(p, [d EXCEPT !.state = "release", !.long = FALSE], c) /\ put_code(e)
      BY <1>9, <2>2 DEF HandleWait
    <3>2. e \in Cmds /\ Like(e, c) /\ ~e.repeat
      BY <1>1 DEF Cmds, Like
    <3>3. dec'[p].cmd = c /\ dec'[p].state = "release" /\ \A q \in Panels \ {p} : dec'[q] = dec[q]
      BY <1>4, <1>6, <3>1
    <3> HIDE DEF e
    <3> QED BY <1>1, <1>5, <2>1, <3>1, <3>2, <3>3 DEF c
  <2>3. CASE ~(d.long /\ find_key(c.key).second)
    <3>1. Knows(p, d, c) /\ UNCHANGED <<queue, missed>>
      BY <1>9, <2>3 DEF HandleWait
    <3>2. dec'[p].cmd = c /\ dec'[p].state = dec[p].state /\ \A q \in Panels \ {p} : dec'[q] = dec[q]
      BY <1>2, <1>4, <3>1
    <3> QED BY <1>1, <1>5, <2>1, <3>1, <3>2 DEF c
  <2> QED BY <2>2, <2>3
<1>10. CASE HandleChange(p, d, c)
  <2> DEFINE e == [c EXCEPT !.odd = c.repeat]
  <2>1. /\ Knows(p, [d EXCEPT !.state = "idle", !.long = FALSE], c) /\ put_code(e)
        /\ Changes(d, c)
    BY <1>10 DEF HandleChange
  <2>2. dec[p].state \in {"wait", "release"} /\ c.key # dec[p].cmd.key
    BY <1>2, <2>1 DEF Changes
  <2>3. e \in Cmds /\ Like(e, c) /\ e.repeat = c.repeat /\ e.odd = e.repeat
    BY <1>1 DEF Cmds, Like
  <2>4. dec'[p].cmd = c /\ dec'[p].state = "idle" /\ \A q \in Panels \ {p} : dec'[q] = dec[q]
    BY <1>4, <1>6, <2>1
  <2>5. c.key \in Shifted => c.press \in crossed'
    BY <1>3, <1>5, <2>1
  <2> HIDE DEF e
  <2> QED BY <1>1, <1>5, <2>1, <2>2, <2>3, <2>4, <2>5 DEF c
<1>11. CASE HandleRelease(p, d, c)
  <2>1. /\ dec[p].state \in {"wait", "release"} /\ c.key = dec[p].cmd.key
        /\ Knows(p, d, c) /\ UNCHANGED <<queue, missed>>
    BY <1>2, <1>11 DEF HandleRelease
  <2>2. dec'[p].cmd = c /\ dec'[p].state = dec[p].state /\ \A q \in Panels \ {p} : dec'[q] = dec[q]
    BY <1>2, <1>4, <2>1
  <2> QED BY <1>1, <1>5, <2>1, <2>2 DEF c
<1> QED BY <1>7, <1>8, <1>9, <1>10, <1>11

(* A silence.                                                              *)
LEMMA SilenceCases ==
  ASSUME KeysTyped, NEW p \in Panels, Silence(p)
  PROVE  /\ air[p] = Nothing /\ dec'[p].cmd = dec[p].cmd /\ dec'[p].state = "idle"
         /\ dec[p].cmd \in Cmds
         /\ \A q \in Panels \ {p} : dec'[q] = dec[q]
         /\ \/ dec[p].state = "wait" /\ put_code(dec[p].cmd)
            \/ dec[p].state # "wait" /\ UNCHANGED <<queue, missed>>
<1>1. dec[p] \in KeyDecoder /\ dec \in [Panels -> KeyDecoder]
  BY DEF KeysTyped
<1>2. dec' = [dec EXCEPT ![p].reel = "no", ![p].state = "idle", ![p].long = FALSE]
  BY DEF Silence
<1>3. /\ dec'[p].cmd = dec[p].cmd /\ dec'[p].state = "idle"
      /\ \A q \in Panels \ {p} : dec'[q] = dec[q]
  BY <1>1, <1>2 DEF KeyDecoder
<1>4. \/ dec[p].state = "wait" /\ put_code(dec[p].cmd)
      \/ dec[p].state # "wait" /\ UNCHANGED <<queue, missed>>
  BY DEF Silence
<1> QED BY <1>1, <1>3, <1>4 DEF Silence, KeyDecoder

(* The clock changes nothing that is remembered of a command.              *)
LEMMA TickCases ==
  ASSUME KeysTyped, NEW p \in Panels, Tick(p)
  PROVE  \A q \in Panels : dec'[q].cmd = dec[q].cmd /\ dec'[q].state = dec[q].state
<1>1. dec[p] \in KeyDecoder /\ dec \in [Panels -> KeyDecoder]
  BY DEF KeysTyped
<1>2. CASE dec' = [dec EXCEPT ![p].reel = "old"]
  BY <1>1, <1>2 DEF KeyDecoder
<1>3. CASE dec' = [dec EXCEPT ![p].long = TRUE]
  BY <1>1, <1>3 DEF KeyDecoder
<1> QED BY <1>2, <1>3 DEF Tick

(* What a panel hears of a packet.                                         *)
LEMMA SignalCases ==
  ASSUME KeysTyped, Signal
  PROVE  /\ held.key # NoKey /\ held.key \in Remote \cup Buttons
         /\ held.n \in Nat /\ held'.n = held.n + 1
         /\ held'.key = held.key /\ held'.press = held.press
         /\ \A p \in Panels :
              /\ air[p] = Nothing
              /\ air'[p] # Nothing =>
                   /\ air'[p].key = held.key /\ air'[p].press = held.press
                   /\ air'[p].repeat <=> held.n > 0
                   /\ air'[p].from = p /\ ~air'[p].odd
<1>1. PICK S \in SUBSET Panels :
        air' = [p \in Panels |->
                  IF p \in S THEN [key |-> held.key, press |-> held.press,
                                   repeat |-> held.n > 0, from |-> p, odd |-> FALSE]
                  ELSE Nothing]
  BY DEF Signal
<1>2. /\ held \in [key : AllKeys, press : 0..MaxPresses, n : 0..MaxSignals]
      /\ held' = [held EXCEPT !.n = @ + 1] /\ held.key # NoKey
      /\ \A p \in Panels : air[p] = Nothing
  BY DEF KeysTyped, Signal
<1>3. /\ held.key \in Remote \cup Buttons
      /\ held.n \in Nat /\ held'.n = held.n + 1
      /\ held'.key = held.key /\ held'.press = held.press
  BY <1>2, KeysAssumption DEF AllKeys
<1>4. ASSUME NEW p \in Panels, air'[p] # Nothing
      PROVE  /\ air'[p].key = held.key /\ air'[p].press = held.press
             /\ air'[p].repeat <=> held.n > 0
             /\ air'[p].from = p /\ ~air'[p].odd
  <2>1. air'[p] = [key |-> held.key, press |-> held.press,
                   repeat |-> held.n > 0, from |-> p, odd |-> FALSE]
    BY <1>1, <1>4
  <2>2. \A r \in BOOLEAN :
          LET c == [key |-> held.key, press |-> held.press, repeat |-> r,
                    from |-> p, odd |-> FALSE]
          IN  c.key = held.key /\ c.press = held.press /\ c.repeat = r
              /\ c.from = p /\ ~c.odd
    OBVIOUS
  <2>3. (held.n > 0) \in BOOLEAN
    OBVIOUS
  <2> QED BY <2>1, <2>2, <2>3, Zenon
<1> QED BY <1>2, <1>3, <1>4

(* A command that can be sent may join the others.                         *)
LEMMA PutSendable ==
  ASSUME KeysTyped, OnTheWay, NEW c \in Cmds, put_code(c), Sendable(c)
  PROVE  \A i \in 1..Len(queue') : Sendable(queue'[i])
<1>1. \A i \in 1..Len(queue) : Sendable(queue[i])
  BY DEF OnTheWay
<1> QED BY <1>1, PutCases

(* What the thread that sends has taken.                                   *)
LEMMA TakenCases ==
  ASSUME KeysTyped, OnTheWay, Waiting, TakeCode
  PROVE  /\ queue # << >> /\ queue' = Tail(queue)
         /\ Sendable(queue[1])
         /\ \/ /\ Ignore(queue[1]) /\ UNCHANGED <<snd, pressed, repeated, events>>
               /\ missed' = [missed EXCEPT ![queue[1].from] =
                               @ \/ ~queue[1].repeat \/ queue[1].odd]
            \/ /\ sendInputEvent(queue[1], Count(queue[1]))
               /\ snd'.cmd = queue[1] /\ snd'.count > 0 /\ ~snd'.gap
               /\ missed' = [missed EXCEPT ![queue[1].from] =
                               /\ Count(queue[1]) # 0
                               /\ @ \/ queue[1].odd \/ queue[1].key \in Buttons]
         /\ UNCHANGED <<held, air, dec, external, crossed, faded>>
<1>1. queue # << >> /\ queue' = Tail(queue) /\ Head(queue) = queue[1]
      /\ Len(queue) \in Nat \ {0}
  BY TakeCases DEF TakeCode
<1>2. Sendable(queue[1])
  BY <1>1 DEF OnTheWay
<1> DEFINE c == queue[1]
<1>3. \A i \in Nat : Counted(i) \in Nat /\ Counted(i) > 0
  BY KeysAssumption DEF Counted
<1>4. Count(c) \in Nat
  <2>1. snd.count \in 0..(FakeRepeats + 1) /\ FakeRepeats \in Nat
    BY KeysAssumption DEF KeysTyped, Sender
  <2>2. snd.count \in Nat
    BY <2>1
  <2> QED BY <2>2 DEF Count
<1>5. CASE Ignore(c)
  BY <1>1, <1>2, <1>5 DEF TakeCode, keyHistory
<1>6. CASE ~Ignore(c)
  <2>1. snd' = [count |-> Counted(Count(c)), cmd |-> c, window |-> TRUE,
                source |-> Source(c.from), gap |-> FALSE]
    BY <1>1, <1>6 DEF TakeCode
  <2> HIDE DEF c
  <2>2. snd'.cmd = c /\ snd'.count > 0 /\ ~snd'.gap
    BY <1>3, <1>4, <2>1
  <2> QED BY <1>1, <1>2, <1>6, <2>2 DEF TakeCode, keyHistory, c
<1> QED BY <1>5, <1>6

(* A repeat that the sender makes of itself is no press.                   *)
LEMMA FakeCases ==
  ASSUME KeysTyped, FakeRepeat
  PROVE  /\ Value(snd.cmd, snd.count) \in {"repeat", "none"}
         /\ sendInputEvent(snd.cmd, snd.count)
         /\ snd.count > 0 /\ snd'.count > 0 /\ snd'.cmd = snd.cmd /\ snd'.gap = snd.gap
         /\ UNCHANGED <<held, air, dec, queue, external, missed, crossed, faded>>
<1>1. snd \in Sender /\ snd.count \in Nat /\ snd.count > FakeRepeats
  <2>1. snd \in Sender /\ snd.count > FakeRepeats /\ FakeRepeats \in Nat
    BY KeysAssumption DEF KeysTyped, FakeRepeat
  <2>2. snd.count \in 0..(FakeRepeats + 1)
    BY <2>1 DEF Sender
  <2> QED BY <2>1, <2>2
<1>2. snd.count > 0 /\ Counted(snd.count) > 0
  BY <1>1, KeysAssumption DEF Counted
<1>3. Value(snd.cmd, snd.count) \in {"repeat", "none"}
  BY <1>2 DEF Value
<1> QED BY <1>1, <1>2, <1>3 DEF FakeRepeat, keyHistory, Sender

Basics == KeysTyped /\ OnTheWay /\ Waiting

LEMMA BasicsInit == KeysInit => Basics
<1> SUFFICES ASSUME KeysInit PROVE OnTheWay /\ Waiting
  BY KeysTypeInit DEF Basics
<1>1. Len(queue) = 0 /\ snd.count = 0 /\ snd.gap
  BY DEF KeysInit
<1>2. \A p \in Panels : air[p] = Nothing /\ dec[p].state = "idle"
  BY DEF KeysInit
<1> QED BY <1>1, <1>2 DEF OnTheWay, Waiting

LEMMA BasicsKept ==
  ASSUME Basics, [KeysNext]_keyVars
  PROVE  Basics'
<1>0. KeysTyped /\ OnTheWay /\ Waiting /\ KeysTyped'
  BY KeysTypeKept DEF Basics
<1> SUFFICES OnTheWay' /\ Waiting'
  BY <1>0 DEF Basics
<1>1. ASSUME NEW k \in Remote \cup Buttons, Press(k) PROVE OnTheWay' /\ Waiting'
  BY <1>0, <1>1 DEF Press, OnTheWay, Waiting
<1>2. CASE Signal
  <2>1. \A p \in Panels : air'[p] # Nothing =>
          air'[p].key \in Remote \cup Buttons /\ air'[p].from = p /\ ~air'[p].odd
    BY <1>0, <1>2, SignalCases
  <2>2. UNCHANGED <<dec, queue, snd>>
    BY <1>2 DEF Signal
  <2> QED BY <1>0, <2>1, <2>2 DEF OnTheWay, Waiting
<1>3. CASE ReleaseKey
  BY <1>0, <1>3 DEF ReleaseKey, OnTheWay, Waiting
<1>4. ASSUME NEW k \in Remote, ExternalKey(k) PROVE OnTheWay' /\ Waiting'
  <2> DEFINE c == [Nothing EXCEPT !.key = k, !.from = "udp"]
  <2>1. c \in Cmds /\ Sendable(c)
    BY NothingType DEF Cmds, AllKeys, Origins, Sendable
  <2>2. put_code(c) /\ UNCHANGED <<air, dec, snd>>
    BY <1>4 DEF ExternalKey
  <2> HIDE DEF c
  <2>3. \A i \in 1..Len(queue') : Sendable(queue'[i])
    BY <1>0, <2>1, <2>2, PutSendable
  <2> QED BY <1>0, <2>2, <2>3 DEF OnTheWay, Waiting
<1>5. ASSUME NEW p \in Panels, Tick(p) PROVE OnTheWay' /\ Waiting'
  <2>1. UNCHANGED <<air, queue, snd>>
    BY <1>5 DEF Tick
  <2>2. \A q \in Panels : dec'[q].cmd = dec[q].cmd /\ dec'[q].state = dec[q].state
    BY <1>0, <1>5, TickCases
  <2> QED BY <1>0, <2>1, <2>2 DEF OnTheWay, Waiting
<1>6. CASE WindowOver \/ Pause
  <2>1. UNCHANGED <<air, dec, queue>>
    BY <1>6 DEF WindowOver, Pause
  <2>2. snd'.cmd = snd.cmd /\ snd'.count = snd.count /\ (snd'.gap = snd.gap \/ snd'.gap)
    BY <1>0, <1>6 DEF WindowOver, Pause, KeysTyped, Sender
  <2> QED BY <1>0, <2>1, <2>2 DEF OnTheWay, Waiting
<1>7. ASSUME NEW p \in Panels, HandlePacket(p) PROVE OnTheWay' /\ Waiting'
  <2>1. UNCHANGED snd
    BY <1>7 DEF HandlePacket
  <2>2. Sendable(air[p]) /\ air[p].from = p /\ ~air[p].odd
    BY <1>0, <1>7, PacketCases DEF OnTheWay, Sendable, Origins
  <2>3. \A i \in 1..Len(queue') : Sendable(queue'[i])
    <3>1. CASE UNCHANGED queue
      BY <1>0, <3>1 DEF OnTheWay
    <3>2. ASSUME NEW e \in Cmds, put_code(e), Like(e, air[p])
          PROVE  \A i \in 1..Len(queue') : Sendable(queue'[i])
      BY <1>0, <2>2, <3>2, PutSendable DEF Like, Sendable
    <3> QED BY <1>0, <1>7, <3>1, <3>2, PacketCases
  <2>4. \A q \in Panels : air'[q] # Nothing => air'[q] = air[q]
    BY <1>0, <1>7, PacketCases DEF KeysTyped
  <2>5. ASSUME NEW q \in Panels, dec'[q].state # "idle"
        PROVE  dec'[q].cmd.key \in Shifted /\ dec'[q].cmd.from = q /\ ~dec'[q].cmd.odd
    <3>1. CASE q # p
      BY <1>0, <1>7, <2>5, <3>1, PacketCases DEF Waiting
    <3>2. CASE q = p
      <4>1. dec'[p].cmd = air[p]
        BY <1>0, <1>7, PacketCases
      <4>2. air[p].key \in Shifted
        BY <1>0, <1>7, <2>5, <3>2, PacketCases DEF Waiting
      <4> QED BY <2>2, <3>2, <4>1, <4>2
    <3> QED BY <3>1, <3>2
  <2> QED BY <1>0, <2>1, <2>3, <2>4, <2>5 DEF OnTheWay, Waiting
<1>8. ASSUME NEW p \in Panels, Silence(p) PROVE OnTheWay' /\ Waiting'
  <2>1. UNCHANGED <<snd, air>>
    BY <1>8 DEF Silence
  <2>2. \A i \in 1..Len(queue') : Sendable(queue'[i])
    <3>1. CASE UNCHANGED queue
      BY <1>0, <3>1 DEF OnTheWay
    <3>2. CASE dec[p].state = "wait" /\ put_code(dec[p].cmd)
      <4>1. Sendable(dec[p].cmd) /\ dec[p].cmd \in Cmds
        BY <1>0, <1>8, <3>2, SilenceCases, KeysAssumption DEF Waiting, Sendable, Origins
      <4> QED BY <1>0, <3>2, <4>1, PutSendable
    <3> QED BY <1>0, <1>8, <3>1, <3>2, SilenceCases
  <2>3. \A q \in Panels : dec'[q].state # "idle" => dec'[q] = dec[q]
    BY <1>0, <1>8, SilenceCases
  <2> QED BY <1>0, <2>1, <2>2, <2>3 DEF OnTheWay, Waiting
<1>9. CASE TakeCode
  <2>1. /\ queue # << >> /\ queue' = Tail(queue) /\ Sendable(queue[1])
        /\ UNCHANGED <<air, dec>>
        /\ UNCHANGED snd \/ (snd'.cmd = queue[1] /\ snd'.count > 0)
    BY <1>0, <1>9, TakenCases
  <2>2. \A i \in 1..Len(queue') : Sendable(queue'[i])
    BY <1>0, <2>1, TakeCases DEF OnTheWay
  <2> QED BY <1>0, <2>1, <2>2 DEF OnTheWay, Waiting
<1>10. CASE FakeRepeat
  <2>1. /\ snd.count > 0 /\ snd'.count > 0 /\ snd'.cmd = snd.cmd
        /\ UNCHANGED <<air, dec, queue>>
    BY <1>0, <1>10, FakeCases
  <2> QED BY <1>0, <2>1 DEF OnTheWay, Waiting
<1>11. CASE UNCHANGED keyVars
  BY <1>0, <1>11 DEF keyVars, outVars, keyHistory, OnTheWay, Waiting
<1> QED BY <1>1, <1>2, <1>3, <1>4, <1>5, <1>6, <1>7, <1>8, <1>9, <1>10, <1>11
        DEF KeysNext, User, KeyThreads, PanelThread, KeyClock

-----------------------------------------------------------------------------
(* What is repeated.                                                       *)

(* The last of the first n commands of q that came from o has key k; where *)
(* there is none, last holds.                                              *)
LastIs(q, o, n, k, last) ==
  \/ \E j \in 1..n : /\ q[j].from = o /\ q[j].key = k
                     /\ \A m \in (j + 1)..n : q[m].from # o
  \/ (\A j \in 1..n : q[j].from # o) /\ last

(* k was the last press of o, or else o has missed something.              *)
KnownPress(o, k) == missed[o] \/ pressed[o] = k

(* A repeat that can become an event of its own.                           *)
TrueRepeat(c) == c.repeat /\ ~c.odd /\ c.key \in Repeated \cap Remote

(* A repeat follows its press through the queue.                           *)
RepeatsQueued ==
  \A i \in 1..Len(queue) : TrueRepeat(queue[i]) =>
    LastIs(queue, queue[i].from, i - 1, queue[i].key,
           KnownPress(queue[i].from, queue[i].key))

(* What a panel takes for the last key is the last one that it put there.  *)
KeysHeard ==
  \A p \in Panels : dec[p].cmd.key \in Repeated \cap Remote =>
    LastIs(queue, p, Len(queue), dec[p].cmd.key, KnownPress(p, dec[p].cmd.key))

(* What the sender repeats of itself.                                      *)
RepeatSent ==
  snd.count > 0 /\ snd.cmd.key \in Repeated => KnownPress(snd.cmd.from, snd.cmd.key)

RepeatInv ==
  Basics /\ RepeatsQueued /\ KeysHeard /\ RepeatSent /\ RepeatsTheLastPress

(* LastIs sees the first n commands only.                                  *)
LEMMA LastSame ==
  ASSUME NEW q, NEW r, NEW o, NEW n \in Nat, NEW k, NEW a \in BOOLEAN, NEW b \in BOOLEAN,
         \A i \in 1..n : r[i] = q[i], LastIs(q, o, n, k, a), a => b
  PROVE  LastIs(r, o, n, k, b)
<1>1. CASE \E j \in 1..n : /\ q[j].from = o /\ q[j].key = k
                           /\ \A m \in (j + 1)..n : q[m].from # o
  <2>1. PICK j \in 1..n : /\ q[j].from = o /\ q[j].key = k
                          /\ \A m \in (j + 1)..n : q[m].from # o
    BY <1>1
  <2>2. \A m \in (j + 1)..n : m \in 1..n
    BY <2>1
  <2>3. r[j].from = o /\ r[j].key = k /\ \A m \in (j + 1)..n : r[m].from # o
    BY <2>1, <2>2
  <2> QED BY <2>3 DEF LastIs
<1>2. CASE (\A j \in 1..n : q[j].from # o) /\ a
  BY <1>2 DEF LastIs
<1> QED BY <1>1, <1>2 DEF LastIs

(* The first command is taken away.                                        *)
LEMMA LastTail ==
  ASSUME NEW q, NEW r, NEW o, NEW n \in Nat \ {0}, NEW k,
         NEW a \in BOOLEAN, NEW b \in BOOLEAN,
         \A i \in 1..(n - 1) : r[i] = q[i + 1], LastIs(q, o, n, k, a),
         q[1].from = o /\ q[1].key = k => b,
         q[1].from # o /\ a => b
  PROVE  LastIs(r, o, n - 1, k, b)
<1>0. \A i \in 2..n : i - 1 \in 1..(n - 1) /\ r[i - 1] = q[i]
  OBVIOUS
<1>1. CASE \E j \in 1..n : /\ q[j].from = o /\ q[j].key = k
                           /\ \A m \in (j + 1)..n : q[m].from # o
  <2>1. PICK j \in 1..n : /\ q[j].from = o /\ q[j].key = k
                          /\ \A m \in (j + 1)..n : q[m].from # o
    BY <1>1
  <2>2. \A m \in j..(n - 1) : r[m] = q[m + 1] /\ m + 1 \in (j + 1)..n
    BY <2>1
  <2>3. CASE j = 1
    <3>1. \A m \in 1..(n - 1) : r[m].from # o
      BY <2>1, <2>2, <2>3
    <3> QED BY <2>1, <2>3, <3>1 DEF LastIs
  <2>4. CASE j # 1
    <3>1. j - 1 \in 1..(n - 1) /\ r[j - 1] = q[j]
      BY <1>0, <2>4
    <3>2. \A m \in ((j - 1) + 1)..(n - 1) : r[m].from # o
      BY <2>1, <2>2
    <3> QED BY <2>1, <3>1, <3>2 DEF LastIs
  <2> QED BY <2>3, <2>4
<1>2. CASE (\A j \in 1..n : q[j].from # o) /\ a
  <2>1. \A m \in 1..(n - 1) : r[m] = q[m + 1] /\ m + 1 \in 1..n
    OBVIOUS
  <2>2. 1 \in 1..n
    OBVIOUS
  <2> QED BY <1>2, <2>1, <2>2 DEF LastIs
<1> QED BY <1>1, <1>2 DEF LastIs

(* One command more.                                                       *)
LEMMA LastNext ==
  ASSUME NEW q, NEW r, NEW o, NEW n \in Nat, NEW k, NEW a \in BOOLEAN, NEW b \in BOOLEAN,
         \A i \in 1..n : r[i] = q[i],
         r[n + 1].from = o => r[n + 1].key = k,
         r[n + 1].from # o => LastIs(q, o, n, k, a), a => b
  PROVE  LastIs(r, o, n + 1, k, b)
<1>1. CASE r[n + 1].from = o
  <2>1. n + 1 \in 1..(n + 1) /\ \A m \in ((n + 1) + 1)..(n + 1) : FALSE
    OBVIOUS
  <2> QED BY <1>1, <2>1 DEF LastIs
<1>2. CASE r[n + 1].from # o
  <2>0. 1..(n + 1) = 1..n \cup {n + 1}
    OBVIOUS
  <2>1. LastIs(r, o, n, k, b)
    BY <1>2, LastSame
  <2>2. CASE \E j \in 1..n : /\ r[j].from = o /\ r[j].key = k
                             /\ \A m \in (j + 1)..n : r[m].from # o
    <3>1. PICK j \in 1..n : /\ r[j].from = o /\ r[j].key = k
                            /\ \A m \in (j + 1)..n : r[m].from # o
      BY <2>2
    <3>2. \A m \in (j + 1)..(n + 1) : m \in (j + 1)..n \/ m = n + 1
      BY <3>1
    <3> QED BY <1>2, <2>0, <3>1, <3>2 DEF LastIs
  <2>3. CASE (\A j \in 1..n : r[j].from # o) /\ b
    BY <1>2, <2>0, <2>3 DEF LastIs
  <2> QED BY <2>1, <2>2, <2>3 DEF LastIs
<1> QED BY <1>1, <1>2

(* Nothing is in an empty queue.                                           *)
LEMMA LastEmpty ==
  ASSUME NEW q, NEW o, NEW k, NEW b, b
  PROVE  LastIs(q, o, 0, k, b)
BY DEF LastIs

(* A command joins the queue, and o heard k last.                          *)
LEMMA PutHeard ==
  ASSUME KeysTyped, NEW c \in Cmds, put_code(c), UNCHANGED pressed,
         NEW o \in Origins, NEW k,
         c.from = o => c.key = k,
         c.from # o => LastIs(queue, o, Len(queue), k, KnownPress(o, k))
  PROVE  LastIs(queue', o, Len(queue'), k, missed'[o] \/ pressed'[o] = k)
<1> DEFINE b == missed'[o] \/ pressed'[o] = k
<1>1. CASE Len(queue') = 0 /\ missed'[o]
  <2>1. b
    BY <1>1
  <2> HIDE DEF b
  <2>2. LastIs(queue', o, 0, k, b)
    BY <2>1, LastEmpty
  <2> QED BY <1>1, <2>2 DEF b
<1>2. CASE /\ Len(queue') = Len(queue) + 1 /\ Len(queue) \in Nat
           /\ queue'[Len(queue) + 1] = c
           /\ \A i \in 1..Len(queue) : queue'[i] = queue[i]
           /\ missed' = missed
  <2> DEFINE a == KnownPress(o, k)
  <2>1. a \in BOOLEAN /\ b \in BOOLEAN /\ (a => b)
    BY <1>2 DEF KnownPress
  <2>2. c.from # o => LastIs(queue, o, Len(queue), k, a)
    OBVIOUS
  <2> HIDE DEF a, b
  <2>3. LastIs(queue', o, Len(queue) + 1, k, b)
    BY <1>2, <2>1, <2>2, LastNext
  <2> QED BY <1>2, <2>3 DEF b
<1> QED BY <1>1, <1>2, PutCases

(* A command joins the queue after what came from the same panel.          *)
LEMMA PutQueued ==
  ASSUME KeysTyped, OnTheWay, RepeatsQueued, NEW c \in Cmds, put_code(c),
         UNCHANGED pressed, Sendable(c),
         TrueRepeat(c) => LastIs(queue, c.from, Len(queue), c.key, KnownPress(c.from, c.key))
  PROVE  RepeatsQueued'
<1>1. CASE Len(queue') = 0
  BY <1>1 DEF RepeatsQueued
<1>2. CASE /\ Len(queue') = Len(queue) + 1 /\ Len(queue) \in Nat
           /\ queue'[Len(queue) + 1] = c
           /\ \A i \in 1..Len(queue) : queue'[i] = queue[i]
           /\ missed' = missed
  <2> SUFFICES ASSUME NEW i \in 1..Len(queue'), TrueRepeat(queue'[i])
               PROVE  LastIs(queue', queue'[i].from, i - 1, queue'[i].key,
                             \/ missed'[queue'[i].from]
                             \/ pressed'[queue'[i].from] = queue'[i].key)
    BY DEF RepeatsQueued, KnownPress
  <2> DEFINE o == queue'[i].from
             k == queue'[i].key
             a == missed[o] \/ pressed[o] = k
             b == missed'[o] \/ pressed'[o] = k
  <2>1. i \in 1..Len(queue) \/ i = Len(queue) + 1
    BY <1>2
  <2>2. LastIs(queue, o, i - 1, k, a)
    <3>1. CASE i \in 1..Len(queue)
      <4>1. queue'[i] = queue[i]
        BY <1>2, <3>1
      <4> QED BY <3>1, <4>1 DEF RepeatsQueued, KnownPress
    <3>2. CASE i = Len(queue) + 1
      <4>1. queue'[i] = c /\ i - 1 = Len(queue)
        BY <1>2, <3>2
      <4> QED BY <4>1 DEF KnownPress
    <3> QED BY <2>1, <3>1, <3>2
  <2>3. a \in BOOLEAN /\ b \in BOOLEAN /\ (a => b)
    BY <1>2
  <2>4. i - 1 \in Nat /\ \A j \in 1..(i - 1) : queue'[j] = queue[j]
    <3>1. i \in Nat \ {0} /\ i - 1 \in Nat /\ i - 1 <= Len(queue)
      BY <1>2, <2>1
    <3> QED BY <1>2, <3>1
  <2> HIDE DEF o, k, a, b
  <2>6. LastIs(queue', o, i - 1, k, b)
    BY <2>2, <2>3, <2>4, LastSame
  <2> QED BY <2>6 DEF o, k, b
<1> QED BY <1>1, <1>2, PutCases

(* What an event of a key says of the presses and repeats.                 *)
LEMMA EventCases ==
  ASSUME KeysTyped, NEW c, NEW n, Sendable(c), sendInputEvent(c, n)
  PROVE  \/ /\ n = 0
            /\ pressed' = [pressed EXCEPT ![c.from] = c.key]
            /\ repeated' = [repeated EXCEPT ![c.from] = NoKey]
            /\ events' = [m \in Presses |-> events[m] + IF m = c.press THEN 1 ELSE 0]
         \/ /\ n # 0 /\ UNCHANGED <<pressed, events>>
            /\ \/ UNCHANGED repeated
               \/ c.key \in Repeated /\ repeated' = [repeated EXCEPT ![c.from] = c.key]
<1>1. find_key(c.key).repeat <=> c.key \in Repeated
  <2>1. CASE c.key \in Remote
    BY <2>1 DEF find_key, ir_kbdx
  <2>2. CASE c.key \notin Remote
    BY <2>2 DEF Sendable, find_key, kb_kbdx
  <2> QED BY <2>1, <2>2
<1>2. CASE n = 0
  <2>1. Value(c, n) = "press"
    <3>1. ~(n > MinRepeats)
      BY <1>2, KeysAssumption
    <3> QED BY <1>2, <3>1 DEF Value
  <2> QED BY <1>2, <2>1 DEF sendInputEvent
<1>3. CASE n # 0
  <2>1. CASE n > MinRepeats /\ find_key(c.key).repeat
    <3>1. Value(c, n) = "repeat"
      BY <1>3, <2>1 DEF Value
    <3> QED BY <1>1, <1>3, <2>1, <3>1 DEF sendInputEvent
  <2>2. CASE ~(n > MinRepeats /\ find_key(c.key).repeat)
    <3>1. Value(c, n) = "none"
      BY <1>3, <2>2 DEF Value
    <3> QED BY <1>3, <3>1 DEF sendInputEvent
  <2> QED BY <2>1, <2>2
<1> QED BY <1>2, <1>3

(* What is known of the last press survives that a command is taken.       *)
LEMMA TakeKnown ==
  ASSUME Basics, RepeatsQueued, TakeCode
  PROVE  /\ \A o \in Origins, k \in Repeated \cap Remote :
              /\ queue[1].from = o /\ queue[1].key = k => missed'[o] \/ pressed'[o] = k
              /\ queue[1].from # o /\ KnownPress(o, k) => missed'[o] \/ pressed'[o] = k
         /\ ~Ignore(queue[1]) /\ queue[1].key \in Repeated =>
              missed'[queue[1].from] \/ pressed'[queue[1].from] = queue[1].key
<1> DEFINE c == queue[1]
<1>0. KeysTyped /\ OnTheWay /\ Waiting
  BY DEF Basics
<1>1. /\ missed \in [Origins -> BOOLEAN] /\ pressed \in [Origins -> AllKeys]
      /\ Sendable(c) /\ c.from \in Origins /\ c.key \in Remote \cup Buttons
      /\ c \in Cmds /\ c.repeat \in BOOLEAN /\ c.odd \in BOOLEAN
  BY <1>0, TakenCases, TakeCases DEF KeysTyped, Sendable, Cmds
<1>2. TrueRepeat(c) => KnownPress(c.from, c.key)
  <2>1. 1 \in 1..Len(queue)
    BY <1>0, TakenCases, TakeCases
  <2>2. TrueRepeat(c) => LastIs(queue, c.from, 1 - 1, c.key, KnownPress(c.from, c.key))
    BY <2>1 DEF RepeatsQueued
  <2> QED BY <2>2 DEF LastIs
<1>3. CASE Ignore(c)
  <2>1. /\ UNCHANGED pressed
        /\ missed' = [missed EXCEPT ![c.from] = @ \/ ~c.repeat \/ c.odd]
    BY <1>0, <1>3, TakeCases DEF TakeCode
  <2> HIDE DEF c
  <2>2. \A o \in Origins : (missed[o] => missed'[o])
                           /\ (o = c.from /\ (~c.repeat \/ c.odd) => missed'[o])
    BY <1>1, <2>1
  <2> QED BY <1>1, <1>2, <1>3, <2>1, <2>2 DEF c, KnownPress, TrueRepeat
<1>4. CASE ~Ignore(c)
  <2>1. /\ sendInputEvent(c, Count(c))
        /\ missed' = [missed EXCEPT ![c.from] =
                        Count(c) # 0 /\ (@ \/ c.odd \/ c.key \in Buttons)]
    BY <1>0, <1>4, TakeCases DEF TakeCode
  <2> HIDE DEF c
  <2>2. CASE Count(c) = 0
    <3>1. pressed' = [pressed EXCEPT ![c.from] = c.key]
      BY <1>0, <1>1, <2>1, <2>2, EventCases
    <3>2. \A o \in Origins : IF o = c.from THEN pressed'[o] = c.key
                             ELSE pressed'[o] = pressed[o] /\ missed'[o] = missed[o]
      BY <1>1, <2>1, <3>1
    <3> QED BY <1>1, <3>2 DEF c, KnownPress
  <2>3. CASE Count(c) # 0
    <3>1. UNCHANGED pressed
      BY <1>0, <1>1, <2>1, <2>3, EventCases
    <3>2. \A o \in Origins :
            /\ missed[o] => missed'[o]
            /\ o = c.from /\ (c.odd \/ c.key \in Buttons) => missed'[o]
      BY <1>1, <2>1, <2>3
    <3>3. c.key \in Remote => c.repeat
      BY <1>1, <2>3 DEF Count
    <3>4. c.key \in Repeated => KnownPress(c.from, c.key) \/ c.odd \/ c.key \in Buttons
      BY <1>1, <1>2, <3>3 DEF TrueRepeat
    <3> QED BY <1>1, <3>1, <3>2, <3>4, KeysAssumption DEF c, KnownPress
  <2> QED BY <2>2, <2>3
<1> QED BY <1>3, <1>4

(* The sender takes a command.                                             *)
LEMMA TakeRepeats ==
  ASSUME RepeatInv, TakeCode
  PROVE  RepeatsQueued' /\ KeysHeard' /\ RepeatSent' /\ RepeatsTheLastPress'
<1> DEFINE c == queue[1]
<1>0. /\ Basics /\ RepeatsQueued /\ KeysHeard /\ RepeatSent /\ RepeatsTheLastPress
      /\ KeysTyped /\ OnTheWay /\ Waiting
  BY DEF RepeatInv, Basics
<1>1. /\ queue # << >> /\ queue' = Tail(queue) /\ Sendable(c) /\ UNCHANGED dec
      /\ Len(queue) \in Nat \ {0} /\ Len(queue') = Len(queue) - 1
      /\ \A i \in 1..(Len(queue) - 1) : queue'[i] = queue[i + 1]
  BY <1>0, TakenCases, TakeCases
<1>2. /\ missed \in [Origins -> BOOLEAN] /\ pressed \in [Origins -> AllKeys]
      /\ repeated \in [Origins -> AllKeys] /\ c.from \in Origins
      /\ "udp" \in Origins /\ \A p \in Panels : p \in Origins
  BY <1>0, <1>1 DEF KeysTyped, Sendable, Origins
<1>3. ASSUME NEW o \in Origins, NEW k \in Repeated \cap Remote, NEW n \in 1..Len(queue),
             LastIs(queue, o, n, k, KnownPress(o, k))
      PROVE  LastIs(queue', o, n - 1, k, missed'[o] \/ pressed'[o] = k)
  <2> DEFINE a == KnownPress(o, k)
             b == missed'[o] \/ pressed'[o] = k
  <2>1. /\ a \in BOOLEAN /\ b \in BOOLEAN
        /\ queue[1].from = o /\ queue[1].key = k => b
        /\ queue[1].from # o /\ a => b
    BY <1>0, TakeKnown DEF KnownPress
  <2>2. n \in Nat \ {0} /\ \A i \in 1..(n - 1) : queue'[i] = queue[i + 1]
    BY <1>1
  <2>3. LastIs(queue, o, n, k, a)
    BY <1>3
  <2> HIDE DEF a, b
  <2>4. LastIs(queue', o, n - 1, k, b)
    BY <2>1, <2>2, <2>3, LastTail
  <2> QED BY <2>4 DEF b
<1>4. RepeatsQueued'
  <2> SUFFICES ASSUME NEW i \in 1..Len(queue'), TrueRepeat(queue'[i])
               PROVE  LastIs(queue', queue'[i].from, i - 1, queue'[i].key,
                             \/ missed'[queue'[i].from]
                             \/ pressed'[queue'[i].from] = queue'[i].key)
    BY DEF RepeatsQueued, KnownPress
  <2>1. /\ i + 1 \in 1..Len(queue) /\ queue'[i] = queue[i + 1] /\ i \in 1..Len(queue)
        /\ (i + 1) - 1 = i
    BY <1>1
  <2>2. /\ queue[i + 1].from \in Origins
        /\ queue[i + 1].key \in Repeated \cap Remote
    BY <1>0, <2>1 DEF TrueRepeat, OnTheWay, Sendable
  <2>3. LastIs(queue, queue[i + 1].from, i, queue[i + 1].key,
               KnownPress(queue[i + 1].from, queue[i + 1].key))
    BY <1>0, <2>1 DEF RepeatsQueued
  <2> QED BY <1>3, <2>1, <2>2, <2>3
<1>5. KeysHeard'
  <2> SUFFICES ASSUME NEW p \in Panels, dec'[p].cmd.key \in Repeated \cap Remote
               PROVE  LastIs(queue', p, Len(queue'), dec'[p].cmd.key,
                             missed'[p] \/ pressed'[p] = dec'[p].cmd.key)
    BY DEF KeysHeard, KnownPress
  <2>1. LastIs(queue, p, Len(queue), dec[p].cmd.key, KnownPress(p, dec[p].cmd.key))
    BY <1>0, <1>1 DEF KeysHeard
  <2>2. dec'[p].cmd.key = dec[p].cmd.key /\ Len(queue) \in 1..Len(queue) /\ p \in Origins
    BY <1>1, <1>2
  <2> QED BY <1>1, <1>3, <2>1, <2>2
<1>6. CASE Ignore(c)
  <2>1. /\ UNCHANGED <<snd, pressed, repeated>>
        /\ missed' = [missed EXCEPT ![c.from] = @ \/ ~c.repeat \/ c.odd]
    BY <1>0, <1>6, TakeCases DEF TakeCode
  <2> HIDE DEF c
  <2>2. \A o \in Origins : missed[o] => missed'[o]
    BY <1>2, <2>1
  <2>3. RepeatSent'
    BY <1>0, <2>1, <2>2 DEF RepeatSent, KnownPress, Waiting, Sendable
  <2>4. RepeatsTheLastPress'
    BY <1>0, <2>1, <2>2 DEF RepeatsTheLastPress
  <2> QED BY <1>4, <1>5, <2>3, <2>4
<1>7. CASE ~Ignore(c)
  <2>1. /\ sendInputEvent(c, Count(c)) /\ snd'.cmd = c
        /\ missed' = [missed EXCEPT ![c.from] =
                        Count(c) # 0 /\ (@ \/ c.odd \/ c.key \in Buttons)]
    BY <1>0, <1>7, TakenCases, TakeCases DEF TakeCode
  <2>2. c.key \in Repeated => missed'[c.from] \/ pressed'[c.from] = c.key
    BY <1>0, <1>7, TakeKnown
  <2> HIDE DEF c
  <2>3. RepeatSent'
    BY <2>1, <2>2 DEF RepeatSent, KnownPress
  <2>4. RepeatsTheLastPress'
    <3> SUFFICES ASSUME NEW o \in Origins
                 PROVE  missed'[o] \/ repeated'[o] \in {NoKey, pressed'[o]}
      BY DEF RepeatsTheLastPress
    <3>0. missed[o] \/ repeated[o] \in {NoKey, pressed[o]}
      BY <1>0 DEF RepeatsTheLastPress
    <3>1. CASE Count(c) = 0
      <4>1. /\ pressed' = [pressed EXCEPT ![c.from] = c.key]
            /\ repeated' = [repeated EXCEPT ![c.from] = NoKey]
        BY <1>0, <1>1, <2>1, <3>1, EventCases
      <4>2. CASE o = c.from
        BY <1>2, <4>1, <4>2
      <4>3. CASE o # c.from
        BY <1>2, <2>1, <3>0, <4>1, <4>3
      <4> QED BY <4>2, <4>3
    <3>2. CASE Count(c) # 0
      <4>1. /\ UNCHANGED pressed
            /\ \/ UNCHANGED repeated
               \/ c.key \in Repeated /\ repeated' = [repeated EXCEPT ![c.from] = c.key]
        BY <1>0, <1>1, <2>1, <3>2, EventCases
      <4>2. missed[o] => missed'[o]
        BY <1>2, <2>1, <3>2
      <4>3. CASE UNCHANGED repeated
        BY <3>0, <4>1, <4>2, <4>3
      <4>4. CASE c.key \in Repeated /\ repeated' = [repeated EXCEPT ![c.from] = c.key]
        <5>1. CASE o = c.from
          BY <1>2, <2>2, <4>4, <5>1
        <5>2. CASE o # c.from
          BY <1>2, <3>0, <4>1, <4>2, <4>4, <5>2
        <5> QED BY <5>1, <5>2
      <4> QED BY <4>1, <4>3, <4>4
    <3> QED BY <3>1, <3>2
  <2> QED BY <1>4, <1>5, <2>3, <2>4
<1> QED BY <1>6, <1>7

(* A packet or a silence.                                                  *)
LEMMA PanelRepeats ==
  ASSUME RepeatInv, NEW p \in Panels, PanelThread(p)
  PROVE  RepeatsQueued' /\ KeysHeard' /\ RepeatSent' /\ RepeatsTheLastPress'
<1>0. /\ RepeatsQueued /\ KeysHeard /\ RepeatSent /\ RepeatsTheLastPress
      /\ KeysTyped /\ OnTheWay /\ Waiting
  BY DEF RepeatInv, Basics
<1>1. /\ UNCHANGED <<snd, pressed, repeated>>
      /\ p \in Origins /\ \A q \in Panels : q \in Origins
  BY DEF PanelThread, HandlePacket, Silence, Origins
<1>2. ASSUME NEW e \in Cmds, put_code(e), Sendable(e), e.from = p,
             dec'[p].cmd.key = e.key,
             TrueRepeat(e) => e.key = dec[p].cmd.key,
             \A q \in Panels \ {p} : dec'[q] = dec[q]
      PROVE  RepeatsQueued' /\ KeysHeard' /\ \A o \in Origins : missed[o] => missed'[o]
  <2>1. TrueRepeat(e) => LastIs(queue, p, Len(queue), e.key, KnownPress(p, e.key))
    BY <1>0, <1>2 DEF KeysHeard, TrueRepeat
  <2>2. RepeatsQueued'
    BY <1>0, <1>1, <1>2, <2>1, PutQueued
  <2>3. ASSUME NEW q \in Panels, dec'[q].cmd.key \in Repeated \cap Remote
        PROVE  LastIs(queue', q, Len(queue'), dec'[q].cmd.key,
                      missed'[q] \/ pressed'[q] = dec'[q].cmd.key)
    <3> DEFINE k == dec'[q].cmd.key
    <3>1. e.from = q => e.key = k
      BY <1>2
    <3>2. e.from # q => LastIs(queue, q, Len(queue), k, KnownPress(q, k))
      BY <1>0, <1>2, <2>3 DEF KeysHeard
    <3> HIDE DEF k
    <3>3. LastIs(queue', q, Len(queue'), k, missed'[q] \/ pressed'[q] = k)
      BY <1>0, <1>1, <1>2, <3>1, <3>2, PutHeard
    <3> QED BY <3>3 DEF k
  <2>4. KeysHeard'
    BY <2>3 DEF KeysHeard, KnownPress
  <2>5. \A o \in Origins : missed[o] => missed'[o]
    BY <1>0, <1>2, PutCases
  <2> QED BY <2>2, <2>4, <2>5
<1>3. ASSUME UNCHANGED <<queue, missed>>, dec'[p].cmd.key \notin Repeated \cap Remote,
             \A q \in Panels \ {p} : dec'[q] = dec[q]
      PROVE  RepeatsQueued' /\ KeysHeard' /\ \A o \in Origins : missed[o] => missed'[o]
  <2>1. RepeatsQueued'
    BY <1>0, <1>1, <1>3 DEF RepeatsQueued, KnownPress
  <2>2. ASSUME NEW q \in Panels, dec'[q].cmd.key \in Repeated \cap Remote
        PROVE  LastIs(queue', q, Len(queue'), dec'[q].cmd.key,
                      missed'[q] \/ pressed'[q] = dec'[q].cmd.key)
    BY <1>0, <1>1, <1>3, <2>2 DEF KeysHeard, KnownPress
  <2>3. KeysHeard'
    BY <2>2 DEF KeysHeard, KnownPress
  <2> QED BY <1>3, <2>1, <2>3
<1>4. RepeatsQueued' /\ KeysHeard' /\ \A o \in Origins : missed[o] => missed'[o]
  <2>1. CASE HandlePacket(p)
    <3>1. /\ Sendable(air[p]) /\ air[p].from = p /\ ~air[p].odd /\ dec'[p].cmd = air[p]
          /\ \A q \in Panels \ {p} : dec'[q] = dec[q]
      BY <1>0, <1>1, <2>1, PacketCases DEF OnTheWay, Sendable
    <3>2. ASSUME NEW e \in Cmds, put_code(e), Like(e, air[p]),
                 TrueRepeat(e) => e.key = dec[p].cmd.key
          PROVE  RepeatsQueued' /\ KeysHeard' /\ \A o \in Origins : missed[o] => missed'[o]
      BY <1>2, <3>1, <3>2 DEF Like, Sendable
    <3>3. ASSUME UNCHANGED <<queue, missed>>, air[p].key \in Shifted
          PROVE  RepeatsQueued' /\ KeysHeard' /\ \A o \in Origins : missed[o] => missed'[o]
      BY <1>3, <3>1, <3>3, KeysAssumption
    <3>4. dec[p].state # "idle" => dec[p].cmd.key \in Shifted
      BY <1>0 DEF Waiting
    <3>5. \/ \E e \in Cmds : /\ put_code(e) /\ Like(e, air[p])
                             /\ TrueRepeat(e) => e.key = dec[p].cmd.key
          \/ UNCHANGED <<queue, missed>> /\ air[p].key \in Shifted
      BY <1>0, <2>1, <3>4, PacketCases DEF TrueRepeat, Like
    <3> QED BY <3>2, <3>3, <3>5
  <2>2. CASE Silence(p)
    <3>1. /\ dec'[p].cmd = dec[p].cmd /\ dec[p].cmd \in Cmds
          /\ \A q \in Panels \ {p} : dec'[q] = dec[q]
      BY <1>0, <2>2, SilenceCases
    <3>2. CASE dec[p].state = "wait" /\ put_code(dec[p].cmd)
      <4>1. dec[p].cmd.from = p /\ Sendable(dec[p].cmd)
        BY <1>0, <1>1, <3>2, KeysAssumption DEF Waiting, Sendable
      <4> QED BY <1>2, <3>1, <3>2, <4>1
    <3>3. CASE UNCHANGED <<queue, missed>>
      <4>1. RepeatsQueued'
        BY <1>0, <1>1, <3>3 DEF RepeatsQueued, KnownPress
      <4>2. \A q \in Panels : dec'[q].cmd = dec[q].cmd
        BY <3>1
      <4>3. KeysHeard'
        BY <1>0, <1>1, <3>3, <4>2 DEF KeysHeard, KnownPress
      <4> QED BY <3>3, <4>1, <4>3
    <3> QED BY <1>0, <2>2, <3>2, <3>3, SilenceCases
  <2> QED BY <2>1, <2>2 DEF PanelThread
<1>5. RepeatSent'
  BY <1>0, <1>1, <1>4 DEF RepeatSent, KnownPress, Waiting, Sendable
<1>6. RepeatsTheLastPress'
  BY <1>0, <1>1, <1>4 DEF RepeatsTheLastPress
<1> QED BY <1>4, <1>5, <1>6

(* A command from the network is no repeat.                                *)
LEMMA ExternalRepeats ==
  ASSUME RepeatInv, NEW k \in Remote, ExternalKey(k)
  PROVE  RepeatsQueued' /\ KeysHeard' /\ RepeatSent' /\ RepeatsTheLastPress'
<1> DEFINE c == [Nothing EXCEPT !.key = k, !.from = "udp"]
<1>0. /\ RepeatsQueued /\ KeysHeard /\ RepeatSent /\ RepeatsTheLastPress
      /\ KeysTyped /\ OnTheWay /\ Waiting
  BY DEF RepeatInv, Basics
<1>1. c \in Cmds /\ Sendable(c) /\ c.from = "udp" /\ ~TrueRepeat(c)
  BY NothingType DEF Nothing, Cmds, AllKeys, Origins, Sendable, TrueRepeat
<1>2. put_code(c) /\ UNCHANGED <<dec, snd, pressed, repeated>>
  BY DEF ExternalKey
<1> HIDE DEF c
<1>3. RepeatsQueued'
  BY <1>0, <1>1, <1>2, PutQueued
<1>4. KeysHeard'
  <2> SUFFICES ASSUME NEW p \in Panels, dec'[p].cmd.key \in Repeated \cap Remote
               PROVE  LastIs(queue', p, Len(queue'), dec'[p].cmd.key,
                             missed'[p] \/ pressed'[p] = dec'[p].cmd.key)
    BY DEF KeysHeard, KnownPress
  <2> DEFINE l == dec'[p].cmd.key
  <2>1. LastIs(queue, p, Len(queue), l, KnownPress(p, l))
    BY <1>0, <1>2 DEF KeysHeard
  <2>2. c.from # p /\ p \in Origins
    BY <1>1, KeysAssumption DEF Origins
  <2> HIDE DEF l
  <2>3. LastIs(queue', p, Len(queue'), l, missed'[p] \/ pressed'[p] = l)
    BY <1>0, <1>1, <1>2, <2>1, <2>2, PutHeard
  <2> QED BY <2>3 DEF l
<1>5. \A o \in Origins : missed[o] => missed'[o]
  BY <1>0, <1>1, <1>2, PutCases
<1>6. RepeatSent'
  BY <1>0, <1>2, <1>5 DEF RepeatSent, KnownPress, Waiting, Sendable
<1>7. RepeatsTheLastPress'
  BY <1>0, <1>2, <1>5 DEF RepeatsTheLastPress
<1> QED BY <1>3, <1>4, <1>6, <1>7

LEMMA RepeatInit == KeysInit => RepeatInv
<1> SUFFICES ASSUME KeysInit
             PROVE  RepeatsQueued /\ KeysHeard /\ RepeatSent /\ RepeatsTheLastPress
  BY BasicsInit DEF RepeatInv
<1>1. Len(queue) = 0 /\ snd.count = 0
  BY DEF KeysInit
<1>2. \A p \in Panels : dec[p].cmd.key = NoKey
  BY DEF KeysInit, Nothing
<1>3. \A o \in Origins : repeated[o] = NoKey
  BY DEF KeysInit
<1> QED BY <1>1, <1>2, <1>3, KeysAssumption
        DEF RepeatsQueued, KeysHeard, RepeatSent, RepeatsTheLastPress

LEMMA RepeatKept ==
  ASSUME RepeatInv, [KeysNext]_keyVars
  PROVE  RepeatInv'
<1> DEFINE Rest == RepeatsQueued /\ KeysHeard /\ RepeatSent /\ RepeatsTheLastPress
<1>0. Rest /\ Basics /\ KeysTyped /\ Waiting
  BY DEF RepeatInv, Basics
<1>1. Basics'
  BY <1>0, BasicsKept
<1> SUFFICES Rest'
  BY <1>1 DEF RepeatInv
<1>2. CASE UNCHANGED <<queue, missed, pressed, repeated, snd, dec>>
  BY <1>0, <1>2 DEF RepeatsQueued, KeysHeard, RepeatSent, RepeatsTheLastPress, KnownPress
<1>3. CASE TakeCode
  BY <1>3, TakeRepeats
<1>4. CASE FakeRepeat
  <2>1. /\ UNCHANGED <<dec, queue, missed>> /\ snd.count > 0 /\ snd'.cmd = snd.cmd
        /\ sendInputEvent(snd.cmd, snd.count) /\ Sendable(snd.cmd)
    BY <1>0, <1>4, FakeCases DEF Waiting
  <2>2. snd.count # 0
    BY <2>1
  <2>3. /\ UNCHANGED pressed
        /\ \/ UNCHANGED repeated
           \/ /\ snd.cmd.key \in Repeated
              /\ repeated' = [repeated EXCEPT ![snd.cmd.from] = snd.cmd.key]
    BY <1>0, <2>1, <2>2, EventCases
  <2>4. RepeatsQueued' /\ KeysHeard' /\ RepeatSent'
    BY <1>0, <2>1, <2>3 DEF RepeatsQueued, KeysHeard, RepeatSent, KnownPress
  <2>5. snd.cmd.key \in Repeated => KnownPress(snd.cmd.from, snd.cmd.key)
    BY <1>0, <2>1 DEF RepeatSent
  <2>6. RepeatsTheLastPress'
    BY <1>0, <2>1, <2>3, <2>5 DEF RepeatsTheLastPress, KnownPress, KeysTyped
  <2> QED BY <2>4, <2>6
<1>5. ASSUME NEW p \in Panels, Tick(p) PROVE Rest'
  <2>1. UNCHANGED <<queue, missed, pressed, repeated, snd>>
    BY <1>5 DEF Tick, outVars
  <2>2. \A q \in Panels : dec'[q].cmd = dec[q].cmd
    BY <1>0, <1>5, TickCases
  <2> QED BY <1>0, <2>1, <2>2
          DEF RepeatsQueued, KeysHeard, RepeatSent, RepeatsTheLastPress, KnownPress
<1>6. CASE WindowOver \/ Pause
  <2>1. UNCHANGED <<queue, missed, pressed, repeated, dec>>
    BY <1>6 DEF WindowOver, Pause, outVars
  <2>2. snd'.cmd = snd.cmd /\ snd'.count = snd.count
    BY <1>0, <1>6 DEF WindowOver, Pause, KeysTyped, Sender
  <2> QED BY <1>0, <2>1, <2>2
          DEF RepeatsQueued, KeysHeard, RepeatSent, RepeatsTheLastPress, KnownPress
<1>7. ASSUME NEW k \in Remote \cup Buttons, Press(k)
      PROVE  UNCHANGED <<queue, missed, pressed, repeated, snd, dec>>
  BY <1>7 DEF Press, outVars
<1>8. CASE Signal \/ ReleaseKey \/ UNCHANGED keyVars
  BY <1>2, <1>8 DEF Signal, ReleaseKey, keyVars, outVars
<1> QED BY <1>2, <1>3, <1>4, <1>5, <1>6, <1>7, <1>8, PanelRepeats, ExternalRepeats
        DEF KeysNext, User, KeyThreads, KeyClock

(* What is repeated at a panel is the key that was pressed last there, for *)
(* any keys, panels and lengths of the queue.                              *)
THEOREM RepeatsAreOfTheLastPress == KeysSpec => []RepeatsTheLastPress
<1>1. RepeatInv /\ [KeysNext]_keyVars => RepeatInv'
  BY RepeatKept
<1>2. RepeatInv => RepeatsTheLastPress
  BY DEF RepeatInv
<1> QED BY <1>1, <1>2, RepeatInit, PTL DEF KeysSpec

-----------------------------------------------------------------------------
(* What is pressed, where one panel p hears it.                            *)

(* A command that starts the count anew wherever it is.                    *)
FirstPacket(c) == c.key \in Remote /\ ~c.repeat

(* Nothing more can come of press n.                                       *)
Over(p, n) == ~(held.press = n /\ held.key # NoKey) /\ air[p].press # n

(* The presses come one after the other, from the user to the queue.       *)
PressesInOrder(p) ==
  /\ held.key # NoKey => held.press > 0
  /\ dec[p].cmd.press <= held.press
  /\ dec[p].state # "idle" => dec[p].cmd.press > 0
  /\ held.key # NoKey /\ dec[p].cmd.press = held.press =>
       held.key = dec[p].cmd.key /\ held.n > 0
  /\ air[p] # Nothing =>
       /\ air[p].press = held.press /\ held.press > 0
       /\ held.key # NoKey => air[p].key = held.key /\ held.n > 0
       /\ dec[p].cmd.press = held.press =>
            air[p].key = dec[p].cmd.key /\ air[p].repeat
  /\ \A i \in 1..Len(queue) : queue[i].press <= dec[p].cmd.press
  /\ \A n \in Presses : events[n] > 0 => n <= dec[p].cmd.press

(* How far press n is: not yet decided, in the queue or an event.          *)
PressOnce(p, n) ==
  /\ \A i, j \in 1..Len(queue) :
       i < j /\ queue[i].press = n /\ queue[j].press = n => ~FirstPacket(queue[j])
  /\ events[n] > 0 =>
       \A i \in 1..Len(queue) : queue[i].press = n => ~FirstPacket(queue[i])
  /\ snd.gap /\ events[n] > 0 =>
       /\ \A i \in 1..Len(queue) : queue[i].press # n
       /\ n = dec[p].cmd.press /\ dec[p].cmd.key \notin Shifted => Over(p, n)
  /\ dec[p].state = "wait" /\ n = dec[p].cmd.press =>
       events[n] = 0 /\ \A i \in 1..Len(queue) : queue[i].press # n
  /\ dec[p].state = "idle" /\ n = dec[p].cmd.press /\ dec[p].cmd.key \in Shifted =>
       Over(p, n)
  /\ events[n] <= 1

PressInv(p) ==
  /\ Basics /\ PressesInOrder(p)
  /\ ~faded => \A n \in Presses \ crossed : PressOnce(p, n)

(* The numbers.                                                            *)
LEMMA PressNumbers ==
  ASSUME KeysTyped, NEW p \in Panels
  PROVE  /\ held.press \in Nat /\ held.n \in Nat /\ MaxPresses \in Nat
         /\ dec[p].cmd.press \in Nat /\ dec[p].cmd \in Cmds
         /\ air[p].press \in Nat /\ air[p] \in Cmds
         /\ Len(queue) \in Nat
         /\ \A i \in 1..Len(queue) : queue[i] \in Cmds /\ queue[i].press \in Nat
         /\ \A n \in Presses : n \in Nat /\ n > 0 /\ events[n] \in Nat
         /\ Nothing.press = 0
<1>1. /\ held \in [key : AllKeys, press : 0..MaxPresses, n : 0..MaxSignals]
      /\ air \in [Panels -> Cmds] /\ dec \in [Panels -> KeyDecoder]
      /\ queue \in Seq(Cmds) /\ events \in [Presses -> Nat]
  BY DEF KeysTyped
<1>2. MaxPresses \in Nat /\ MaxSignals \in Nat
  BY KeysAssumption
<1>3. held.press \in Nat /\ held.n \in Nat
  <2>1. held.press \in 0..MaxPresses /\ held.n \in 0..MaxSignals
    BY <1>1
  <2> QED BY <1>2, <2>1
<1>4. \A c \in Cmds : c.press \in Nat
  <2>1. \A c \in Cmds : c.press \in 0..MaxPresses
    BY DEF Cmds
  <2> QED BY <1>2, <2>1
<1>5. dec[p].cmd \in Cmds /\ air[p] \in Cmds
  BY <1>1 DEF KeyDecoder
<1>6. Len(queue) \in Nat /\ \A i \in 1..Len(queue) : queue[i] \in Cmds
  BY <1>1
<1>7. \A n \in Presses : n \in Nat /\ n > 0 /\ events[n] \in Nat
  BY <1>1, <1>2 DEF Presses
<1> QED BY <1>2, <1>3, <1>4, <1>5, <1>6, <1>7, NothingType

(* Where each command of the queue was before a command was put there.     *)
LEMMA PutPlaces ==
  ASSUME KeysTyped, NEW c \in Cmds, put_code(c)
  PROVE  \A i \in 1..Len(queue') :
           \/ i \in 1..Len(queue) /\ queue'[i] = queue[i]
           \/ i = Len(queue) + 1 /\ queue'[i] = c
BY PutCases

(* The same, when one was taken.                                           *)
LEMMA TakePlaces ==
  ASSUME KeysTyped, queue # << >>, queue' = Tail(queue)
  PROVE  /\ 1 \in 1..Len(queue)
         /\ \A i \in 1..Len(queue') :
              i \in Nat /\ i > 0 /\ i + 1 \in 1..Len(queue) /\ queue'[i] = queue[i + 1]
BY TakeCases

(* A press that is not the last that the panel has handled is new.         *)
LEMMA NewPress ==
  ASSUME KeysTyped, NEW p \in Panels, PressesInOrder(p), air[p] # Nothing,
         NEW n \in Presses, n = air[p].press, n # dec[p].cmd.press
  PROVE  events[n] = 0 /\ \A i \in 1..Len(queue) : queue[i].press # n
<1>1. n > dec[p].cmd.press
  BY PressNumbers DEF PressesInOrder
<1> QED BY <1>1, PressNumbers DEF PressesInOrder

(* What the sender makes of the presses.                                   *)
LEMMA TakeEvents ==
  ASSUME Basics, TakeCode
  PROVE  /\ queue # << >> /\ queue' = Tail(queue) /\ UNCHANGED <<held, air, dec, crossed, faded>>
         /\ snd'.gap => snd.gap
         /\ \/ UNCHANGED events
            \/ /\ snd.gap \/ FirstPacket(queue[1])
               /\ ~snd'.gap
               /\ events' = [m \in Presses |->
                               events[m] + IF m = queue[1].press THEN 1 ELSE 0]
<1>0. KeysTyped /\ OnTheWay /\ Waiting
  BY DEF Basics
<1>1. /\ queue # << >> /\ queue' = Tail(queue) /\ Sendable(queue[1])
      /\ UNCHANGED <<held, air, dec, crossed, faded>>
  BY <1>0, TakenCases
<1>2. CASE UNCHANGED <<snd, pressed, repeated, events>>
  BY <1>1, <1>2
<1>3. CASE sendInputEvent(queue[1], Count(queue[1])) /\ ~snd'.gap
  <2>1. CASE Count(queue[1]) = 0
    <3>1. snd.gap \/ FirstPacket(queue[1])
      <4>1. ~snd.gap => snd.count # 0
        BY <1>0 DEF Waiting
      <4> QED BY <2>1, <4>1 DEF Count, FirstPacket
    <3> QED BY <1>0, <1>1, <1>3, <2>1, <3>1, EventCases
  <2>2. CASE Count(queue[1]) # 0
    BY <1>0, <1>1, <1>3, <2>2, EventCases
  <2> QED BY <2>1, <2>2
<1> QED BY <1>0, <1>2, <1>3, TakenCases

(* The presses stay in order: the user and the network.                    *)
LEMMA OrderUser ==
  ASSUME Basics, NEW p, Panels = {p}, PressesInOrder(p), User
  PROVE  PressesInOrder(p)'
<1>0. KeysTyped /\ OnTheWay /\ Waiting /\ p \in Panels
  BY DEF Basics
<1>1. ASSUME NEW k \in Remote \cup Buttons, Press(k) PROVE PressesInOrder(p)'
  <2>1. /\ air[p] = Nothing /\ held' = [key |-> k, press |-> held.press + 1, n |-> 0]
        /\ UNCHANGED <<air, dec, queue, events>>
    BY <1>0, <1>1 DEF Press, outVars
  <2>2. held'.press = held.press + 1
    BY <2>1
  <2>3. held'.press > 0 /\ dec[p].cmd.press < held'.press
    BY <1>0, <2>2, PressNumbers DEF PressesInOrder
  <2>4. dec[p].cmd.press <= held'.press /\ dec[p].cmd.press # held'.press
    BY <1>0, <2>2, <2>3, PressNumbers
  <2> QED BY <2>1, <2>3, <2>4 DEF PressesInOrder
<1>2. CASE Signal
  <2>1. UNCHANGED <<dec, queue, events>>
    BY <1>2 DEF Signal, outVars
  <2>2. /\ held.key # NoKey /\ held'.n = held.n + 1 /\ held'.n > 0
        /\ held'.key = held.key /\ held'.press = held.press
        /\ air'[p] # Nothing => /\ air'[p].key = held.key /\ air'[p].press = held.press
                                /\ air'[p].repeat <=> held.n > 0
    BY <1>0, <1>2, SignalCases, PressNumbers
  <2> QED BY <1>0, <2>1, <2>2 DEF PressesInOrder
<1>3. CASE ReleaseKey
  <2>1. UNCHANGED <<air, dec, queue, events>> /\ held' = [held EXCEPT !.key = NoKey]
    BY <1>3 DEF ReleaseKey, outVars
  <2>2. held'.key = NoKey /\ held'.press = held.press
    BY <1>0, <2>1 DEF KeysTyped
  <2> QED BY <2>1, <2>2 DEF PressesInOrder
<1>4. ASSUME NEW k \in Remote, ExternalKey(k) PROVE PressesInOrder(p)'
  <2> DEFINE c == [Nothing EXCEPT !.key = k, !.from = "udp"]
  <2>1. c \in Cmds /\ c.press = 0
    BY NothingType DEF Cmds, AllKeys, Origins
  <2>2. put_code(c) /\ UNCHANGED <<held, air, dec, events>>
    BY <1>4 DEF ExternalKey
  <2> HIDE DEF c
  <2>3. \A i \in 1..Len(queue') : queue'[i].press <= dec[p].cmd.press
    BY <1>0, <2>1, <2>2, PutPlaces, PressNumbers DEF PressesInOrder
  <2> QED BY <2>2, <2>3 DEF PressesInOrder
<1> QED BY <1>1, <1>2, <1>3, <1>4 DEF User

(* The panel.                                                              *)
LEMMA OrderPanel ==
  ASSUME Basics, NEW p, Panels = {p}, PressesInOrder(p), PanelThread(p)
  PROVE  PressesInOrder(p)'
<1>0. KeysTyped /\ OnTheWay /\ Waiting /\ p \in Panels
  BY DEF Basics
<1>1. UNCHANGED <<held, events>>
  BY DEF PanelThread, HandlePacket, Silence
<1>2. CASE HandlePacket(p)
  <2>1. air[p] # Nothing /\ dec'[p].cmd = air[p] /\ air'[p] = Nothing
    BY <1>0, <1>2, PacketCases DEF KeysTyped
  <2>2. /\ air[p].press = held.press /\ held.press > 0
        /\ held.key # NoKey => air[p].key = held.key /\ held.n > 0
    BY <2>1 DEF PressesInOrder
  <2>3. \A i \in 1..Len(queue') : queue'[i].press <= air[p].press
    <3>1. \A i \in 1..Len(queue) : queue[i].press <= air[p].press
      BY <1>0, <2>2, PressNumbers DEF PressesInOrder
    <3>2. CASE UNCHANGED queue
      BY <3>1, <3>2
    <3>3. ASSUME NEW e \in Cmds, put_code(e), Like(e, air[p])
          PROVE  \A i \in 1..Len(queue') : queue'[i].press <= air[p].press
      BY <1>0, <3>1, <3>3, PutPlaces, PressNumbers DEF Like
    <3> QED BY <1>0, <1>2, <3>2, <3>3, PacketCases
  <2>4. \A n \in Presses : events[n] > 0 => n <= air[p].press
    BY <1>0, <2>2, PressNumbers DEF PressesInOrder
  <2>5. air[p].press <= held.press /\ air[p].press > 0
    BY <1>0, <2>2, PressNumbers
  <2> QED BY <1>1, <2>1, <2>2, <2>3, <2>4, <2>5 DEF PressesInOrder
<1>3. CASE Silence(p)
  <2>1. dec'[p].cmd = dec[p].cmd /\ dec'[p].state = "idle" /\ UNCHANGED air
    BY <1>0, <1>3, SilenceCases DEF Silence
  <2>2. \A i \in 1..Len(queue') : queue'[i].press <= dec[p].cmd.press
    BY <1>0, <1>3, SilenceCases, PutPlaces, PressNumbers DEF PressesInOrder
  <2> QED BY <1>1, <2>1, <2>2 DEF PressesInOrder
<1> QED BY <1>2, <1>3 DEF PanelThread

(* Every step.                                                             *)
LEMMA OrderKept ==
  ASSUME Basics, NEW p, Panels = {p}, PressesInOrder(p), [KeysNext]_keyVars
  PROVE  PressesInOrder(p)'
<1>0. KeysTyped /\ OnTheWay /\ Waiting /\ p \in Panels
  BY DEF Basics
<1>1. CASE TakeCode
  <2>1. UNCHANGED <<held, air, dec>> /\ queue # << >> /\ queue' = Tail(queue)
    BY <1>1, TakeEvents
  <2>2. \A i \in 1..Len(queue') : queue'[i].press <= dec[p].cmd.press
    BY <1>0, <2>1, TakePlaces DEF PressesInOrder
  <2>3. \A n \in Presses : events'[n] > 0 => n <= dec[p].cmd.press
    <3>1. queue[1].press <= dec[p].cmd.press
      BY <1>0, <2>1, TakePlaces DEF PressesInOrder
    <3>2. CASE UNCHANGED events
      BY <3>2 DEF PressesInOrder
    <3>3. CASE events' = [m \in Presses |->
                            events[m] + IF m = queue[1].press THEN 1 ELSE 0]
      <4>1. \A n \in Presses : n = queue[1].press \/ events'[n] = events[n]
        BY <1>0, <3>3, PressNumbers
      <4> QED BY <3>1, <4>1 DEF PressesInOrder
    <3> QED BY <1>1, <3>2, <3>3, TakeEvents
  <2> QED BY <2>1, <2>2, <2>3 DEF PressesInOrder
<1>2. CASE FakeRepeat
  <2>1. /\ UNCHANGED <<held, air, dec, queue>> /\ snd.count > 0
        /\ sendInputEvent(snd.cmd, snd.count)
    BY <1>0, <1>2, FakeCases
  <2>2. UNCHANGED events
    BY <1>0, <2>1, EventCases DEF Waiting
  <2> QED BY <2>1, <2>2 DEF PressesInOrder
<1>3. CASE Tick(p)
  <2>1. UNCHANGED <<held, air, queue, events>>
    BY <1>3 DEF Tick, outVars
  <2>2. dec'[p].cmd = dec[p].cmd /\ dec'[p].state = dec[p].state
    BY <1>0, <1>3, TickCases
  <2> QED BY <2>1, <2>2 DEF PressesInOrder
<1>4. CASE UNCHANGED <<held, air, dec, queue, events>>
  BY <1>4 DEF PressesInOrder
<1>5. CASE WindowOver \/ Pause \/ UNCHANGED keyVars
  BY <1>4, <1>5 DEF WindowOver, Pause, keyVars, outVars
<1> QED BY <1>1, <1>2, <1>3, <1>5, OrderUser, OrderPanel
        DEF KeysNext, KeyThreads, KeyClock

(* A packet, where the panel has never heard of the press or knows it.     *)
LEMMA PacketOnce ==
  ASSUME Basics, NEW p, Panels = {p}, PressesInOrder(p), HandlePacket(p),
         NEW n \in Presses \ crossed', PressOnce(p, n)
  PROVE  PressOnce(p, n)'
<1>0. KeysTyped /\ OnTheWay /\ Waiting /\ p \in Panels
  BY DEF Basics
<1> DEFINE c == air[p]
           d == dec[p]
<1>1. /\ c \in Cmds /\ c # Nothing /\ dec'[p].cmd = c /\ air'[p] = Nothing
      /\ UNCHANGED <<held, events, snd>>
  BY <1>0, PacketCases DEF HandlePacket, KeysTyped
<1>2. /\ c.press = held.press
      /\ c.press = d.cmd.press => c.key = d.cmd.key /\ c.repeat
  BY <1>1 DEF PressesInOrder
<1>3. c.press = n /\ n # d.cmd.press =>
        events[n] = 0 /\ \A i \in 1..Len(queue) : queue[i].press # n
  BY <1>0, <1>1, NewPress
<1>4. n \in Nat /\ n > 0 /\ events[n] \in Nat /\ Len(queue) \in Nat
      /\ \A i \in 1..Len(queue) : i \in Nat
  BY <1>0, PressNumbers
<1>5. ASSUME d.state = "idle", c.key \notin Shifted, dec'[p].state = "idle",
             NEW e \in Cmds, put_code(e), Like(e, c),
             e.repeat <=> c.repeat /\ c.key = d.cmd.key
      PROVE  PressOnce(p, n)'
  <2>1. e.press = c.press /\ e.key = c.key
    BY <1>5 DEF Like
  <2>2. \A i \in 1..Len(queue') : \/ i \in 1..Len(queue) /\ queue'[i] = queue[i]
                                  \/ i = Len(queue) + 1 /\ queue'[i] = e
    BY <1>0, <1>5, PutPlaces
  <2>3. c.press = n /\ n = d.cmd.press => ~FirstPacket(e)
    BY <1>2, <1>5 DEF FirstPacket
  <2>4. snd.gap /\ events[n] > 0 => c.press # n
    BY <1>2, <1>3, <1>4, <1>5 DEF PressOnce, Over
  <2>5. \A i, j \in 1..Len(queue') :
          i < j /\ queue'[i].press = n /\ queue'[j].press = n => ~FirstPacket(queue'[j])
    <3> SUFFICES ASSUME NEW i \in 1..Len(queue'), NEW j \in 1..Len(queue'), i < j,
                        queue'[i].press = n, queue'[j].press = n
                 PROVE  ~FirstPacket(queue'[j])
      OBVIOUS
    <3>1. i \in 1..Len(queue) /\ queue'[i] = queue[i]
      BY <1>4, <2>2
    <3>2. CASE j \in 1..Len(queue) /\ queue'[j] = queue[j]
      BY <3>1, <3>2 DEF PressOnce
    <3>3. CASE j = Len(queue) + 1 /\ queue'[j] = e
      BY <1>3, <2>1, <2>3, <3>1, <3>3
    <3> QED BY <2>2, <3>2, <3>3
  <2>6. events[n] > 0 => \A i \in 1..Len(queue') : queue'[i].press = n => ~FirstPacket(queue'[i])
    BY <1>3, <1>4, <2>1, <2>2, <2>3 DEF PressOnce
  <2>7. snd.gap /\ events[n] > 0 => \A i \in 1..Len(queue') : queue'[i].press # n
    BY <2>1, <2>2, <2>4 DEF PressOnce
  <2>8. events[n] <= 1
    BY DEF PressOnce
  <2> QED BY <1>1, <1>5, <2>4, <2>5, <2>6, <2>7, <2>8 DEF PressOnce
<1>6. ASSUME d.state = "idle", c.key \in Shifted, dec'[p].state = "wait", UNCHANGED queue
      PROVE  PressOnce(p, n)'
  <2>1. c.press = n => events[n] = 0 /\ \A i \in 1..Len(queue) : queue[i].press # n
    BY <1>2, <1>3, <1>6 DEF PressOnce, Over
  <2> QED BY <1>1, <1>6, <2>1 DEF PressOnce
<1>7. ASSUME c.press = n => events[n] = 0 /\ \A i \in 1..Len(queue) : queue[i].press # n,
             NEW e \in Cmds, put_code(e), Like(e, c),
             dec'[p].state # "wait",
             dec'[p].state = "idle" /\ c.key \in Shifted => c.press # n
      PROVE  PressOnce(p, n)'
  <2>1. e.press = c.press
    BY <1>7 DEF Like
  <2>2. \A i \in 1..Len(queue') : \/ i \in 1..Len(queue) /\ queue'[i] = queue[i]
                                  \/ i = Len(queue) + 1 /\ queue'[i] = e
    BY <1>0, <1>7, PutPlaces
  <2>3. \A i, j \in 1..Len(queue') :
          i < j /\ queue'[i].press = n /\ queue'[j].press = n => ~FirstPacket(queue'[j])
    <3> SUFFICES ASSUME NEW i \in 1..Len(queue'), NEW j \in 1..Len(queue'), i < j,
                        queue'[i].press = n, queue'[j].press = n
                 PROVE  ~FirstPacket(queue'[j])
      OBVIOUS
    <3>1. i \in 1..Len(queue) /\ queue'[i] = queue[i]
      BY <1>4, <2>2
    <3>2. CASE j \in 1..Len(queue) /\ queue'[j] = queue[j]
      BY <3>1, <3>2 DEF PressOnce
    <3>3. CASE j = Len(queue) + 1 /\ queue'[j] = e
      BY <1>7, <2>1, <3>1, <3>3
    <3> QED BY <2>2, <3>2, <3>3
  <2>4. events[n] > 0 => c.press # n
    BY <1>4, <1>7
  <2>5. events[n] > 0 => \A i \in 1..Len(queue') : queue'[i].press = n => ~FirstPacket(queue'[i])
    BY <2>1, <2>2, <2>4 DEF PressOnce
  <2>6. snd.gap /\ events[n] > 0 => \A i \in 1..Len(queue') : queue'[i].press # n
    BY <2>1, <2>2, <2>4 DEF PressOnce
  <2>7. events[n] <= 1
    BY DEF PressOnce
  <2> QED BY <1>1, <1>7, <2>3, <2>4, <2>5, <2>6, <2>7 DEF PressOnce
<1>8. ASSUME d.state = "wait", dec'[p].state = "release",
             NEW e \in Cmds, put_code(e), Like(e, c)
      PROVE  PressOnce(p, n)'
  <2>1. c.press = n => events[n] = 0 /\ \A i \in 1..Len(queue) : queue[i].press # n
    BY <1>3, <1>8 DEF PressOnce
  <2> QED BY <1>7, <1>8, <2>1
<1>9. ASSUME d.state \in {"wait", "release"}, c.key = d.cmd.key, dec'[p].state = d.state,
             UNCHANGED queue
      PROVE  PressOnce(p, n)'
  <2>1. c.key \in Shifted
    BY <1>0, <1>9 DEF Waiting
  <2>2. d.state = "wait" /\ c.press = n =>
          events[n] = 0 /\ \A i \in 1..Len(queue) : queue[i].press # n
    BY <1>3 DEF PressOnce
  <2> QED BY <1>1, <1>9, <2>1, <2>2 DEF PressOnce
<1>10. ASSUME c.key # d.cmd.key, dec'[p].state = "idle",
              c.key \in Shifted => c.press \in crossed',
              NEW e \in Cmds, put_code(e), Like(e, c)
       PROVE  PressOnce(p, n)'
  <2>1. c.press # d.cmd.press
    BY <1>2, <1>10
  <2>2. c.key \in Shifted => c.press # n
    BY <1>10
  <2> QED BY <1>3, <1>7, <1>10, <2>1, <2>2
<1> QED BY <1>0, <1>5, <1>6, <1>8, <1>9, <1>10, PacketCases

(* A silence in the middle of a press counts as a gap in the reception.    *)
LEMMA SilenceOnce ==
  ASSUME Basics, NEW p, Panels = {p}, PressesInOrder(p), Silence(p), ~faded',
         NEW n \in Presses, PressOnce(p, n)
  PROVE  PressOnce(p, n)'
<1>0. KeysTyped /\ OnTheWay /\ Waiting /\ p \in Panels
  BY DEF Basics
<1> DEFINE c == dec[p].cmd
<1>1. /\ air[p] = Nothing /\ dec'[p].cmd = c /\ dec'[p].state = "idle" /\ c \in Cmds
      /\ UNCHANGED <<held, air, events, snd>>
      /\ held.key = NoKey \/ c.press # held.press
  BY <1>0, SilenceCases DEF Silence
<1>2. n \in Nat /\ n > 0 /\ events[n] \in Nat /\ Len(queue) \in Nat
      /\ \A i \in 1..Len(queue) : i \in Nat
  BY <1>0, PressNumbers
<1>3. n = c.press => Over(p, n)
  BY <1>0, <1>1, <1>2, PressNumbers DEF Over
<1>4. Over(p, n)' = Over(p, n)
  BY <1>1 DEF Over
<1>5. CASE UNCHANGED queue
  BY <1>1, <1>3, <1>4, <1>5 DEF PressOnce
<1>6. CASE dec[p].state = "wait" /\ put_code(c)
  <2>1. c.press = n => events[n] = 0 /\ \A i \in 1..Len(queue) : queue[i].press # n
    BY <1>6 DEF PressOnce
  <2>2. \A i \in 1..Len(queue') : \/ i \in 1..Len(queue) /\ queue'[i] = queue[i]
                                  \/ i = Len(queue) + 1 /\ queue'[i] = c
    BY <1>0, <1>1, <1>6, PutPlaces
  <2>3. \A i, j \in 1..Len(queue') :
          i < j /\ queue'[i].press = n /\ queue'[j].press = n => ~FirstPacket(queue'[j])
    <3> SUFFICES ASSUME NEW i \in 1..Len(queue'), NEW j \in 1..Len(queue'), i < j,
                        queue'[i].press = n, queue'[j].press = n
                 PROVE  ~FirstPacket(queue'[j])
      OBVIOUS
    <3>1. i \in 1..Len(queue) /\ queue'[i] = queue[i]
      BY <1>2, <2>2
    <3>2. CASE j \in 1..Len(queue) /\ queue'[j] = queue[j]
      BY <3>1, <3>2 DEF PressOnce
    <3>3. CASE j = Len(queue) + 1 /\ queue'[j] = c
      BY <2>1, <3>1, <3>3
    <3> QED BY <2>2, <3>2, <3>3
  <2>4. events[n] > 0 => c.press # n
    BY <1>2, <2>1
  <2>5. events[n] > 0 => \A i \in 1..Len(queue') : queue'[i].press = n => ~FirstPacket(queue'[i])
    BY <2>2, <2>4 DEF PressOnce
  <2>6. snd.gap /\ events[n] > 0 => \A i \in 1..Len(queue') : queue'[i].press # n
    BY <2>2, <2>4 DEF PressOnce
  <2>7. events[n] <= 1
    BY DEF PressOnce
  <2> QED BY <1>1, <1>3, <1>4, <2>3, <2>5, <2>6, <2>7 DEF PressOnce
<1> QED BY <1>0, <1>5, <1>6, SilenceCases

(* The sender: an event is the first of its press.                         *)
LEMMA TakeOnce ==
  ASSUME Basics, NEW p, Panels = {p}, TakeCode, NEW n \in Presses, PressOnce(p, n)
  PROVE  PressOnce(p, n)'
<1>0. KeysTyped /\ p \in Panels
  BY DEF Basics
<1>1. /\ queue # << >> /\ queue' = Tail(queue) /\ UNCHANGED <<held, air, dec>>
      /\ snd'.gap => snd.gap
  BY TakeEvents
<1>2. /\ 1 \in 1..Len(queue)
      /\ \A i \in 1..Len(queue') :
           i \in Nat /\ i > 0 /\ i + 1 \in 1..Len(queue) /\ queue'[i] = queue[i + 1]
  BY <1>0, <1>1, TakePlaces
<1>3. n \in Nat /\ events[n] \in Nat
  BY <1>0, PressNumbers
<1>4. \A i, j \in 1..Len(queue') :
        i < j /\ queue'[i].press = n /\ queue'[j].press = n => ~FirstPacket(queue'[j])
  <2> SUFFICES ASSUME NEW i \in 1..Len(queue'), NEW j \in 1..Len(queue'), i < j,
                      queue'[i].press = n, queue'[j].press = n
               PROVE  ~FirstPacket(queue'[j])
    OBVIOUS
  <2>1. i + 1 < j + 1
    BY <1>2
  <2> QED BY <1>2, <2>1 DEF PressOnce
<1>5. Over(p, n)' = Over(p, n)
  BY <1>1 DEF Over
<1>6. CASE events'[n] = events[n]
  BY <1>1, <1>2, <1>4, <1>5, <1>6 DEF PressOnce
<1>7. CASE /\ queue[1].press = n /\ events'[n] = events[n] + 1
           /\ snd.gap \/ FirstPacket(queue[1])
           /\ ~snd'.gap
  <2>1. events[n] = 0
    BY <1>2, <1>3, <1>7 DEF PressOnce
  <2>2. events'[n] = 1
    BY <1>7, <2>1
  <2>3. \A i \in 1..Len(queue') : queue'[i].press = n => ~FirstPacket(queue'[i])
    <3> SUFFICES ASSUME NEW i \in 1..Len(queue'), queue'[i].press = n
                 PROVE  ~FirstPacket(queue'[i])
      OBVIOUS
    <3>1. 1 < i + 1
      BY <1>2
    <3> QED BY <1>2, <1>7, <3>1 DEF PressOnce
  <2>4. dec[p].state = "wait" => n # dec[p].cmd.press
    BY <1>2, <1>7 DEF PressOnce
  <2>5. events'[n] <= 1
    BY <2>2
  <2> QED BY <1>1, <1>4, <1>5, <1>7, <2>3, <2>4, <2>5 DEF PressOnce
<1>8. \/ events'[n] = events[n]
      \/ /\ queue[1].press = n /\ events'[n] = events[n] + 1
         /\ snd.gap \/ FirstPacket(queue[1])
         /\ ~snd'.gap
  BY <1>3, TakeEvents
<1> QED BY <1>6, <1>7, <1>8

(* A pause in the middle of a press counts as a gap in the reception, but  *)
(* for a key that can be shifted, of which the panel sends one command.    *)
LEMMA PauseOnce ==
  ASSUME Basics, NEW p, Panels = {p}, PressesInOrder(p), Pause, ~faded',
         NEW n \in Presses, PressOnce(p, n)
  PROVE  PressOnce(p, n)'
<1>0. KeysTyped /\ p \in Panels
  BY DEF Basics
<1>1. /\ UNCHANGED <<held, air, dec, queue, events>>
      /\ queue = << >> /\ air[p] = Nothing
      /\ held.key \in Shifted \cup {NoKey}
  BY <1>0 DEF Pause, outVars
<1>2. Len(queue) = 0
  BY <1>1
<1>3. n = dec[p].cmd.press /\ dec[p].cmd.key \notin Shifted => Over(p, n)
  BY <1>0, <1>1, PressNumbers DEF PressesInOrder, Over
<1> QED BY <1>1, <1>2, <1>3 DEF PressOnce, Over

(* A press that is over stays over.                                        *)
LEMMA UserOnce ==
  ASSUME Basics, NEW p, Panels = {p}, PressesInOrder(p), User,
         NEW n \in Presses, PressOnce(p, n)
  PROVE  PressOnce(p, n)'
<1>0. KeysTyped /\ p \in Panels
  BY DEF Basics
<1>1. n \in Nat /\ n > 0 /\ held.press \in Nat /\ dec[p].cmd.press \in Nat
      /\ Nothing.press = 0 /\ Len(queue) \in Nat
      /\ \A i \in 1..Len(queue) : i \in Nat
  BY <1>0, PressNumbers
<1>2. n = dec[p].cmd.press => n <= held.press
  BY DEF PressesInOrder
<1>3. ASSUME UNCHANGED <<dec, queue, events, snd>>,
             n <= held.press /\ Over(p, n) => Over(p, n)'
      PROVE  PressOnce(p, n)'
  BY <1>2, <1>3 DEF PressOnce
<1>4. ASSUME NEW k \in Remote \cup Buttons, Press(k) PROVE PressOnce(p, n)'
  <2>1. /\ held' = [key |-> k, press |-> held.press + 1, n |-> 0]
        /\ UNCHANGED <<air, dec, queue, events, snd>>
    BY <1>4 DEF Press, outVars
  <2>2. held'.press = held.press + 1
    BY <2>1
  <2>3. n <= held.press => held'.press # n
    BY <1>1, <2>2
  <2> QED BY <1>3, <2>1, <2>3 DEF Over
<1>5. CASE Signal
  <2>1. UNCHANGED <<dec, queue, events, snd>>
    BY <1>5 DEF Signal, outVars
  <2>2. /\ held.key # NoKey /\ held'.key = held.key /\ held'.press = held.press
        /\ air'[p] # Nothing => air'[p].press = held.press
    BY <1>0, <1>5, SignalCases
  <2>3. n <= held.press /\ Over(p, n) => Over(p, n)'
    BY <1>1, <2>2 DEF Over
  <2> QED BY <1>3, <2>1, <2>3
<1>6. CASE ReleaseKey
  <2>1. UNCHANGED <<air, dec, queue, events, snd>> /\ held' = [held EXCEPT !.key = NoKey]
    BY <1>6 DEF ReleaseKey, outVars
  <2>2. held'.key = NoKey
    BY <1>0, <2>1 DEF KeysTyped
  <2> QED BY <1>3, <2>1, <2>2 DEF Over
<1>7. ASSUME NEW k \in Remote, ExternalKey(k) PROVE PressOnce(p, n)'
  <2> DEFINE c == [Nothing EXCEPT !.key = k, !.from = "udp"]
  <2>1. c \in Cmds /\ c.press = 0
    BY NothingType DEF Cmds, AllKeys, Origins
  <2>2. put_code(c) /\ UNCHANGED <<held, air, dec, events, snd>>
    BY <1>7 DEF ExternalKey
  <2> HIDE DEF c
  <2>3. \A i \in 1..Len(queue') : queue'[i].press = n =>
          i \in 1..Len(queue) /\ queue'[i] = queue[i]
    BY <1>0, <1>1, <2>1, <2>2, PutPlaces
  <2>4. Over(p, n)' = Over(p, n)
    BY <2>2 DEF Over
  <2> QED BY <2>2, <2>3, <2>4 DEF PressOnce
<1> QED BY <1>4, <1>5, <1>6, <1>7 DEF User

LEMMA PressInit ==
  ASSUME NEW p, Panels = {p}, KeysInit
  PROVE  PressInv(p)
<1>0. Basics /\ KeysTyped /\ p \in Panels
  BY BasicsInit DEF Basics
<1>1. /\ Len(queue) = 0 /\ air[p] = Nothing /\ dec[p].state = "idle"
      /\ dec[p].cmd.press = 0 /\ held.key = NoKey /\ held.press = 0
      /\ \A n \in Presses : events[n] = 0
  BY <1>0 DEF KeysInit, Nothing
<1>2. PressesInOrder(p)
  BY <1>1 DEF PressesInOrder
<1>3. \A n \in Presses : n > 0 /\ n # 0
  BY <1>0, PressNumbers
<1> QED BY <1>0, <1>1, <1>2, <1>3 DEF PressInv, PressOnce

LEMMA PressKept ==
  ASSUME NEW p, Panels = {p}, PressInv(p), [KeysNext]_keyVars
  PROVE  PressInv(p)'
<1>0. Basics /\ KeysTyped /\ PressesInOrder(p) /\ Waiting /\ p \in Panels
  BY DEF PressInv, Basics
<1>1. Basics' /\ PressesInOrder(p)'
  BY <1>0, BasicsKept, OrderKept
<1>2. (faded => faded') /\ crossed \subseteq crossed'
  <2>1. CASE HandlePacket(p)
    BY <2>1 DEF HandlePacket
  <2>2. CASE Silence(p)
    BY <2>2 DEF Silence
  <2>3. CASE Pause
    BY <2>3 DEF Pause
  <2>4. CASE User
    <3>1. ASSUME NEW k \in Remote \cup Buttons, Press(k) PROVE UNCHANGED keyHistory
      BY <3>1 DEF Press
    <3>2. ASSUME NEW k \in Remote, ExternalKey(k) PROVE UNCHANGED keyHistory
      BY <3>2 DEF ExternalKey
    <3>3. CASE Signal \/ ReleaseKey
      BY <3>3 DEF Signal, ReleaseKey, keyHistory
    <3>4. UNCHANGED keyHistory => (faded => faded') /\ crossed \subseteq crossed'
      BY DEF keyHistory
    <3> QED BY <2>4, <3>1, <3>2, <3>3, <3>4 DEF User
  <2>5. CASE TakeCode \/ FakeRepeat \/ WindowOver \/ Tick(p) \/ UNCHANGED keyVars
    BY <2>5 DEF TakeCode, FakeRepeat, WindowOver, Tick, keyVars, keyHistory
  <2> QED BY <2>1, <2>2, <2>3, <2>4, <2>5 DEF KeysNext, KeyThreads, KeyClock, PanelThread
<1> SUFFICES ASSUME ~faded', NEW n \in Presses \ crossed' PROVE PressOnce(p, n)'
  BY <1>1 DEF PressInv
<1>3. PressOnce(p, n)
  BY <1>2 DEF PressInv
<1>4. CASE PanelThread(p)
  BY <1>0, <1>3, <1>4, PacketOnce, SilenceOnce DEF PanelThread
<1>5. CASE User
  BY <1>0, <1>3, <1>5, UserOnce
<1>6. CASE TakeCode
  BY <1>0, <1>3, <1>6, TakeOnce
<1>7. CASE FakeRepeat
  <2>1. /\ UNCHANGED <<held, air, dec, queue>> /\ snd.count > 0
        /\ sendInputEvent(snd.cmd, snd.count) /\ snd'.gap = snd.gap
    BY <1>0, <1>7, FakeCases
  <2>2. UNCHANGED events
    BY <1>0, <2>1, EventCases DEF Waiting
  <2> QED BY <1>3, <2>1, <2>2 DEF PressOnce, Over
<1>8. CASE Tick(p)
  <2>1. UNCHANGED <<held, air, queue, events, snd>>
    BY <1>8 DEF Tick, outVars
  <2>2. dec'[p].cmd = dec[p].cmd /\ dec'[p].state = dec[p].state
    BY <1>0, <1>8, TickCases
  <2> QED BY <1>3, <2>1, <2>2 DEF PressOnce, Over
<1>9. CASE Pause
  BY <1>0, <1>3, <1>9, PauseOnce
<1>10. CASE WindowOver
  <2>1. UNCHANGED <<held, air, dec, queue, events>> /\ snd'.gap = snd.gap
    BY <1>0, <1>10 DEF WindowOver, outVars, KeysTyped, Sender
  <2> QED BY <1>3, <2>1 DEF PressOnce, Over
<1>11. CASE UNCHANGED keyVars
  BY <1>3, <1>11 DEF keyVars, outVars, PressOnce, Over
<1> QED BY <1>4, <1>5, <1>6, <1>7, <1>8, <1>9, <1>10, <1>11
        DEF KeysNext, KeyThreads, KeyClock

(* Where one panel hears the keys, a press is at most one press event: for *)
(* any keys, any number of presses and packets and any length of the queue.*)
THEOREM OneEventOfAPress ==
  ASSUME NEW p, Panels = {p}
  PROVE  KeysSpec => []OnePressEach
<1>1. PressInv(p) /\ [KeysNext]_keyVars => PressInv(p)'
  BY PressKept
<1>2. PressInv(p) => OnePressEach
  BY DEF PressInv, PressOnce, OnePressEach
<1>3. KeysInit => PressInv(p)
  BY PressInit
<1> QED BY <1>1, <1>2, <1>3, PTL DEF KeysSpec

=============================================================================
