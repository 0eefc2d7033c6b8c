-------------------------------- MODULE FpIr --------------------------------
(***************************************************************************)
(* The infrared codes that come from the USB displays (frontpanel_usb.c).  *)
(* A display records the lengths of pulses and gaps of what it hears; one  *)
(* thread asks the displays in turn, tries to find a code of either of two *)
(* kinds in the record, and puts what it found at the end of a pass into a *)
(* ring, from which every pass hands out one code.                         *)
(*                                                                         *)
(* Lengths are in microseconds.  A code is the sequence of its bits, or of *)
(* its groups of four bits; the code uses 23 bits and 8 groups.  What a    *)
(* display does between the two control messages that ask it, or after a   *)
(* failed one, is not under src/: a question is one step here.             *)
(***************************************************************************)
EXTENDS Integers, Sequences

CONSTANTS Receivers,   \* how many displays there are
          OldFirmware, \* the ones that do not tell how long a record is
          BITS,        \* of a Ruwido r-step code: 23
          NIBBLES,     \* of each half of an XMP code: 8
          MAX_CMDS,
          Nibbles,     \* what is sent in XMP codes
          Flaws,       \* the places of lengths that can be heard wrong
          Noises,      \* what may be heard before a code
          MaxFrames    \* bound on the codes that are sent

ASSUME IrAssumption ==
  /\ {Receivers, BITS, NIBBLES, MAX_CMDS} \subseteq Nat \ {0}
  /\ Nibbles \subseteq 0..15 /\ MaxFrames \in Nat
  /\ OldFirmware \subseteq 1..Receivers
  /\ \A n \in Noises : n \in Seq(Nat) /\ Len(n) % 2 = 1
  /\ BITS > 2          \* shorter ones are found in XMP codes

VARIABLES record,   \* what each display has recorded: [us, holds, heard]
          at_ir,    \* the display that the thread asks next
          c1, c2,   \* what it found in this pass
          cmd,      \* the ring between cmd_rp and cmd_wp
          found,    \* history: the codes heard well in this pass
          mistaken, \* history: what was read from a doubtful record
          aired,    \* history: what was sent, one code or two halves of one
          latest,   \* history: the place in it of the last one handed out
          astray,   \* history: another one was handed out
          rest      \* passes until the next code may be sent

irVars ==
  <<record, at_ir, c1, c2, cmd, found, mistaken, aired, latest, astray, rest>>

NoCode == << >>
Silent == [us |-> << >>, holds |-> << >>, heard |-> "not"]

(* The constructor: nothing in the ring.                                   *)
IrInit ==
  /\ record = [d \in 1..Receivers |-> Silent]
  /\ at_ir = 1 /\ c1 = NoCode /\ c2 = NoCode /\ cmd = << >>
  /\ found = << >> /\ mistaken = {}
  /\ aired = << >> /\ latest = 1 /\ astray = FALSE /\ rest = 0

-----------------------------------------------------------------------------
(* The remote controls.  An r-step code is Manchester coded and begins with*)
(* a 1; before it there may be noise and a gap.                            *)
Words == {w \in [1..BITS -> {0, 1}] : w[1] = 1}

Encoded(w) ==
  LET us[n \in 1..BITS] ==
        IF n = 1 THEN <<360>>
        ELSE us[n - 1] \o IF w[n] = w[n - 1] THEN <<360, 360>> ELSE <<720>>
  IN us
Encode(w) ==
  LET all == Encoded(w)[BITS]
  IN IF Len(all) % 2 = 0 THEN Append(all, 360) ELSE all
Noisy(n, w) ==
  IF n = << >> THEN Encode(w) ELSE Append(n, 20000) \o Encode(w)

(* In an XMP code the gaps stand for four bits, with a longer one between  *)
(* the halves; the bits of a half add up to 0.                             *)
Sums(h) == LET s[n \in 0..Len(h)] == IF n = 0 THEN 0 ELSE s[n - 1] + h[n] IN s
Sum(h) == Sums(h)[Len(h)]
Halves == {h \in [1..NIBBLES -> Nibbles] : Sum(h) % 16 = 0}
XmpLen == 4 * NIBBLES + 5

(* The first pulses are too long until the receiver has adjusted itself.   *)
Xmp(h1, h2) ==
  [k \in 1..XmpLen |->
     LET i == (k - 4) \div 2 IN
     CASE k \in {3, 5} -> 330
       [] k % 2 = 1 /\ k \notin {3, 5} -> 210
       [] k % 2 = 0 /\ i \in 0..(NIBBLES - 1) -> 773 + 137 * h1[i + 1]
       [] k % 2 = 0 /\ i > NIBBLES -> 773 + 137 * h2[i - NIBBLES]
       [] k % 2 = 0 /\ i = NIBBLES -> 13000
       [] k = 2 -> 773]

(* A display hears a code, hears it with one length wrong, or not at all;  *)
(* an r-step code oddly, when noise before it is as long as a code, or a   *)
(* short length was heard as a long one or the other way round: it has     *)
(* nothing to tell that by.                                                *)
Wrong(us) == {[us EXCEPT ![k] = 20000] : k \in Flaws \cap DOMAIN us}
             \cup {[us EXCEPT ![k] = @ + 137] : k \in Flaws \cap DOMAIN us}
Flipped(us) == {[us EXCEPT ![k] = IF @ = 360 THEN 720 ELSE 360] :
                  k \in Flaws \cap DOMAIN us}
Heard(us, codes, odd) ==
  {[us |-> us, holds |-> codes, heard |-> IF odd THEN "oddly" ELSE "well"], Silent}
  \cup {[us |-> w, holds |-> codes, heard |-> IF odd THEN "oddly" ELSE "badly"] :
          w \in Wrong(us)}
  \cup {[us |-> w, holds |-> codes, heard |-> "oddly"] :
          w \in IF Len(codes) = 1 THEN Flipped(us) ELSE {}}

Send(us, codes, odd) ==
  /\ rest = 0 /\ rest' = 2 /\ Len(aired) < MaxFrames
  /\ aired' = Append(aired, codes)
  /\ record' \in [1..Receivers -> Heard(us, codes, odd)]
  /\ UNCHANGED <<at_ir, c1, c2, cmd, found, mistaken, latest, astray>>

SendRstep == \E w \in Words, n \in Noises \cup {<< >>} :
               Send(Noisy(n, w), <<w>>, Len(n) >= BITS)
SendXmp == \E h1, h2 \in Halves : Send(Xmp(h1, h2), <<h1, h2>>, FALSE)

-----------------------------------------------------------------------------
Short(us) == us >= 30 /\ us <= 480
Long(us) == us >= 546 /\ us <= 886

(* One length, with the bit it stands for: a pulse has ended (falling) or a*)
(* gap has.  sr are the last three of these bits.                          *)
Reset(s) == [s EXCEPT !.state = 0, !.sr = <<0, 0, 0>>]

Edge(s, falling, rbit) ==
  LET sr == <<s.sr[2], s.sr[3], rbit>>
      moves == IF falling THEN IF s.state = 0 THEN rbit = 0 ELSE rbit # s.lb
                          ELSE s.state > 0 /\ rbit = s.lb
      lb == IF falling THEN 1 ELSE 0
  IN
  IF sr = <<1, 0, 1>> THEN Reset(s)
  ELSE IF moves
  THEN [state |-> s.state + 1, sr |-> sr, lb |-> lb, data |-> Append(s.data, lb)]
  ELSE IF s.state = 0 THEN Reset(s) ELSE [s EXCEPT !.sr = sr]

(* Slip: a length that is neither short nor long is overlooked.            *)
LengthOverlooked(s, falling, us) ==
  IF s.state = BITS THEN s
  ELSE CASE Short(us) -> Edge(s, falling, 0)
         [] Long(us) -> Edge(s, falling, 1)
         [] OTHER -> s

Length(s, falling, us) ==
  IF s.state = BITS THEN s
  ELSE CASE Short(us) -> Edge(s, falling, 0)
         [] Long(us) -> Edge(s, falling, 1)
         [] OTHER -> Reset(s)

(* decode_rstep: the last BITS bits, when there are that many; data is not *)
(* cleared by a reset.                                                     *)
Fresh == [state |-> 0, sr |-> <<0, 0, 0>>, lb |-> 0, data |-> << >>]
Decoder(us) ==
  LET s[n \in 0..Len(us)] ==
        IF n = 0 THEN Fresh ELSE Length(s[n - 1], n % 2 = 1, us[n])
  IN s
decode_rstep(us) ==
  LET end == Decoder(us)[Len(us)]
  IN IF end.state = BITS
     THEN SubSeq(end.data, Len(end.data) - BITS + 1, Len(end.data)) ELSE NoCode

(* "correct AGC distortion"                                                *)
CorrectAGC(us) ==
  LET fifth == (us[5] + 2 * us[7]) \div 3
  IN [us EXCEPT ![5] = fifth, ![3] = (us[3] + 2 * fifth) \div 3]

(* Division as in C.                                                       *)
Quotient(a, b) == IF a < 0 THEN -((-a) \div b) ELSE a \div b
Nibble(us, i) ==
  Quotient((us[3 + 2 * i] \div 2) + us[4 + 2 * i] + (us[5 + 2 * i] \div 2) - 915, 137)

(* A half of decode_xmp: the groups from the first one on, if the sum is 0.*)
Half(us, from) ==
  LET h == [n \in 1..NIBBLES |-> Nibble(us, from + n - 1)]
  IN IF (\A n \in 1..NIBBLES : h[n] \in 0..15) /\ Sum(h) % 16 = 0 THEN h ELSE NoCode

decode_xmp(us) == <<Half(CorrectAGC(us), 0), Half(CorrectAGC(us), NIBBLES + 1)>>

(* What a record that has no code of its kind leaves of c1 and c2.         *)
Else(code, c) == IF code = NoCode THEN c ELSE code

(* What fp_read_ir gets from display d: from an old one always as much as  *)
(* an XMP code has, with zeros for what was not recorded.                  *)
Fixed(us) == [k \in 1..XmpLen |-> IF k \in DOMAIN us THEN us[k] ELSE 0]
AsRead(d, us) == IF d \in OldFirmware THEN Fixed(us) ELSE us

FirstCode(us) ==
  IF decode_rstep(us) # NoCode THEN decode_rstep(us)
  ELSE IF Len(us) = XmpLen THEN decode_xmp(us)[1] ELSE NoCode
SecondCode(us) ==
  IF decode_rstep(us) = NoCode /\ Len(us) = XmpLen THEN decode_xmp(us)[2] ELSE NoCode

(* Another code than the one that was sent may be read: from an odd record,*)
(* from one that an old display has cut off, and from an r-step code with a*)
(* wrong length that is taken for an XMP code.                             *)
CutOff(d, us) == d \in OldFirmware /\ Len(us) > XmpLen
Doubtful(d, r) ==
  \/ r.heard = "oddly"
  \/ r.heard = "well" /\ CutOff(d, r.us)
  \/ r.heard = "badly" /\ Len(r.holds) = 1 /\ Len(AsRead(d, r.us)) = XmpLen

(* fp_read_ir asks a display, which then forgets its record.               *)
Ask_ir ==
  LET r == record[at_ir]
      us == AsRead(at_ir, r.us)
  IN
  /\ at_ir <= Receivers /\ at_ir' = at_ir + 1
  /\ record' = [record EXCEPT ![at_ir] = Silent]
  /\ c1' = Else(FirstCode(us), c1) /\ c2' = Else(SecondCode(us), c2)
  /\ found' = IF r.heard = "well" /\ ~Doubtful(at_ir, r) THEN r.holds ELSE found
  /\ mistaken' = IF Doubtful(at_ir, r)
                 THEN mistaken \cup ({FirstCode(us), SecondCode(us)} \ {NoCode})
                 ELSE mistaken
  /\ UNCHANGED <<cmd, aired, latest, astray, rest>>

(* A code of zeros is no code.  cmd_wp does not look at cmd_rp.            *)
IsCode(c) == \E n \in DOMAIN c : c[n] # 0
Put(q, c) == IF ~IsCode(c) THEN q
             ELSE IF Len(q) = MAX_CMDS - 1 THEN << >> ELSE Append(q, c)

(* The place in aired of a code that is handed out, not before the last.   *)
Place(c) == {k \in latest..Len(aired) : \E n \in DOMAIN aired[k] : aired[k][n] = c}

(* The end of fp_read_ir, and fp_read_msg.                                 *)
EndOfPass ==
  LET q == Put(Put(cmd, c1), c2) IN
  /\ at_ir > Receivers /\ at_ir' = 1
  /\ c1' = NoCode /\ c2' = NoCode /\ found' = << >>
  /\ IF q = << >> THEN cmd' = q /\ UNCHANGED <<latest, astray>>
     ELSE /\ cmd' = Tail(q)
          /\ astray' = (astray \/ (Head(q) \notin mistaken /\ Place(Head(q)) = {}))
          /\ latest' = IF Head(q) \in mistaken \/ Place(Head(q)) = {} THEN latest
                     ELSE CHOOSE k \in Place(Head(q)) : \A j \in Place(Head(q)) : k <= j
  /\ rest' = IF rest > 0 THEN rest - 1 ELSE 0
  /\ UNCHANGED <<record, mistaken, aired>>

IrNext == SendRstep \/ SendXmp \/ Ask_ir \/ EndOfPass

IrSpec == IrInit /\ [][IrNext]_irVars

-----------------------------------------------------------------------------
(* Everything has a value of its type.                                     *)
IrTypeOK ==
  LET codes == [1..BITS -> {0, 1}] \cup [1..NIBBLES -> 0..15] IN
  /\ at_ir \in 1..(Receivers + 1) /\ {c1, c2} \subseteq codes \cup {NoCode}
  /\ mistaken \subseteq codes
  /\ cmd \in Seq(codes) /\ Len(cmd) < MAX_CMDS
  /\ aired \in Seq(Seq(codes)) /\ latest \in 1..(MaxFrames + 1)
  /\ astray \in BOOLEAN /\ rest \in 0..2

(* A display that hears a code well is enough, whatever short noise came   *)
(* before it and whatever another display makes of it; and what is handed  *)
(* out was sent, and not before the last one that was handed out, also when*)
(* the ring was full in between.  Only a doubtful record may have given    *)
(* something else.  With two displays a code may come twice: when it is    *)
(* sent between the questions to one and to the other.                     *)
HeardAsSent ==
  /\ at_ir > Receivers /\ Len(found) > 0 => c1 \in {found[1]} \cup mistaken
  /\ at_ir > Receivers /\ Len(found) > 1 => c2 = found[2]
  /\ ~astray
=============================================================================
