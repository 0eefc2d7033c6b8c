---------------------------- MODULE RbBox_proofs ----------------------------
(***************************************************************************)
(* What reelbox-ctrld does besides the keys.                               *)
(*                                                                         *)
(* The fans, for all that the sensors and the file may say: a hot processor*)
(* gets the full speed of its fan, and the slip of five degrees keeps the  *)
(* fan from being switched on and off all the time.                        *)
(*                                                                         *)
(* The USB displays, for every number of them, of entries of the table and *)
(* of threads: a thread that shows something uses an open display, and the *)
(* refresh closes no display that is still plugged in, unless one before it*)
(* on the bus is in use.                                                   *)
(*                                                                         *)
(* The serial line, for every number of messages of whatever the panel     *)
(* sends: a byte that gets lost where nothing looks like a begin or like an*)
(* answered command costs two messages at most; elsewhere the reader gets  *)
(* all messages from the first one on that it gets right.                  *)
(*                                                                         *)
(* The infrared codes of the displays: what is handed out was sent, unless *)
(* it was read from a record that nothing tells from a good one.           *)
(***************************************************************************)
EXTENDS RbFan, FpUsb, FpSerial, FpIr, WellFoundedInduction, TLAPS

-----------------------------------------------------------------------------
(* The fans: types.                                                        *)

Temps == [Sensors -> 20..95]

FanTypes ==
  /\ mb_type \in MbTypes /\ fan_step \in {"read", "set"}
  /\ temp_avg \in Temps /\ cooled \in Temps
  /\ fan_set \in [Sensors -> Speeds] /\ last_fan \in Speeds

(* The smoothed value stays within what get_temp returns.                  *)
LEMMA SmoothRange ==
  ASSUME FanTypes, NEW n \in Sensors, NEW raw \in Int
  PROVE  Smooth(n, get_temp(raw)) \subseteq 20..95
<1> DEFINE temp == get_temp(raw)
           sum == 2 * temp_avg[n] + temp
<1>1. temp \in 20..95
  BY DEF get_temp, Most, Least
<1>2. temp_avg[n] \in 20..95
  BY DEF FanTypes, Temps
<1> HIDE DEF temp
<1>3. sum \in 60..285
  BY <1>1, <1>2
<1> HIDE DEF sum
<1>4. sum \div 3 \in 20..95 /\ (sum + 2) \div 3 \in 20..95
  BY <1>3
<1> QED BY <1>4 DEF Smooth, sum, temp

LEMMA HystIs == hyst \in {0, 5} /\ (last_fan = FanOff => hyst = 0)
                /\ (mb_type = 0 /\ last_fan # FanOff => hyst = 5)
BY DEF hyst

(* The minimum only makes a fan faster, and is taken itself if at all.     *)
LEMMA AtLeastIs ==
  ASSUME NEW fan \in 0..FanOff, NEW minimum \in Minima
  PROVE  /\ AtLeast(fan, minimum) \in 0..FanOff
         /\ AtLeast(fan, minimum) <= fan
         /\ AtLeast(fan, minimum) \in {fan, minimum}
         /\ AtLeast(fan, minimum) = FanOff => fan = FanOff
BY FanAssumption DEF AtLeast, Least, FanOff, NoFile

LEMMA SpeedsAre == Speeds \subseteq Int /\ FanOff \in Speeds
BY FanAssumption DEF Speeds, FanOff

LEMMA AtLeastOfAny ==
  ASSUME NEW fan \in Speeds, NEW minimum \in Minima
  PROVE  AtLeast(fan, minimum) \in Speeds /\ AtLeast(fan, minimum) <= fan
<1>1. /\ fan \in Int /\ minimum \in Int
      /\ minimum # NoFile => minimum \in 0..FanOff
  BY FanAssumption DEF Speeds, FanOff, NoFile
<1>2. minimum # NoFile => minimum \in Speeds
  BY <1>1 DEF Speeds
<1>3. AtLeast(fan, minimum) = fan
      \/ (minimum # NoFile /\ AtLeast(fan, minimum) = minimum /\ minimum <= fan)
  BY <1>1 DEF AtLeast, Least
<1> QED BY <1>1, <1>2, <1>3

-----------------------------------------------------------------------------
(* What calc_speed makes of a temperature: for NCL2, then for the others.  *)
LEMMA NCL2Range ==
  ASSUME FanTypes, mb_type = 3, NEW t \in 20..95
  PROVE  CpuFanNCL2(t) \in Speeds
<1> DEFINE start == cputrip - hyst
           slope == (t - start) * 208 + 89 - start
<1>1. start \in {63, 68}
  BY HystIs DEF cputrip
<1>2. fan_set["cpu"] \in Speeds
  BY DEF FanTypes, Sensors
<1>3. ASSUME start < t, t <= 90 PROVE slope \div (90 - start) \in Nat
  <2>1. slope \in Nat
    BY <1>1, <1>3
  <2> HIDE DEF slope
  <2>2. CASE start = 63
    BY <2>1, <2>2
  <2>3. CASE start = 68
    BY <2>1, <2>3
  <2> QED BY <1>1, <2>2, <2>3
<1> DEFINE quotient == slope \div (90 - start)
<1>4. start < t /\ t <= 90 => Most(16, 224 - quotient) \in 0..FanOff
  <2>1. ASSUME start < t, t <= 90 PROVE quotient \in Nat
    BY <1>3, <2>1
  <2> HIDE DEF quotient, start
  <2>2. ASSUME quotient \in Nat PROVE Most(16, 224 - quotient) \in 0..FanOff
    BY <2>2 DEF Most, FanOff
  <2> QED BY <2>1, <2>2
<1>5. t > 90 => 1 \in 0..FanOff
  BY DEF FanOff
<1>6. CpuFanNCL2(t) = IF t <= start THEN fan_set["cpu"]
                      ELSE IF t > 90 THEN 1 ELSE Most(16, 224 - quotient)
  BY DEF CpuFanNCL2
<1> HIDE DEF start, quotient
<1>7. start \in Int
  BY <1>1
<1>8. \/ CpuFanNCL2(t) = fan_set["cpu"] \/ CpuFanNCL2(t) \in 0..FanOff
  BY <1>4, <1>5, <1>6, <1>7
<1> QED BY <1>2, <1>8 DEF Speeds

LEMMA NCL2Hot ==
  ASSUME FanTypes, mb_type = 3, NEW t \in 90..95
  PROVE  CpuFanNCL2(t) <= 16
<1>1. CASE hyst = 0
  BY <1>1 DEF CpuFanNCL2, cputrip, Most
<1>2. CASE hyst = 5
  BY <1>2 DEF CpuFanNCL2, cputrip, Most
<1> QED BY <1>1, <1>2, HystIs

LEMMA CpuFanIs ==
  ASSUME FanTypes, mb_type # 3, NEW avg \in Temps
  PROVE  /\ CpuFan(avg) \in 0..FanOff
         /\ avg["cpu"] >= 90 => CpuFan(avg) <= 48
         /\ mb_type = 0 /\ CpuFan(avg) = FanOff
              => avg["board"] <= 45 - hyst /\ avg["cpu"] <= 55 - hyst
         /\ mb_type = 0 /\ CpuFan(avg) # FanOff
              => avg["board"] > 45 - hyst \/ avg["cpu"] > 55 - hyst
<1> DEFINE b == avg["board"]
           c == avg["cpu"]
           idle == CASE mb_type = 1 -> 256 [] mb_type = 2 -> 248 [] OTHER -> FanOff
           fan0 == IF b > mbtrip - hyst THEN 450 - (b - mbtrip) * 20 ELSE idle
           fan1 == IF c > cputrip - hyst
                   THEN 300 - (c - cputrip) * 17 - Most(0, b - mbtrip) * 20 ELSE FanOff
<1>1. b \in 20..95 /\ c \in 20..95
  BY DEF Temps, Sensors
<1>2. mb_type \in {0, 1, 2}
  BY FanAssumption DEF FanTypes
<1>3. /\ mbtrip \in {45, 70} /\ cputrip \in {55, 65} /\ idle \in {248, 256, FanOff}
      /\ mb_type = 0 => mbtrip = 45 /\ cputrip = 55 /\ idle = FanOff
  BY <1>2 DEF mbtrip, cputrip
<1>4. CpuFan(avg) = Most(48, Least(fan0, fan1))
  BY DEF CpuFan
<1> HIDE DEF b, c, idle
<1>5. /\ fan0 \in Int /\ fan0 <= FanOff
      /\ mb_type = 0 => (fan0 = FanOff <=> b <= 45 - hyst)
  BY <1>1, <1>3, HystIs DEF FanOff
<1>6. /\ fan1 \in Int /\ fan1 <= FanOff /\ (c >= 90 => fan1 <= 48)
      /\ mb_type = 0 => (fan1 = FanOff <=> c <= 55 - hyst)
  BY <1>1, <1>3, HystIs DEF FanOff, Most
<1> HIDE DEF fan0, fan1
<1>7. /\ CpuFan(avg) \in 0..FanOff /\ (c >= 90 => CpuFan(avg) <= 48)
      /\ CpuFan(avg) = FanOff <=> fan0 = FanOff /\ fan1 = FanOff
  BY <1>4, <1>5, <1>6 DEF Most, Least, FanOff
<1>8. hyst \in Int
  BY HystIs
<1> QED BY <1>1, <1>5, <1>6, <1>7, <1>8 DEF b, c

LEMMA PsFanRange ==
  ASSUME FanTypes, mb_type # 3, NEW avg \in Temps
  PROVE  PsFan(avg) \in 0..FanOff
<1>1. avg["board"] \in 20..95 /\ avg["cpu"] \in 20..95
  BY DEF Temps, Sensors
<1>2. cputrip \in {55, 65}
  BY FanAssumption DEF FanTypes, cputrip
<1> DEFINE warm == Most(0, (avg["cpu"] - cputrip) * 2)
           half == (Most(0, avg["board"] - 25) * 3 + 1) \div 2
<1>3. warm \in Nat /\ Most(0, avg["board"] - 25) \in Nat
  BY <1>1, <1>2 DEF Most
<1>4. half \in Nat
  BY <1>3
<1>5. PsFan(avg) = Most(64, 128 - warm - half)
  BY DEF PsFan
<1> HIDE DEF warm, half
<1> QED BY <1>3, <1>4, <1>5 DEF Most, FanOff

(* The speeds, for every average and every minimum.                        *)
LEMMA SpeedIs ==
  ASSUME FanTypes, NEW avg \in Temps, NEW min0 \in Minima, NEW min1 \in Minima
  PROVE  LET speed == calc_speed(avg, min0, min1) IN
         /\ speed \in [Sensors -> Speeds]
         /\ avg["cpu"] >= 90 => speed["cpu"] <= 48
         /\ mb_type = 0 /\ speed["cpu"] = FanOff
              => avg["board"] <= 45 - hyst /\ avg["cpu"] <= 55 - hyst
         /\ mb_type = 0 /\ speed["cpu"] # FanOff
              => \/ speed["cpu"] \in Minima
                 \/ avg["board"] > 45 - hyst \/ avg["cpu"] > 55 - hyst
<1>0. avg["cpu"] \in 20..95
  BY DEF Temps, Sensors
<1>1. CASE mb_type = 3
  <2> DEFINE fan == CpuFanNCL2(avg["cpu"])
             speed == [board |-> FanOff, cpu |-> AtLeast(fan, min1)]
  <2>1. fan \in Speeds /\ fan \in Int /\ (avg["cpu"] >= 90 => fan <= 16)
    <3>1. fan \in Speeds /\ (avg["cpu"] >= 90 => fan <= 16)
      BY <1>0, <1>1, NCL2Range, NCL2Hot
    <3> QED BY <3>1, SpeedsAre
  <2>2. calc_speed(avg, min0, min1) = speed
    BY <1>1 DEF calc_speed
  <2> HIDE DEF fan
  <2>3. AtLeast(fan, min1) \in Speeds /\ (avg["cpu"] >= 90 => AtLeast(fan, min1) <= 48)
    <3>1. AtLeast(fan, min1) \in Speeds /\ AtLeast(fan, min1) <= fan
      BY <2>1, AtLeastOfAny
    <3>2. AtLeast(fan, min1) \in Int
      BY <3>1, SpeedsAre
    <3> QED BY <2>1, <3>1, <3>2
  <2>4. FanOff \in Speeds
    BY SpeedsAre
  <2>5. speed \in [Sensors -> Speeds] /\ speed["cpu"] = AtLeast(fan, min1)
    BY <2>3, <2>4 DEF Sensors
  <2> HIDE DEF speed
  <2> QED BY <1>1, <2>2, <2>3, <2>5
<1>2. CASE mb_type # 3
  <2> DEFINE fan == CpuFan(avg)
             ps == AtLeast(PsFan(avg), IF min0 = NoFile THEN MIN_PS_FAN ELSE min0)
             speed == [board |-> ps, cpu |-> AtLeast(fan, min1)]
  <2>1. calc_speed(avg, min0, min1) = speed
    BY <1>2 DEF calc_speed
  <2>2. ps \in 0..FanOff
    BY <1>2, PsFanRange, FanAssumption DEF AtLeast, Least, FanOff, NoFile, MIN_PS_FAN
  <2>3. /\ fan \in 0..FanOff /\ (avg["cpu"] >= 90 => fan <= 48)
        /\ mb_type = 0 /\ fan = FanOff
              => avg["board"] <= 45 - hyst /\ avg["cpu"] <= 55 - hyst
        /\ mb_type = 0 /\ fan # FanOff
              => avg["board"] > 45 - hyst \/ avg["cpu"] > 55 - hyst
    BY <1>2, CpuFanIs
  <2> HIDE DEF fan, ps
  <2>4. /\ AtLeast(fan, min1) \in 0..FanOff /\ AtLeast(fan, min1) <= fan
        /\ AtLeast(fan, min1) \in {fan, min1}
        /\ AtLeast(fan, min1) = FanOff => fan = FanOff
    BY <2>3, AtLeastIs
  <2>5. speed \in [Sensors -> Speeds] /\ speed["cpu"] = AtLeast(fan, min1)
    BY <2>2, <2>4 DEF Sensors, Speeds
  <2> HIDE DEF speed
  <2>6. avg["cpu"] >= 90 => speed["cpu"] <= 48
    <3>1. ASSUME NEW least \in 0..FanOff, least <= fan, fan \in 0..FanOff, fan <= 48
          PROVE  least <= 48
      BY <3>1 DEF FanOff
    <3> QED BY <2>3, <2>4, <2>5, <3>1
  <2> QED BY <2>1, <2>3, <2>4, <2>5, <2>6
<1> QED BY <1>1, <1>2

-----------------------------------------------------------------------------
(* What is about to be set was computed from the temperatures of now, with *)
(* the slip that belongs to the speed of now.                              *)
Computed ==
  fan_step = "set" =>
    /\ temp_avg["cpu"] >= 90 => fan_set["cpu"] <= 48
    /\ mb_type = 0 /\ fan_set["cpu"] = FanOff
         => temp_avg["board"] <= 45 - hyst /\ temp_avg["cpu"] <= 55 - hyst
    /\ mb_type = 0 /\ fan_set["cpu"] # FanOff
         => \/ fan_set["cpu"] \in Minima
            \/ temp_avg["board"] > 45 - hyst \/ temp_avg["cpu"] > 55 - hyst

(* Intel's fan went off below the temperatures at which it goes on.        *)
Slip == mb_type = 0 /\ last_fan = FanOff =>
          cooled["board"] <= 40 /\ cooled["cpu"] <= 50

FanInv == FanTypes /\ Computed /\ Slip

LEMMA FanBegins == FanInit => FanInv
BY FanAssumption DEF FanInit, FanInv, FanTypes, Computed, Slip, Temps, Sensors, FanOff,
   Speeds

LEMMA FanStep ==
  ASSUME FanInv, [FanNext]_fanVars
  PROVE  FanInv'
<1>0. CASE UNCHANGED fanVars
  <2>1. UNCHANGED <<fanVars, hyst>>
    BY <1>0 DEF fanVars, hyst
  <2>2. FanTypes' /\ Slip'
    BY <2>1 DEF fanVars, FanInv, FanTypes, Slip
  <2>3. Computed'
    BY <2>1 DEF fanVars, FanInv, Computed
  <2> QED BY <2>2, <2>3 DEF FanInv
<1>1. CASE ReadTemps
  <2>0. PICK raw \in [board : BoardTemps, cpu : CpuTemps], min0 \in Minima, min1 \in Minima :
          \E b \in Smooth("board", get_temp(raw.board)), c \in Smooth("cpu", get_temp(raw.cpu)) :
            /\ temp_avg' = [board |-> b, cpu |-> c]
            /\ fan_set' = calc_speed([board |-> b, cpu |-> c], min0, min1)
    BY <1>1 DEF ReadTemps
  <2>1. PICK b \in Smooth("board", get_temp(raw.board)), c \in Smooth("cpu", get_temp(raw.cpu)) :
          /\ temp_avg' = [board |-> b, cpu |-> c]
          /\ fan_set' = calc_speed([board |-> b, cpu |-> c], min0, min1)
    BY <2>0
  <2>2. raw.board \in Int /\ raw.cpu \in Int
    <3>1. raw.board \in BoardTemps /\ raw.cpu \in CpuTemps
      BY <2>0
    <3>2. BoardTemps \subseteq Int /\ CpuTemps \subseteq Int
      BY FanAssumption
    <3> QED BY Zenon, <3>1, <3>2
  <2>3. b \in 20..95 /\ c \in 20..95
    BY <2>2, SmoothRange DEF FanInv, Sensors
  <2>4. temp_avg' \in Temps
    BY <2>1, <2>3 DEF Temps, Sensors
  <2>5. UNCHANGED <<mb_type, last_fan, cooled, hyst>> /\ fan_step' = "set"
    BY <1>1 DEF ReadTemps, hyst
  <2>6. fan_set' = calc_speed(temp_avg', min0, min1)
    BY <2>1
  <2>7. /\ fan_set' \in [Sensors -> Speeds] /\ Computed'
    BY <2>4, <2>5, <2>6, SpeedIs DEF FanInv, Computed
  <2> QED BY <2>4, <2>5, <2>7 DEF FanInv, FanTypes, Slip
<1>2. CASE SetFan
  <2>1. /\ fan_step = "set" /\ fan_step' = "read" /\ last_fan' = fan_set["cpu"]
        /\ UNCHANGED <<mb_type, temp_avg, fan_set>>
        /\ cooled' = IF mb_type = 0 /\ last_fan # FanOff /\ last_fan' = FanOff
                     THEN temp_avg ELSE cooled
    BY <1>2 DEF SetFan
  <2>2. FanTypes'
    BY <2>1 DEF FanInv, FanTypes, Sensors
  <2>3. Slip'
    BY <2>1, HystIs DEF FanInv, Computed, Slip
  <2> QED BY <2>1, <2>2, <2>3 DEF FanInv, Computed
<1> QED BY <1>0, <1>1, <1>2 DEF FanNext

LEMMA FanStays == FanSpec => []FanInv
BY FanBegins, FanStep, PTL DEF FanSpec

(* The temperatures and the speeds (fan_control.c) stay within their       *)
(* ranges: no speed is negative or slower than off, but for what the array *)
(* held at first.                                                          *)
THEOREM FanTypeInvariance == FanSpec => []FanTypeOK
<1>1. FanInv => FanTypeOK
  BY DEF FanInv, FanTypes, FanTypeOK, Temps
<1> QED BY <1>1, FanStays, PTL

(* With a processor at 90 degrees calc_speed gives its fan the full speed, *)
(* for every mainboard and whatever the file says.                         *)
THEOREM HotFanIsFast == FanSpec => []HotMeansFast
<1>1. FanInv => HotMeansFast
  BY DEF FanInv, Computed, HotMeansFast
<1> QED BY <1>1, FanStays, PTL

(* Intel's fan is switched on again only when a temperature has risen by   *)
(* more than five degrees since it went off, or by a minimum of the file.  *)
THEOREM FanHasSlip == FanSpec => FanDoesNotFlap
<1>1. FanInv /\ [FanNext]_fanVars =>
        [last_fan = FanOff /\ last_fan' # FanOff /\ mb_type = 0
           => \/ fan_set["cpu"] \in Minima
              \/ \E n \in Sensors : temp_avg[n] > cooled[n] + 5]_fanVars
  <2> SUFFICES ASSUME FanInv, FanNext, last_fan = FanOff, last_fan' # FanOff, mb_type = 0,
                      fan_set["cpu"] \notin Minima
               PROVE  \E n \in Sensors : temp_avg[n] > cooled[n] + 5
    BY DEF fanVars
  <2>1. fan_step = "set" /\ fan_set["cpu"] # FanOff
    BY DEF FanNext, ReadTemps, SetFan
  <2>2. temp_avg["board"] > 45 \/ temp_avg["cpu"] > 55
    BY <2>1, HystIs DEF FanInv, Computed
  <2>3. cooled["board"] <= 40 /\ cooled["cpu"] <= 50
    BY DEF FanInv, Slip
  <2>4. \A n \in Sensors : temp_avg[n] \in Int /\ cooled[n] \in Int
    BY DEF FanInv, FanTypes, Temps
  <2> QED BY <2>2, <2>3, <2>4 DEF Sensors
<1> QED BY <1>1, FanStays, PTL DEF FanSpec, FanDoesNotFlap

-----------------------------------------------------------------------------
(* The USB displays.                                                       *)

(* What the search of the code takes first is a member, and the least one. *)
LEMMA FirstIsLeast ==
  ASSUME NEW S, S \subseteq Nat, S # {}
  PROVE  First(S) \in S /\ \A j \in S : First(S) <= j
<1> DEFINE R == {ss \in Nat \X Nat : ss[1] < ss[2]}
<1>1. IsWellFoundedOn(R, Nat)
  <2>1. R = OpToRel(<, Nat)
    BY Zenon DEF OpToRel
  <2> HIDE DEF R
  <2> QED BY Zenon, NatLessThanWellFounded, <2>1
<1>2. \A x, y \in Nat : <<y, x>> \in R <=> y < x
  OBVIOUS
<1> HIDE DEF R
<1>3. PICK x \in S : \A y \in S : ~(<<y, x>> \in R)
  BY Zenon, <1>1, WFMin
<1>4. ASSUME NEW y \in S PROVE x <= y
  <2>1. x \in Nat /\ y \in Nat
    OBVIOUS
  <2>2. ~(y < x)
    BY <1>2, <1>3, <2>1
  <2> QED BY <2>1, <2>2
<1> QED BY <1>4 DEF First

-----------------------------------------------------------------------------
Entry == [state : 0..2, device : Displays \cup {NoDisplay}, open : BOOLEAN]

UsbTypes ==
  /\ seen \subseteq Displays /\ plugged \subseteq Displays
  /\ displays \in [Entries -> Entry]
  /\ refresh \in [does : {"sleep", "scan", "clean"}, at : Nat]
  /\ showing \in [Showers -> 0..Handles]

LEMMA FreeEntry ==
  ASSUME UsbTypes, {i \in Entries : displays[i].state = 0} # {}
  PROVE  LET free == {i \in Entries : displays[i].state = 0} IN First(free) \in free
<1> DEFINE free == {i \in Entries : displays[i].state = 0}
<1>1. free \subseteq Nat
  BY UsbAssumption DEF Entries
<1> QED BY <1>1, FirstIsLeast

LEMMA KnownEntry ==
  ASSUME UsbTypes, NEW d, Known(d) # {}
  PROVE  First(Known(d)) \in Known(d)
<1>1. Known(d) \subseteq Nat
  BY UsbAssumption DEF Entries, Known
<1> QED BY <1>1, FirstIsLeast

LEMMA NextDevice ==
  ASSUME UsbTypes, Ahead # {}
  PROVE  /\ First(Ahead) \in Ahead /\ First(Ahead) \in Displays /\ First(Ahead) \in Nat
         /\ \A d \in Ahead : First(Ahead) <= d
<1>1. Ahead \subseteq Displays /\ Displays \subseteq Nat
  BY UsbAssumption DEF Ahead, UsbTypes
<1> QED BY <1>1, FirstIsLeast

(* A step of the search: the entry of a device that is known is marked, or *)
(* a free entry gets a device that is not known, or nothing changes.       *)
LEMMA ScanCases ==
  ASSUME UsbTypes, Scan
  PROVE  \E d \in Ahead : d \in Displays /\ (\A e \in Ahead : d <= e) /\
           \/ /\ refresh' = [does |-> "clean", at |-> 1]
              /\ \E k \in Known(d) : displays' = [displays EXCEPT ![k].state = 2]
           \/ /\ refresh' = [refresh EXCEPT !.at = d + 1] /\ Known(d) = {}
              /\ \/ displays' = displays
                 \/ \E k \in Entries :
                      /\ displays[k].state = 0
                      /\ displays' = [displays EXCEPT ![k] =
                                        [state |-> 2, device |-> d, open |-> TRUE]]
<1> DEFINE d == First(Ahead)
<1>1. d \in Ahead /\ d \in Displays /\ \A e \in Ahead : d <= e
  BY NextDevice DEF Scan
<1>2. CASE Found(d)
  BY <1>1, <1>2, KnownEntry DEF Found
<1>3. CASE Allocate(d)
  <2> DEFINE free == {i \in Entries : displays[i].state = 0}
  <2>1. free # {} => First(free) \in free
    BY FreeEntry
  <2> QED BY <1>1, <1>3, <2>1 DEF Allocate
<1> QED BY <1>2, <1>3 DEF Scan

(* Changing an entry gives a table again.                                  *)
LEMMA NewEntry ==
  ASSUME displays \in [Entries -> Entry], NEW k \in Entries, NEW r \in Entry
  PROVE  [displays EXCEPT ![k] = r] \in [Entries -> Entry]
OBVIOUS

LEMMA NewState ==
  ASSUME displays \in [Entries -> Entry], NEW k \in Entries, NEW n \in 0..2
  PROVE  [displays EXCEPT ![k].state = n] \in [Entries -> Entry]
<1>1. displays[k] \in Entry
  OBVIOUS
<1>2. [displays[k] EXCEPT !.state = n] \in Entry
  BY <1>1 DEF Entry
<1> QED BY <1>2

LEMMA UsbTypeInit == UsbInit => UsbTypes
BY UsbAssumption DEF UsbInit, UsbTypes, Entry, Entries

LEMMA UsbTypeStep ==
  ASSUME UsbTypes, [UsbNext]_usbVars
  PROVE  UsbTypes'
<1> USE DEF UsbTypes
<1>1. CASE UNCHANGED usbVars
  BY <1>1 DEF usbVars
<1>2. CASE Plug
  BY <1>2 DEF Plug
<1>3. CASE Wake \/ ScanEnds \/ CleanUpEnds
  BY <1>3 DEF Wake, ScanEnds, CleanUpEnds
<1>4. CASE Scan
  <2>1. displays' \in [Entries -> Entry]
    <3>1. PICK d \in Ahead :
            /\ d \in Displays
            /\ \/ \E k \in Known(d) : displays' = [displays EXCEPT ![k].state = 2]
               \/ displays' = displays
               \/ \E k \in Entries : displays' = [displays EXCEPT ![k] =
                                     [state |-> 2, device |-> d, open |-> TRUE]]
      BY <1>4, ScanCases
    <3>2. [state |-> 2, device |-> d, open |-> TRUE] \in Entry
      BY <3>1 DEF Entry
    <3>3. Known(d) \subseteq Entries /\ 2 \in 0..2 /\ displays \in [Entries -> Entry]
      BY DEF Known
    <3>4. CASE \E k \in Known(d) : displays' = [displays EXCEPT ![k].state = 2]
      <4>1. PICK k \in Entries : displays' = [displays EXCEPT ![k].state = 2]
        BY <3>3, <3>4
      <4>2. [displays EXCEPT ![k].state = 2] \in [Entries -> Entry]
        BY <3>3, NewState
      <4> QED BY <4>1, <4>2
    <3>5. CASE \E k \in Entries : displays' = [displays EXCEPT ![k] =
                                     [state |-> 2, device |-> d, open |-> TRUE]]
      BY <3>2, <3>3, <3>5, NewEntry
    <3> QED BY <3>1, <3>3, <3>4, <3>5
  <2>2. refresh' \in [does : {"sleep", "scan", "clean"}, at : Nat]
    BY <1>4, ScanCases, UsbAssumption
  <2> QED BY <1>4, <2>1, <2>2 DEF Scan
<1>5. CASE CleanUp
  <2>1. displays' \in [Entries -> Entry]
    <3> DEFINE closed == [state |-> 0, device |-> NoDisplay, open |-> FALSE]
               kept == IF displays[refresh.at].state = 2 THEN 1 ELSE 0
    <3>1. closed \in Entry /\ kept \in 0..2
      BY DEF Entry
    <3>2. \/ displays' = [displays EXCEPT ![refresh.at] = closed]
          \/ displays' = [displays EXCEPT ![refresh.at].state = kept]
      BY <1>5 DEF CleanUp, Deallocate, Keep
    <3>3. refresh.at \in Entries /\ displays \in [Entries -> Entry]
      BY <1>5 DEF CleanUp
    <3> HIDE DEF closed, kept
    <3>4. CASE displays' = [displays EXCEPT ![refresh.at] = closed]
      BY <3>1, <3>3, <3>4, NewEntry
    <3>5. CASE displays' = [displays EXCEPT ![refresh.at].state = kept]
      BY <3>1, <3>3, <3>5, NewState
    <3> QED BY <3>2, <3>4, <3>5
  <2> QED BY <1>5, <2>1 DEF CleanUp
<1>6. ASSUME NEW t \in Showers, Shown(t) PROVE UsbTypes'
  BY <1>6, UsbAssumption DEF Shown
<1>7. ASSUME NEW t \in Showers, NEW i \in Entries, Show(t, i) PROVE UsbTypes'
  BY <1>7, UsbAssumption DEF Show, Entries
<1> QED BY <1>1, <1>2, <1>3, <1>4, <1>5, <1>6, <1>7 DEF UsbNext, Refresh

(* The table of displays keeps its types, for any number of displays and   *)
(* entries (frontpanel_usb.c).                                             *)
THEOREM UsbTypeInvariance == UsbSpec => []UsbTypeOK
<1>1. UsbInit => UsbTypeOK
  BY UsbTypeInit, UsbAssumption DEF UsbInit, UsbTypes, UsbTypeOK, Entry
<1>2. UsbTypeOK /\ [UsbNext]_usbVars => UsbTypeOK'
  <2> SUFFICES ASSUME UsbTypeOK, [UsbNext]_usbVars PROVE UsbTypeOK'
    OBVIOUS
  <2>1. UsbTypes'
    <3>1. UsbTypes
      BY DEF UsbTypes, UsbTypeOK, Entry
    <3> QED BY <3>1, UsbTypeStep
  <2>2. plugs' \in 0..MaxPlugs
    <3>1. CASE Plug
      BY <3>1, UsbAssumption DEF UsbTypeOK, Plug
    <3>2. CASE UNCHANGED usbVars
      BY <3>2 DEF UsbTypeOK, usbVars
    <3>3. CASE Refresh
      BY <3>3 DEF UsbTypeOK, Refresh, Wake, Scan, ScanEnds, CleanUp, CleanUpEnds
    <3>4. CASE \E t \in Showers : Shown(t) \/ \E i \in Entries : Show(t, i)
      BY <3>4 DEF UsbTypeOK, Shown, Show
    <3> QED BY <3>1, <3>2, <3>3, <3>4 DEF UsbNext
  <2> QED BY <2>1, <2>2 DEF UsbTypes, UsbTypeOK, Entry
<1> QED BY <1>1, <1>2, PTL DEF UsbSpec

-----------------------------------------------------------------------------
(* An entry in use is open, one device has one entry, and what is shown is *)
(* in use.                                                                 *)
UsedIsOpen == \A i \in Entries : displays[i].state # 0 => displays[i].open
OneEntryEach ==
  \A i, j \in Entries :
    /\ displays[i].state # 0 /\ displays[j].state # 0
    /\ displays[i].device = displays[j].device
    => i = j
ShownIsUsed ==
  \A t \in Showers : showing[t] # 0 => displays[showing[t]].state # 0

UseInv == UsedIsOpen /\ OneEntryEach /\ ShownIsUsed

LEMMA UseInit == UsbInit => UseInv
BY DEF UsbInit, UseInv, UsedIsOpen, OneEntryEach, ShownIsUsed

LEMMA UseStep ==
  ASSUME UsbTypes, UseInv, [UsbNext]_usbVars
  PROVE  UseInv'
<1> USE DEF UsbTypes, UseInv, UsedIsOpen, OneEntryEach, ShownIsUsed
<1>0. \A t \in Showers : showing[t] # 0 => showing[t] \in Entries
  BY UsbAssumption DEF Entries
<1>1. CASE UNCHANGED usbVars
  BY <1>1 DEF usbVars
<1>2. CASE Plug \/ Wake \/ ScanEnds \/ CleanUpEnds
  BY <1>2 DEF Plug, Wake, ScanEnds, CleanUpEnds
<1>3. CASE Scan
  <2>1. UNCHANGED showing
    BY <1>3 DEF Scan
  <2>2. PICK d \in Ahead :
          \/ \E k \in Known(d) : displays' = [displays EXCEPT ![k].state = 2]
          \/ displays' = displays
          \/ /\ Known(d) = {}
             /\ \E k \in Entries :
                  /\ displays[k].state = 0
                  /\ displays' = [displays EXCEPT ![k] =
                                    [state |-> 2, device |-> d, open |-> TRUE]]
    BY <1>3, ScanCases
  <2>3. CASE displays' = displays
    BY <2>1, <2>3
  <2>4. ASSUME NEW k \in Known(d), displays' = [displays EXCEPT ![k].state = 2]
        PROVE  UseInv'
    BY <1>0, <2>1, <2>4 DEF Known, Entry
  <2>5. ASSUME NEW k \in Entries, Known(d) = {}, displays[k].state = 0,
               displays' = [displays EXCEPT ![k] =
                              [state |-> 2, device |-> d, open |-> TRUE]]
        PROVE  UseInv'
    BY <1>0, <2>1, <2>5 DEF Known, Entry
  <2> QED BY <2>2, <2>3, <2>4, <2>5
<1>4. CASE CleanUp
  <2> DEFINE at == refresh.at
  <2>1. at \in Entries /\ UNCHANGED showing
    BY <1>4 DEF CleanUp
  <2>2. CASE Deallocate(at)
    BY <1>0, <2>1, <2>2 DEF Deallocate, Locked, Entry
  <2>3. CASE Keep(at)
    BY <1>0, <2>1, <2>3 DEF Keep, Entry
  <2> QED BY <1>4, <2>2, <2>3 DEF CleanUp
<1>5. ASSUME NEW t \in Showers, Shown(t) PROVE UseInv'
  BY <1>5 DEF Shown
<1>6. ASSUME NEW t \in Showers, NEW i \in Entries, Show(t, i) PROVE UseInv'
  BY <1>6 DEF Show
<1> QED BY <1>1, <1>2, <1>3, <1>4, <1>5, <1>6 DEF UsbNext, Refresh

LEMMA UseStays == UsbSpec => [](UsbTypes /\ UseInv)
<1>1. UsbTypes /\ UseInv /\ [UsbNext]_usbVars => (UsbTypes /\ UseInv)'
  BY UsbTypeStep, UseStep
<1> QED BY <1>1, UsbTypeInit, UseInit, PTL DEF UsbSpec

(* fp_show_pic and fp_set_leds use an open display, also while the refresh *)
(* finds that it was unplugged (frontpanel_usb.c).                         *)
THEOREM ShownDisplaysAreOpen == UsbSpec => []ShownIsOpen
<1>1. UsbTypes /\ UseInv => ShownIsOpen
  BY UsbAssumption DEF UsbTypes, UseInv, UsedIsOpen, ShownIsUsed, ShownIsOpen, Entries
<1> QED BY <1>1, UseStays, PTL

-----------------------------------------------------------------------------
(* An entry of the last time whose device is on the bus and which was not  *)
(* found is one that the search has not come to, or has missed.            *)
Left(i) == displays[i].state = 1 /\ displays[i].device \in seen

(* A device before it is in use: its entry was marked in this search, and  *)
(* the cleaning takes that mark away but not the entry.                    *)
Missed(i) ==
  \E d \in seen, j \in Entries :
    /\ d < displays[i].device /\ displays[j].device = d
    /\ displays[j].state = IF j < refresh.at THEN 1 ELSE 2

ScanInv ==
  refresh.does = "scan" =>
    \A i \in Entries : Left(i) => displays[i].device >= refresh.at
CleanInv ==
  refresh.does = "clean" =>
    \A i \in Entries : Left(i) /\ i >= refresh.at => Missed(i)
SearchInv == ScanInv /\ CleanInv

LEMMA SearchInit == UsbInit => SearchInv
BY DEF UsbInit, SearchInv, ScanInv, CleanInv

LEMMA SearchStep ==
  ASSUME UsbTypes, UseInv, SearchInv, [UsbNext]_usbVars
  PROVE  SearchInv'
<1> USE DEF SearchInv, ScanInv, CleanInv, Left, Missed
<1>1. CASE UNCHANGED usbVars
  BY <1>1 DEF usbVars
<1>2. CASE Plug \/ \E t \in Showers : Shown(t) \/ \E i \in Entries : Show(t, i)
  BY <1>2 DEF Plug, Shown, Show
<1>3. CASE Wake
  <2>1. \A d \in plugged : d >= 1
    BY UsbAssumption DEF UsbTypes
  <2> QED BY <1>3, <2>1 DEF Wake, UsbTypes, Entry
<1>4. CASE Scan
  <2>0. UNCHANGED seen /\ refresh.does = "scan" /\ refresh.at \in Nat
    BY <1>4 DEF Scan, UsbTypes
  <2>1. PICK d \in Ahead : d \in Displays /\ (\A e \in Ahead : d <= e) /\
           \/ /\ refresh' = [does |-> "clean", at |-> 1]
              /\ \E k \in Known(d) : displays' = [displays EXCEPT ![k].state = 2]
           \/ /\ refresh' = [refresh EXCEPT !.at = d + 1] /\ Known(d) = {}
              /\ \/ displays' = displays
                 \/ \E k \in Entries :
                      /\ displays[k].state = 0
                      /\ displays' = [displays EXCEPT ![k] =
                                        [state |-> 2, device |-> d, open |-> TRUE]]
    BY <1>4, ScanCases
  <2>2. d \in Nat /\ d \in seen /\ \A e \in seen : e \in Nat
    BY UsbAssumption DEF UsbTypes, Ahead
  (* Nothing that is left has a device before d.                           *)
  <2>3. \A i \in Entries : Left(i) => displays[i].device \in Ahead
    BY <2>0 DEF Ahead
  <2>4. CASE refresh' = [does |-> "clean", at |-> 1] /\
             \E k \in Known(d) : displays' = [displays EXCEPT ![k].state = 2]
    <3>1. PICK k \in Known(d) : displays' = [displays EXCEPT ![k].state = 2]
      BY <2>4
    <3>2. k \in Entries /\ displays[k].device = d /\ displays[k].state # 0 /\ k >= 1
      BY UsbAssumption DEF Known, Entries
    <3>3. displays'[k].state = 2 /\ displays'[k].device = d
      BY <3>1, <3>2 DEF UsbTypes, Entry
    <3>4. ASSUME NEW i \in Entries, Left(i)' PROVE d < displays'[i].device
      <4>1. i # k /\ displays'[i] = displays[i]
        BY <3>1, <3>2, <3>3, <3>4 DEF UsbTypes
      <4>2. Left(i) /\ displays[i].device # d
        BY <2>0, <3>2, <3>4, <4>1 DEF UseInv, OneEntryEach
      <4>3. d <= displays[i].device /\ displays[i].device \in Nat
        BY <2>1, <2>2, <2>3, <4>2
      <4> QED BY <2>2, <4>1, <4>2, <4>3
    <3>5. refresh'.at = 1 /\ ~(k < 1)
      BY <2>4, <3>2, UsbAssumption DEF Entries
    <3>6. ASSUME NEW i \in Entries, Left(i)' PROVE Missed(i)'
      BY <2>0, <2>2, <3>2, <3>3, <3>4, <3>5, <3>6
    <3> QED BY <2>4, <3>6
  <2>5. CASE refresh' = [refresh EXCEPT !.at = d + 1] /\ Known(d) = {} /\
             (\/ displays' = displays
              \/ \E k \in Entries :
                   /\ displays[k].state = 0
                   /\ displays' = [displays EXCEPT ![k] =
                                     [state |-> 2, device |-> d, open |-> TRUE]])
    <3>1. refresh'.does = "scan" /\ refresh'.at = d + 1
      BY <2>0, <2>5 DEF UsbTypes
    <3>2. ASSUME NEW i \in Entries, Left(i)' PROVE displays'[i].device >= d + 1
      <4>1. displays'[i] = displays[i] /\ Left(i)
        BY <2>0, <2>5, <3>2 DEF UsbTypes
      <4>2. displays[i].device # d
        BY <2>5, <4>1 DEF Known
      <4>3. d <= displays[i].device /\ displays[i].device \in Nat
        BY <2>1, <2>2, <2>3, <4>1
      <4> QED BY <2>2, <4>1, <4>2, <4>3
    <3> QED BY <3>1, <3>2
  <2> QED BY <2>1, <2>4, <2>5
<1>5. CASE ScanEnds
  <2>1. \A i \in Entries : ~Left(i)
    BY <1>5 DEF ScanEnds, Ahead
  <2> QED BY <1>5, <2>1 DEF ScanEnds
<1>6. CASE CleanUp
  <2> DEFINE at == refresh.at
  <2>1. /\ at \in Entries /\ at \in Nat /\ UNCHANGED seen
        /\ refresh.does = "clean" /\ refresh'.does = "clean" /\ refresh'.at = at + 1
    BY <1>6 DEF CleanUp, UsbTypes
  <2>2. ASSUME NEW i \in Entries, Left(i)', i >= at + 1 PROVE Missed(i)'
    <3>1. i \in Nat /\ i # at /\ displays'[i] = displays[i] /\ Left(i)
      BY <1>6, <2>1, <2>2, UsbAssumption DEF CleanUp, Deallocate, Keep, UsbTypes, Entries
    <3>2. PICK d \in seen, j \in Entries :
            /\ d < displays[i].device /\ displays[j].device = d
            /\ displays[j].state = IF j < at THEN 1 ELSE 2
      BY <2>1, <2>2, <3>1, UsbAssumption DEF Entries
    <3>3. j \in Nat
      BY UsbAssumption DEF Entries
    <3>4. CASE j = at
      <4>1. Keep(at) /\ displays[at].state = 2
        BY <1>6, <2>1, <3>2, <3>4 DEF CleanUp, Deallocate
      <4>2. displays'[j].state = 1 /\ displays'[j].device = d
        BY <2>1, <3>2, <3>4, <4>1 DEF Keep, UsbTypes, Entry
      <4> QED BY <2>1, <3>1, <3>2, <3>4, <4>2
    <3>5. CASE j # at
      <4>1. displays'[j] = displays[j]
        BY <1>6, <2>1, <3>5 DEF CleanUp, Deallocate, Keep, UsbTypes
      <4>2. j < at <=> j < at + 1
        BY <2>1, <3>3, <3>5
      <4> QED BY <2>1, <3>1, <3>2, <4>1, <4>2
    <3> QED BY <3>4, <3>5
  <2> QED BY <2>1, <2>2
<1>7. CASE CleanUpEnds
  BY <1>7 DEF CleanUpEnds
<1> QED BY <1>1, <1>2, <1>3, <1>4, <1>5, <1>6, <1>7 DEF UsbNext, Refresh

LEMMA ClosingStep ==
  ASSUME UsbTypes, UseInv, SearchInv, [UsbNext]_usbVars,
         NEW i \in Entries, displays[i].open, ~displays[i].open'
  PROVE  \/ displays[i].device \notin seen
         \/ \E d \in seen : d < displays[i].device /\ Known(d) # {}
<1>1. CleanUp /\ Deallocate(refresh.at) /\ i = refresh.at
  <2>1. ~UNCHANGED displays
    OBVIOUS
  <2>2. CASE Scan
    BY <2>2, ScanCases DEF UsbTypes, Entry, Known
  <2>3. CASE CleanUp
    BY <2>3 DEF CleanUp, Deallocate, Keep, UsbTypes, Entry
  <2> QED BY <2>1, <2>2, <2>3 DEF UsbNext, Refresh, usbVars, Plug, Wake, ScanEnds,
          CleanUpEnds, Shown, Show
<1>2. displays[i].state = 1 /\ refresh.does = "clean" /\ i \in Nat
  BY <1>1 DEF CleanUp, Deallocate, UsbTypes
<1>3. Left(i) => Missed(i)
  BY <1>1, <1>2 DEF SearchInv, CleanInv
<1> QED BY <1>2, <1>3 DEF Left, Missed, Known

(* fp_refresh_usb closes no display that is still plugged in, unless one   *)
(* before it on the bus was known: with that the search ends.              *)
THEOREM PresentDisplaysStayOpen == UsbSpec => PresentStaysOpen
<1>1. UsbTypes /\ UseInv /\ SearchInv /\ [UsbNext]_usbVars => SearchInv'
  BY SearchStep
<1>2. UsbTypes /\ UseInv /\ SearchInv /\ [UsbNext]_usbVars =>
        [\A i \in Entries :
           displays[i].open /\ ~displays[i].open' =>
             \/ displays[i].device \notin seen
             \/ \E d \in seen : d < displays[i].device /\ Known(d) # {}]_usbVars
  BY ClosingStep
<1> QED BY <1>1, <1>2, SearchInit, UseStays, PTL DEF UsbSpec, PresentStaysOpen

-----------------------------------------------------------------------------
(* The serial line: sequences.                                             *)

(* What Tail, Append and \o make of the elements of a sequence.            *)
LEMMA TailIs ==
  ASSUME NEW S, NEW s \in Seq(S), s # << >>
  PROVE  /\ Len(s) \in Nat \ {0} /\ s[1] \in S /\ Head(s) = s[1]
         /\ Tail(s) \in Seq(S) /\ Len(Tail(s)) = Len(s) - 1
         /\ \A i \in 1..Len(Tail(s)) : i + 1 \in 1..Len(s) /\ Tail(s)[i] = s[i + 1]
<1>1. Len(s) \in Nat \ {0}
  OBVIOUS
<1>2. s[1] \in S /\ Head(s) = s[1]
  BY <1>1
<1>3. Tail(s) \in Seq(S) /\ Len(Tail(s)) = Len(s) - 1
  BY <1>1
<1>4. \A i \in 1..Len(Tail(s)) : i + 1 \in 1..Len(s) /\ Tail(s)[i] = s[i + 1]
  BY <1>1, <1>3
<1> QED BY <1>1, <1>2, <1>3, <1>4

LEMMA AppendIs ==
  ASSUME NEW S, NEW s \in Seq(S), NEW e \in S
  PROVE  /\ Append(s, e) \in Seq(S) /\ Len(s) \in Nat /\ Len(Append(s, e)) = Len(s) + 1
         /\ Append(s, e)[Len(s) + 1] = e
         /\ \A i \in 1..Len(s) : i \in 1..Len(Append(s, e)) /\ Append(s, e)[i] = s[i]
         /\ \A i \in 1..Len(Append(s, e)) : i = Len(s) + 1 \/ i \in 1..Len(s)
OBVIOUS

LEMMA ConcatIs ==
  ASSUME NEW S, NEW s \in Seq(S), NEW t \in Seq(S)
  PROVE  /\ s \o t \in Seq(S) /\ Len(s) \in Nat /\ Len(t) \in Nat
         /\ Len(s \o t) = Len(s) + Len(t)
         /\ \A i \in 1..Len(s) : (s \o t)[i] = s[i]
         /\ \A i \in 1..Len(t) : (s \o t)[Len(s) + i] = t[i]
OBVIOUS

-----------------------------------------------------------------------------
(* The serial line: what is on it.                                         *)

(* Bytes of the line.                                                      *)
LineBytes == [msg : Nat, at : Nat]

(* The first k bytes of message m.                                         *)
Prefix(m, k) == [i \in 1..k |-> [msg |-> m, at |-> i]]

(* The byte that comes after b, where s has been sent.                     *)
NextByte(s, b) == IF b.at < Bytes(s[b.msg]) THEN [msg |-> b.msg, at |-> b.at + 1]
                 ELSE [msg |-> b.msg + 1, at |-> 1]
NextSent(s) == [msg |-> Len(s) + 1, at |-> 1]

(* On the line is what was sent and not yet taken, without a gap.          *)
LineInv ==
  /\ sent \in Seq(Messages) /\ Len(sent) <= MaxMessages
  /\ line \in Seq(LineBytes)
  /\ \A i \in 1..Len(line) :
       /\ line[i].msg \in 1..Len(sent) /\ line[i].at \in 1..Bytes(sent[line[i].msg])
       /\ NextByte(sent, line[i]) = IF i = Len(line) THEN NextSent(sent) ELSE line[i + 1]

(* The byte that fp_read_msg gets next.                                    *)
Pos == IF line = << >> THEN NextSent(sent) ELSE line[1]

(* What was handled of the messages before m: all before the lost byte, and*)
(* after it all from the first one that was handled on; with a calm loss   *)
(* all but two.                                                            *)
Seen(got, k) == \E i \in 1..Len(got) : got[i] = k
HandledTo(got, lost, calm, m) ==
  /\ \A k \in 1..(m - 1) :
       lost = 0 \/ k < lost \/ (calm /\ k > lost + 1) => Seen(got, k)
  /\ \A k \in 1..(m - 1) : \A n \in 1..k :
       lost # 0 /\ lost < n /\ Seen(got, n) => Seen(got, k)
  /\ \A i \in 1..Len(got) : got[i] < m

(* The same while no message after the lost byte has been handled.         *)
HandledBefore(got, lost) ==
  /\ \A k \in 1..(lost - 1) : Seen(got, k)
  /\ \A i \in 1..Len(got) : got[i] < lost
Broken(got) == \E i \in 1..Len(got) : got[i] = 0
InSequence(got, lost, calm) ==
  /\ got \in Seq(Nat) /\ lost \in Nat
  /\ \A i, j \in 1..Len(got) :
       i < j /\ 0 \notin {got[i], got[j]} => got[i] < got[j] \/ (got[i] = got[j] /\ ~calm)
  /\ \A i, j \in 1..Len(got) :
       calm /\ got[i] = 0 /\ got[j] = 0 => lost # 0 /\ i = j

(* What fp_serial_thread may handle again is the last message, or none.    *)
AgainOK(got, more) ==
  \/ more = << >>
  \/ \E n \in Nat : /\ more = <<n>>
                    /\ n = 0 \/ (Seen(got, n) /\ \A i \in 1..Len(got) : got[i] <= n)

(* Bytes that are no message.                                              *)
Spoils(bytes) == \E i \in 1..Len(bytes) : bytes[i] # [msg |-> bytes[1].msg, at |-> i]

(* Resting two messages or in the middle of one.                           *)
Whole ==
  /\ state = Pos.at - 1 /\ buf = Prefix(Pos.msg, state)
  /\ state >= 2 => cmd_length + 2 = Bytes(sent[Pos.msg])
  /\ HandledTo(handled, hit, Calm, Pos.msg) /\ hit < Pos.msg

(* Out of step: in the middle of a message with nothing collected, or with *)
(* what never was sent, or about to take another byte for the lost one.    *)
Resting == state = 0 /\ buf = << >> /\ Pos.at > 1
Garbled == state > 0 /\ buf \in Seq(LineBytes) /\ Len(buf) = state /\ Spoils(buf)
Omits == state > 0 /\ buf = Prefix(hit, state) /\ Pos = NextByte(sent, [msg |-> hit, at |-> state + 1])
Astray ==
  /\ hit # 0 /\ hit <= Pos.msg
  /\ HandledBefore(handled, hit)
  /\ Resting \/ Garbled \/ Omits

(* After a calm loss: the first byte is lost, or what has lost one was     *)
(* taken for a message: the rest is skipped.                               *)
Skips == Resting /\ hit # 0 /\ Pos.msg \in {hit, hit + 1} /\ HandledBefore(handled, hit)

(* Another byte is lost: one of the next message is taken for it.          *)
Lacks ==
  /\ hit \in 1..Len(sent) /\ state \in 1..(Bytes(sent[hit]) - 1)
  /\ Garbled \/ Omits
  /\ buf[1] = [msg |-> hit, at |-> 1]
  /\ Pos = NextByte(sent, [msg |-> hit, at |-> state + 1])
  /\ state >= 2 => cmd_length + 2 = Bytes(sent[hit])
  /\ HandledBefore(handled, hit) /\ ~Broken(handled)

Filled == state \in Nat /\ cmd_length \in {0, 2, 4, 7} /\ (state >= 2 => state <= 1 + cmd_length)

ReaderInv ==
  /\ LineInv /\ hit \in 0..Len(sent) /\ Filled
  /\ InSequence(handled, hit, Calm) /\ AgainOK(handled, again)
  /\ Whole \/ (~Calm /\ Astray) \/ (Calm /\ (Skips \/ Lacks))

(* The answers have the lengths that are waited for.                       *)
LEMMA BytesIs ==
  ASSUME NEW m
  PROVE  /\ Bytes(m) \in {2, 4, 6, 9}
         /\ m[1] = "55" => Bytes(m) = 4
         /\ m[1] # "55" => get_answer_length(m[2]) + 2 = Bytes(m)
BY DEF Bytes, get_answer_length

LEMMA AnswersAre ==
  /\ \A code : get_answer_length(code) \in {0, 2, 4, 7}
  /\ get_answer_length("5a") = 0 /\ get_answer_length("55") = 0
BY DEF get_answer_length

LEMMA NothingInEmpty == 1 \notin 1..Len(<< >>)
OBVIOUS

(* A byte is taken from the line, or lost.                                 *)
LEMMA LineMoves ==
  ASSUME LineInv, line # << >>, line' = Tail(line), UNCHANGED sent
  PROVE  /\ LineInv' /\ Head(line) = Pos /\ Pos' = NextByte(sent, Pos)
         /\ Pos.msg \in 1..Len(sent) /\ Pos.at \in 1..Bytes(sent[Pos.msg])
         /\ Pos = [msg |-> Pos.msg, at |-> Pos.at]
<1>0. line \in Seq(LineBytes)
  BY DEF LineInv
<1>1. /\ Len(line) \in Nat \ {0} /\ line[1] \in LineBytes
      /\ Head(line) = line[1] /\ Pos = line[1]
      /\ line' \in Seq(LineBytes) /\ Len(line') = Len(line) - 1
      /\ \A i \in 1..Len(line') : i + 1 \in 1..Len(line) /\ line'[i] = line[i + 1]
  BY <1>0, TailIs DEF Pos
<1>2. /\ line' \in Seq(LineBytes) /\ Len(line') = Len(line) - 1
      /\ \A i \in 1..Len(line') : i + 1 \in 1..Len(line) /\ line'[i] = line[i + 1]
  BY <1>1
<1>3. LineInv'
  <2> SUFFICES ASSUME NEW i \in 1..Len(line')
               PROVE  /\ line'[i].msg \in 1..Len(sent)
                      /\ line'[i].at \in 1..Bytes(sent[line'[i].msg])
                      /\ NextByte(sent, line'[i]) = IF i = Len(line') THEN NextSent(sent)
                                                   ELSE line'[i + 1]
    BY <1>2 DEF LineInv
  <2>1. i + 1 \in 1..Len(line) /\ line'[i] = line[i + 1]
    BY <1>2
  <2>2. i = Len(line') <=> i + 1 = Len(line)
    BY <1>1, <1>2
  <2>3. ASSUME i # Len(line') PROVE line'[i + 1] = line[(i + 1) + 1]
    <3>0. Len(line') \in Nat
      BY <1>1
    <3>1. i + 1 \in 1..Len(line')
      BY <2>3, <3>0
    <3> QED BY <1>1, <3>1
  <2> QED BY <2>1, <2>2, <2>3 DEF LineInv
<1>4. /\ Pos.msg \in 1..Len(sent) /\ Pos.at \in 1..Bytes(sent[Pos.msg])
      /\ NextByte(sent, Pos) = IF 1 = Len(line) THEN NextSent(sent) ELSE line[2]
  <2>1. 1 \in 1..Len(line) /\ 1 + 1 = 2
    BY <1>1
  <2>2. /\ line[1].msg \in 1..Len(sent) /\ line[1].at \in 1..Bytes(sent[line[1].msg])
        /\ NextByte(sent, line[1]) = IF 1 = Len(line) THEN NextSent(sent) ELSE line[1 + 1]
    BY <2>1 DEF LineInv
  <2>3. Pos = line[1]
    BY <1>1
  <2> QED BY <2>1, <2>2, <2>3
<1>5. Pos' = NextByte(sent, Pos)
  <2>1. CASE Len(line) = 1
    <3>1. line' = << >>
      BY <1>2, <2>1
    <3> QED BY <1>4, <2>1, <3>1 DEF Pos
  <2>2. CASE Len(line) # 1
    <3>1. 1 \in 1..Len(line')
      BY <1>1, <2>2
    <3>3. line' # << >>
      BY <3>1, NothingInEmpty, Zenon
    <3>2. line'[1] = line[1 + 1]
      BY <1>2, <3>1
    <3> QED BY <1>4, <2>2, <3>2, <3>3 DEF Pos
  <2> QED BY <2>1, <2>2
<1>6. Pos = [msg |-> Pos.msg, at |-> Pos.at]
  BY <1>1 DEF LineBytes
<1> QED BY <1>1, <1>3, <1>4, <1>5, <1>6

(* A message is sent: what comes next for the reader stays the same.       *)
LEMMA LineGrows ==
  ASSUME LineInv, NEW code \in Messages, PanelSends(code)
  PROVE  /\ LineInv' /\ Pos' = Pos /\ Len(sent') = Len(sent) + 1 /\ Len(sent) \in Nat
         /\ \A m \in 1..Len(sent) : m \in 1..Len(sent') /\ sent'[m] = sent[m]
<1>0. line \in Seq(LineBytes) /\ sent \in Seq(Messages)
      /\ Len(line) \in Nat /\ Len(sent) \in Nat /\ Len(sent) <= MaxMessages
  BY DEF LineInv
<1> DEFINE n == Len(sent)
           k == Bytes(code)
           new == [i \in 1..k |-> [msg |-> n + 1, at |-> i]]
<1>1. /\ sent' = Append(sent, code) /\ sent' \in Seq(Messages) /\ Len(sent') = n + 1
      /\ sent'[n + 1] = code
      /\ \A m \in 1..n : m \in 1..Len(sent') /\ sent'[m] = sent[m]
      /\ Len(sent') <= MaxMessages
  BY <1>0, SerialAssumption DEF PanelSends
<1>2. k \in Nat /\ k > 1
  BY BytesIs
<1> HIDE DEF k
<1>3. /\ new \in Seq(LineBytes) /\ Len(new) = k
      /\ \A i \in 1..k : new[i] = [msg |-> n + 1, at |-> i]
  BY <1>0, <1>2 DEF LineBytes
<1>4. line' = line \o new
  BY <1>1 DEF PanelSends, k
<1> HIDE DEF new
<1>9. /\ line \o new \in Seq(LineBytes) /\ Len(line \o new) = Len(line) + Len(new)
      /\ \A i \in 1..Len(line) : (line \o new)[i] = line[i]
      /\ \A i \in 1..Len(new) : (line \o new)[Len(line) + i] = new[i]
  BY <1>0, <1>3, ConcatIs
<1>5. /\ line' \in Seq(LineBytes) /\ Len(line') = Len(line) + k
      /\ \A i \in 1..Len(line) : line'[i] = line[i]
      /\ \A i \in 1..k : line'[Len(line) + i] = new[i]
  BY <1>3, <1>4, <1>9
<1>6. ASSUME NEW i \in 1..Len(line')
      PROVE  /\ line'[i].msg \in 1..Len(sent')
             /\ line'[i].at \in 1..Bytes(sent'[line'[i].msg])
             /\ NextByte(sent', line'[i]) = IF i = Len(line') THEN NextSent(sent')
                                           ELSE line'[i + 1]
  <2>1. CASE i \in 1..Len(line)
    <3>1. /\ line'[i] = line[i] /\ line[i].msg \in 1..n
          /\ line[i].at \in 1..Bytes(sent[line[i].msg])
          /\ NextByte(sent, line[i]) = IF i = Len(line) THEN NextSent(sent) ELSE line[i + 1]
      BY <1>5, <2>1 DEF LineInv
    <3>2. NextByte(sent', line[i]) = NextByte(sent, line[i])
      BY <1>1, <3>1 DEF NextByte
    <3>3. i # Len(line')
      BY <1>0, <1>2, <1>5, <2>1
    <3>4. CASE i = Len(line)
      <4>1. line'[i + 1] = new[1]
        BY <1>2, <1>5, <3>4
      <4> QED BY <1>1, <1>2, <1>3, <3>1, <3>2, <3>3, <3>4, <4>1 DEF NextSent
    <3>5. CASE i # Len(line)
      <4>1. line'[i + 1] = line[i + 1]
        BY <1>0, <1>5, <2>1, <3>5
      <4> QED BY <1>1, <3>1, <3>2, <3>3, <3>5, <4>1
    <3> QED BY <3>4, <3>5
  <2>2. CASE i \notin 1..Len(line)
    <3> DEFINE j == i - Len(line)
    <3>1. j \in 1..k /\ i = Len(line) + j
      BY <1>0, <1>2, <1>5, <2>2
    <3> HIDE DEF j
    <3>2. line'[i] = [msg |-> n + 1, at |-> j]
      BY <1>3, <1>5, <3>1
    <3>3. line'[i].msg = n + 1 /\ line'[i].at = j /\ sent'[n + 1] = code
      BY <1>1, <3>2
    <3>4. CASE j = k
      <4>1. i = Len(line')
        BY <1>5, <3>1, <3>4
      <4>2. NextByte(sent', line'[i]) = [msg |-> (n + 1) + 1, at |-> 1]
        BY <1>2, <3>3, <3>4 DEF NextByte, k
      <4>3. NextSent(sent') = [msg |-> (n + 1) + 1, at |-> 1]
        BY <1>1 DEF NextSent
      <4>4. line'[i].msg \in 1..Len(sent') /\ line'[i].at \in 1..Bytes(sent'[line'[i].msg])
        BY <1>0, <1>1, <3>1, <3>3 DEF k
      <4> QED BY <4>1, <4>2, <4>3, <4>4
    <3>5. CASE j # k
      <4>1. i # Len(line') /\ i + 1 = Len(line) + (j + 1) /\ j + 1 \in 1..k /\ j < k
        <5>1. /\ j \in Nat /\ Len(line) \in Nat /\ Len(line') = Len(line) + k
              /\ j < k /\ j + 1 \in 1..k
          BY <1>0, <1>2, <1>5, <3>1, <3>5
        <5> QED BY <1>2, <3>1, <5>1
      <4>2. line'[i + 1] = [msg |-> n + 1, at |-> j + 1]
        BY <1>3, <1>5, <4>1
      <4>3. NextByte(sent', line'[i]) = [msg |-> n + 1, at |-> j + 1]
        BY <3>3, <4>1 DEF NextByte, k
      <4> QED BY <1>0, <1>1, <3>1, <3>3, <4>1, <4>2, <4>3 DEF k
    <3> QED BY <3>4, <3>5
  <2> QED BY <2>1, <2>2
<1>7. LineInv'
  BY <1>1, <1>5, <1>6 DEF LineInv
<1>8. Pos' = Pos
  <2>1. line' # << >>
    BY <1>0, <1>2, <1>5
  <2>2. CASE line = << >>
    <3>1. Len(line) = 0 /\ line'[Len(line) + 1] = new[1]
      BY <1>2, <1>5, <2>2
    <3> QED BY <1>2, <1>3, <2>1, <2>2, <3>1 DEF Pos, NextSent
  <2>3. CASE line # << >>
    BY <1>0, <1>5, <2>1, <2>3 DEF Pos
  <2> QED BY <2>2, <2>3
<1> QED BY <1>0, <1>1, <1>7, <1>8

(* The first bytes of a message, and what fp_serial_thread makes of them.  *)
LEMMA PrefixIs ==
  ASSUME NEW m \in Nat, NEW k \in Nat
  PROVE  /\ Prefix(m, k) \in Seq(LineBytes) /\ Len(Prefix(m, k)) = k
         /\ Append(Prefix(m, k), [msg |-> m, at |-> k + 1]) = Prefix(m, k + 1)
         /\ Prefix(m, 0) = << >>
         /\ k > 0 => Prefix(m, k)[1] = [msg |-> m, at |-> 1]
<1>1. Prefix(m, k) \in Seq(LineBytes) /\ Len(Prefix(m, k)) = k
  BY DEF Prefix, LineBytes
<1>2. Append(Prefix(m, k), [msg |-> m, at |-> k + 1]) = Prefix(m, k + 1)
  BY <1>1 DEF Prefix
<1>3. Prefix(m, 0) = << >>
  BY DEF Prefix
<1>4. k > 0 => Prefix(m, k)[1] = [msg |-> m, at |-> 1]
  BY DEF Prefix
<1> QED BY <1>1, <1>2, <1>3, <1>4

LEMMA NoPrefix == \A m \in Nat : m + 1 \in Nat /\ Prefix(m, 0) = << >> /\ Prefix(m + 1, 0) = << >>
BY DEF Prefix

LEMMA MessageWhole ==
  ASSUME NEW m \in Nat
  PROVE  Message(Prefix(m, Bytes(sent[m]))) = m
<1>1. Bytes(sent[m]) \in Nat /\ Bytes(sent[m]) > 0
  BY BytesIs
<1>2. Prefix(m, Bytes(sent[m]))[1] = [msg |-> m, at |-> 1]
  BY <1>1 DEF Prefix
<1>3. Prefix(m, Bytes(sent[m]))[1].msg = m
  BY <1>2
<1>4. Prefix(m, Bytes(sent[m])) = [i \in 1..Bytes(sent[m]) |-> [msg |-> m, at |-> i]]
  BY DEF Prefix
<1> QED BY <1>3, <1>4 DEF Message

LEMMA MessageNone ==
  ASSUME NEW bytes, Spoils(bytes), bytes \in Seq(LineBytes)
  PROVE  Message(bytes) = 0
<1> DEFINE m == bytes[1].msg
<1>1. PICK i \in 1..Len(bytes) : bytes[i] # [msg |-> m, at |-> i]
  BY DEF Spoils
<1>2. bytes # [k \in 1..Bytes(sent[m]) |-> [msg |-> m, at |-> k]]
  <2> SUFFICES ASSUME bytes = [k \in 1..Bytes(sent[m]) |-> [msg |-> m, at |-> k]] PROVE FALSE
    OBVIOUS
  <2>1. DOMAIN bytes = 1..Len(bytes) /\ DOMAIN bytes = 1..Bytes(sent[m])
    OBVIOUS
  <2>2. i \in 1..Bytes(sent[m])
    BY <2>1
  <2> QED BY <1>1, <2>2
<1> QED BY <1>2 DEF Message

(* Bytes that are no message stay none with another one behind them.       *)
LEMMA SpoiltOn ==
  ASSUME NEW bytes \in Seq(LineBytes), NEW b \in LineBytes, Len(bytes) > 0,
         Spoils(bytes) \/ b # [msg |-> bytes[1].msg, at |-> Len(bytes) + 1]
  PROVE  Spoils(Append(bytes, b))
<1> DEFINE new == Append(bytes, b)
<1>1. /\ new \in Seq(LineBytes) /\ Len(bytes) \in Nat /\ Len(new) = Len(bytes) + 1
      /\ new[Len(bytes) + 1] = b
      /\ \A i \in 1..Len(bytes) : i \in 1..Len(new) /\ new[i] = bytes[i]
  BY AppendIs
<1> HIDE DEF new
<1>2. new[1] = bytes[1]
  BY <1>1
<1>3. CASE Spoils(bytes)
  <2>1. PICK i \in 1..Len(bytes) : bytes[i] # [msg |-> bytes[1].msg, at |-> i]
    BY <1>3 DEF Spoils
  <2>2. i \in 1..Len(new) /\ new[i] # [msg |-> new[1].msg, at |-> i]
    BY <1>1, <1>2, <2>1
  <2>3. Spoils(new)
    BY <2>2 DEF Spoils
  <2> QED BY <2>3 DEF new
<1>4. CASE b # [msg |-> bytes[1].msg, at |-> Len(bytes) + 1]
  <2>1. Len(new) \in 1..Len(new) /\ new[Len(new)] # [msg |-> new[1].msg, at |-> Len(new)]
    BY <1>1, <1>2, <1>4
  <2>2. Spoils(new)
    BY <2>1 DEF Spoils
  <2> QED BY <2>2 DEF new
<1> QED BY <1>3, <1>4

LEMMA AgainIs ==
  ASSUME NEW bytes
  PROVE  Again(bytes) \in {<< >>, <<0>>, <<Message(bytes)>>}
BY DEF Again

(* A message is handled.                                                   *)
LEMMA HandlesOne ==
  ASSUME NEW got, NEW lost, NEW calm \in BOOLEAN, NEW m \in Nat \ {0}, lost < m,
         InSequence(got, lost, calm), HandledTo(got, lost, calm, m)
  PROVE  /\ InSequence(Append(got, m), lost, calm)
         /\ HandledTo(Append(got, m), lost, calm, m + 1)
         /\ \A more \in {<< >>, <<0>>, <<m>>} : AgainOK(Append(got, m), more)
<1> DEFINE new == Append(got, m)
<1>1. /\ got \in Seq(Nat) /\ lost \in Nat
      /\ \A i \in 1..Len(got) : got[i] < m /\ got[i] \in Nat
  BY DEF InSequence, HandledTo
<1>2. /\ new \in Seq(Nat) /\ Len(got) \in Nat /\ Len(new) = Len(got) + 1
      /\ new[Len(got) + 1] = m
      /\ \A i \in 1..Len(got) : i \in 1..Len(new) /\ new[i] = got[i]
      /\ \A i \in 1..Len(new) : i = Len(got) + 1 \/ i \in 1..Len(got)
  BY <1>1, AppendIs
<1> HIDE DEF new
<1>3. ASSUME NEW i \in 1..Len(new), NEW j \in 1..Len(new), i < j, 0 \notin {new[i], new[j]}
      PROVE  new[i] < new[j] \/ (new[i] = new[j] /\ ~calm)
  <2>1. i \in 1..Len(got)
    BY <1>2, <1>3
  <2>2. CASE j \in 1..Len(got)
    BY <1>2, <1>3, <2>1, <2>2 DEF InSequence
  <2>3. CASE j = Len(got) + 1
    BY <1>1, <1>2, <2>1, <2>3
  <2> QED BY <1>2, <2>2, <2>3
<1>4. ASSUME NEW i \in 1..Len(new), NEW j \in 1..Len(new), calm, new[i] = 0, new[j] = 0
      PROVE  lost # 0 /\ i = j
  BY <1>1, <1>2, <1>4 DEF InSequence
<1>5. InSequence(new, lost, calm)
  BY <1>1, <1>2, <1>3, <1>4 DEF InSequence
<1>6. Seen(new, m) /\ \A k : Seen(got, k) => Seen(new, k)
  BY <1>2 DEF Seen
<1>7. \A k : Seen(new, k) /\ k # m => Seen(got, k)
  BY <1>2 DEF Seen
<1>8. \A i \in 1..Len(new) : new[i] <= m /\ new[i] < m + 1
  <2> SUFFICES ASSUME NEW i \in 1..Len(new) PROVE new[i] <= m /\ new[i] < m + 1
    OBVIOUS
  <2>1. new[i] = m \/ (new[i] \in Nat /\ new[i] < m)
    BY <1>1, <1>2
  <2> QED BY <2>1
<1>9. HandledTo(new, lost, calm, m + 1)
  <2>1. ASSUME NEW k \in 1..m, lost = 0 \/ k < lost \/ (calm /\ k > lost + 1)
        PROVE  Seen(new, k)
    <3>1. k = m \/ k \in 1..(m - 1)
      OBVIOUS
    <3> QED BY <1>6, <2>1, <3>1 DEF HandledTo
  <2>2. ASSUME NEW k \in 1..m, NEW n \in 1..k, lost # 0, lost < n, Seen(new, n)
        PROVE  Seen(new, k)
    <3>1. CASE k = m
      BY <1>6, <3>1
    <3>2. CASE k # m
      <4>1. k \in 1..(m - 1) /\ n # m
        BY <3>2
      <4>2. Seen(got, n)
        BY <1>7, <2>2, <4>1
      <4> QED BY <1>6, <2>2, <4>1, <4>2 DEF HandledTo
    <3> QED BY <3>1, <3>2
  <2>3. (m + 1) - 1 = m
    OBVIOUS
  <2> QED BY <1>8, <2>1, <2>2, <2>3 DEF HandledTo
<1>10. ASSUME NEW more \in {<< >>, << 0 >>, <<m>>} PROVE AgainOK(new, more)
  <2>1. CASE more = << >>
    BY <2>1 DEF AgainOK
  <2>2. CASE more = <<0>>
    BY <2>2 DEF AgainOK
  <2>3. CASE more = <<m>>
    BY <1>6, <1>8, <2>3 DEF AgainOK
  <2> QED BY <2>1, <2>2, <2>3
<1> QED BY <1>5, <1>9, <1>10 DEF new

(* What never was sent is handled.                                         *)
LEMMA HandlesNone ==
  ASSUME NEW got, NEW lost \in Nat \ {0}, NEW calm \in BOOLEAN, InSequence(got, lost, calm),
         HandledBefore(got, lost), calm => ~Broken(got)
  PROVE  /\ InSequence(Append(got, 0), lost, calm) /\ HandledBefore(Append(got, 0), lost)
         /\ \A more \in {<< >>, <<0>>} : AgainOK(Append(got, 0), more)
<1> DEFINE new == Append(got, 0)
<1>1. /\ got \in Seq(Nat)
      /\ \A i \in 1..Len(got) : got[i] < lost /\ got[i] \in Nat /\ (calm => got[i] # 0)
  BY DEF InSequence, HandledBefore, Broken
<1>2. /\ new \in Seq(Nat) /\ Len(got) \in Nat /\ Len(new) = Len(got) + 1
      /\ new[Len(got) + 1] = 0
      /\ \A i \in 1..Len(got) : i \in 1..Len(new) /\ new[i] = got[i]
      /\ \A i \in 1..Len(new) : i = Len(got) + 1 \/ i \in 1..Len(got)
  BY <1>1, AppendIs
<1> HIDE DEF new
<1>3. ASSUME NEW i \in 1..Len(new), NEW j \in 1..Len(new), i < j, 0 \notin {new[i], new[j]}
      PROVE  new[i] < new[j] \/ (new[i] = new[j] /\ ~calm)
  <2>1. i \in 1..Len(got) /\ j \in 1..Len(got)
    BY <1>2, <1>3
  <2> QED BY <1>2, <1>3, <2>1 DEF InSequence
<1>4. ASSUME NEW i \in 1..Len(new), NEW j \in 1..Len(new), calm, new[i] = 0, new[j] = 0
      PROVE  lost # 0 /\ i = j
  BY <1>1, <1>2, <1>4
<1>5. InSequence(new, lost, calm)
  BY <1>1, <1>2, <1>3, <1>4 DEF InSequence
<1>6. HandledBefore(new, lost)
  <2>1. ASSUME NEW k \in 1..(lost - 1) PROVE Seen(new, k)
    BY <1>2 DEF HandledBefore, Seen
  <2>2. \A i \in 1..Len(new) : new[i] < lost
    BY <1>1, <1>2, SMTT(40)
  <2> QED BY <2>1, <2>2 DEF HandledBefore
<1>7. AgainOK(new, << >>) /\ AgainOK(new, <<0>>)
  BY DEF AgainOK
<1> QED BY <1>5, <1>6, <1>7 DEF new

(* The last message is handled again.                                      *)
LEMMA HandlesAgain ==
  ASSUME NEW got, NEW lost \in Nat \ {0}, NEW more, InSequence(got, lost, FALSE),
         HandledBefore(got, lost), AgainOK(got, more)
  PROVE  /\ InSequence(got \o more, lost, FALSE) /\ HandledBefore(got \o more, lost)
         /\ AgainOK(got \o more, more)
<1>0. got \in Seq(Nat) /\ \A i \in 1..Len(got) : got[i] < lost /\ got[i] \in Nat
  BY DEF InSequence, HandledBefore
<1>1. CASE more = << >>
  <2>1. got \o more = got
    BY <1>0, <1>1
  <2> QED BY <2>1
<1>2. CASE more = <<0>>
  <2>1. got \o more = Append(got, 0)
    BY <1>0, <1>2
  <2> QED BY <1>2, <2>1, HandlesNone
<1>3. ASSUME NEW n \in Nat \ {0}, more = <<n>>, Seen(got, n),
             \A i \in 1..Len(got) : got[i] <= n
      PROVE  /\ InSequence(got \o more, lost, FALSE) /\ HandledBefore(got \o more, lost)
             /\ AgainOK(got \o more, more)
  <2> DEFINE new == Append(got, n)
  <2>1. got \o more = new
    BY <1>0, <1>3
  <2>2. /\ new \in Seq(Nat) /\ Len(got) \in Nat /\ Len(new) = Len(got) + 1
        /\ new[Len(got) + 1] = n
        /\ \A i \in 1..Len(got) : i \in 1..Len(new) /\ new[i] = got[i]
        /\ \A i \in 1..Len(new) : i = Len(got) + 1 \/ i \in 1..Len(got)
    BY <1>0, AppendIs
  <2>3. n < lost
    BY <1>0, <1>3 DEF Seen
  <2> HIDE DEF new
  <2>4. ASSUME NEW i \in 1..Len(new), NEW j \in 1..Len(new), i < j, 0 \notin {new[i], new[j]}
        PROVE  new[i] < new[j] \/ new[i] = new[j]
    <3>1. i \in 1..Len(got)
      BY <2>2, <2>4
    <3>2. CASE j \in 1..Len(got)
      BY <2>2, <2>4, <3>1, <3>2 DEF InSequence
    <3>3. CASE j = Len(got) + 1
      <4>1. got[i] \in Nat /\ got[i] <= n
        BY <1>0, <1>3, <3>1
      <4>2. new[i] = got[i] /\ new[j] = n
        BY <2>2, <3>1, <3>3
      <4>3. got[i] < n \/ got[i] = n
        BY <4>1
      <4> QED BY <4>2, <4>3
    <3> QED BY <2>2, <3>2, <3>3
  <2>5. InSequence(new, lost, FALSE)
    BY <2>2, <2>4 DEF InSequence
  <2>6. HandledBefore(new, lost)
    <3>1. ASSUME NEW k \in 1..(lost - 1) PROVE Seen(new, k)
      BY <2>2 DEF HandledBefore, Seen
    <3>2. \A i \in 1..Len(new) : new[i] < lost
      BY <1>0, <2>2, <2>3
    <3> QED BY <3>1, <3>2 DEF HandledBefore
  <2>7. AgainOK(new, more)
    <3>1. Seen(new, n)
      BY <2>2 DEF Seen
    <3>2. \A i \in 1..Len(new) : new[i] <= n
      BY <1>3, <2>2
    <3> QED BY <1>3, <3>1, <3>2 DEF AgainOK
  <2> QED BY <2>1, <2>5, <2>6, <2>7
<1> QED BY <1>1, <1>2, <1>3 DEF AgainOK

(* In step again.                                                          *)
LEMMA HandledOn ==
  ASSUME NEW got, NEW lost \in Nat \ {0}, NEW calm \in BOOLEAN, NEW m \in Nat, lost < m,
         HandledBefore(got, lost), InSequence(got, lost, calm), calm => m \in {lost + 1, lost + 2}
  PROVE  HandledTo(got, lost, calm, m)
<1>1. \A i \in 1..Len(got) : got[i] \in Nat /\ got[i] < lost
  BY DEF HandledBefore, InSequence
<1>2. ASSUME NEW k \in 1..(m - 1), lost = 0 \/ k < lost \/ (calm /\ k > lost + 1)
      PROVE  Seen(got, k)
  <2>1. k \in 1..(lost - 1)
    BY <1>2
  <2> QED BY <2>1 DEF HandledBefore
<1>3. \A n \in Nat : lost < n => ~Seen(got, n)
  BY <1>1 DEF Seen
<1>4. \A i \in 1..Len(got) : got[i] < m
  BY <1>1
<1> QED BY <1>2, <1>3, <1>4 DEF HandledTo

LEMMA NothingLost ==
  ASSUME NEW got, NEW m \in Nat \ {0}, NEW calm \in BOOLEAN,
         HandledTo(got, 0, TRUE, m), InSequence(got, 0, TRUE)
  PROVE  HandledBefore(got, m) /\ InSequence(got, m, calm) /\ ~Broken(got)
BY DEF HandledTo, HandledBefore, InSequence, Broken

(* Less is claimed of a loss that turns out not to be calm.                *)
LEMMA LessCalm ==
  ASSUME NEW got, NEW lost, NEW c \in BOOLEAN, NEW d \in BOOLEAN, d => c
  PROVE  /\ InSequence(got, lost, c) => InSequence(got, lost, d)
         /\ \A m : HandledTo(got, lost, c, m) => HandledTo(got, lost, d, m)
BY DEF InSequence, HandledTo

-----------------------------------------------------------------------------
(* The serial line: the steps.                                             *)
LEMMA PosIs ==
  ASSUME LineInv
  PROVE  /\ Pos.msg \in Nat \ {0} /\ Pos.at \in Nat \ {0} /\ Len(sent) \in Nat
         /\ line = << >> => Pos = [msg |-> Len(sent) + 1, at |-> 1]
         /\ Pos.at > 1 => Pos.msg \in 1..Len(sent)
<1>1. Len(sent) \in Nat /\ line \in Seq(LineBytes)
  BY DEF LineInv
<1>2. CASE line = << >>
  BY <1>1, <1>2 DEF Pos, NextSent
<1>3. CASE line # << >>
  <2>1. 1 \in 1..Len(line) /\ Pos = line[1]
    BY <1>1, <1>3, TailIs DEF Pos
  <2>2. /\ line[1].msg \in 1..Len(sent)
        /\ line[1].at \in 1..Bytes(sent[line[1].msg])
    BY <2>1 DEF LineInv
  <2>3. Bytes(sent[line[1].msg]) \in Nat
    BY BytesIs
  <2> QED BY <1>1, <1>3, <2>1, <2>2, <2>3
<1> QED BY <1>2, <1>3

LEMMA CalmIs == Calm \in BOOLEAN /\ (hit = 0 => Calm)
BY DEF Calm

LEMMA ReaderBegins == SerialInit => ReaderInv
<1> SUFFICES ASSUME SerialInit PROVE ReaderInv
  OBVIOUS
<1>1. LineInv /\ hit \in 0..Len(sent)
  BY SerialAssumption DEF SerialInit, LineInv
<1>2. InSequence(handled, hit, Calm) /\ AgainOK(handled, again) /\ Filled
  BY DEF SerialInit, InSequence, AgainOK, Filled
<1>3. Pos = [msg |-> 1, at |-> 1]
  BY DEF Pos, NextSent, SerialInit
<1>4. Prefix(1, 0) = << >>
  BY PrefixIs
<1>5. Whole
  BY <1>3, <1>4 DEF Whole, HandledTo, SerialInit
<1> QED BY <1>1, <1>2, <1>5 DEF ReaderInv

(* What is out of step after a calm loss is out of step.                   *)
LEMMA CalmAstray ==
  ASSUME ReaderInv, Skips \/ Lacks
  PROVE  Astray
<1>1. LineInv /\ hit \in Nat /\ Pos.msg \in Nat
  BY PosIs DEF ReaderInv, InSequence
<1>2. CASE Skips
  BY <1>1, <1>2 DEF Skips, Astray
<1>3. CASE Lacks
  <2>1. hit \in Nat \ {0} /\ Bytes(sent[hit]) \in Nat /\ state \in Nat
    BY <1>1, <1>3, BytesIs DEF Lacks
  <2>2. Pos.msg = hit \/ Pos.msg = hit + 1
    BY <1>3 DEF Lacks, NextByte
  <2>3. hit <= Pos.msg
    BY <2>1, <2>2
  <2> QED BY <1>3, <2>1, <2>3 DEF Lacks, Astray
<1> QED BY <1>2, <1>3

LEMMA SendStep ==
  ASSUME ReaderInv, NEW code \in Messages, PanelSends(code)
  PROVE  ReaderInv'
<1>1. /\ LineInv' /\ Pos' = Pos /\ Len(sent') = Len(sent) + 1 /\ Len(sent) \in Nat
      /\ \A m \in 1..Len(sent) : m \in 1..Len(sent') /\ sent'[m] = sent[m]
  BY LineGrows DEF ReaderInv
<1>2. UNCHANGED <<hit, state, cmd_length, buf, again, handled>>
  BY DEF PanelSends
<1>3. hit \in 0..Len(sent) /\ hit' \in 0..Len(sent')
  BY <1>1, <1>2 DEF ReaderInv
<1>4. Calm' => Calm
  <2> SUFFICES ASSUME Calm', hit # 0 PROVE Calm
    BY DEF Calm
  <2>1. sent'[hit] = sent[hit]
    BY <1>1, <1>3
  <2>2. hit < Len(sent) => hit < Len(sent') /\ sent'[hit + 1] = sent[hit + 1]
    <3> SUFFICES ASSUME hit < Len(sent)
                 PROVE  hit < Len(sent') /\ sent'[hit + 1] = sent[hit + 1]
      OBVIOUS
    <3>1. hit + 1 \in 1..Len(sent) /\ hit < Len(sent) + 1
      BY <1>1, <1>3
    <3> QED BY <1>1, <3>1
  <2> QED BY <1>2, <2>1, <2>2 DEF Calm, Plain, Unanswered
<1>5. /\ InSequence(handled', hit', Calm') /\ AgainOK(handled', again') /\ Filled'
  <2>1. InSequence(handled, hit, Calm')
    BY <1>4, CalmIs, LessCalm DEF ReaderInv, Calm
  <2> QED BY <1>2, <2>1 DEF ReaderInv, Filled
<1>6. CASE Whole
  <2>1. state >= 2 => cmd_length + 2 = Bytes(sent'[Pos.msg])
    <3>1. state >= 2 => Pos.msg \in 1..Len(sent)
      BY <1>6, PosIs DEF ReaderInv, Whole
    <3> QED BY <1>1, <1>6, <3>1 DEF Whole
  <2>2. HandledTo(handled, hit, Calm', Pos.msg)
    BY <1>4, <1>6, CalmIs, LessCalm DEF Whole, Calm
  <2>3. Whole'
    BY <1>1, <1>2, <1>6, <2>1, <2>2 DEF Whole
  <2> QED BY <1>1, <1>3, <1>5, <2>3 DEF ReaderInv
<1>7. CASE Astray /\ ~Calm'
  <2>1. Omits => Omits'
    <3> SUFFICES ASSUME Omits PROVE Omits'
      OBVIOUS
    <3>1. sent'[hit] = sent[hit]
      BY <1>1, <1>3, <1>7 DEF Astray
    <3> QED BY <1>1, <1>2, <3>1 DEF Omits, NextByte
  <2>2. Astray'
    BY <1>1, <1>2, <1>7, <2>1 DEF Astray, Resting, Garbled
  <2> QED BY <1>1, <1>3, <1>5, <1>7, <2>2 DEF ReaderInv
<1>8. CASE Skips /\ Calm'
  <2>1. Skips'
    BY <1>1, <1>2, <1>8 DEF Skips, Resting
  <2> QED BY <1>1, <1>3, <1>5, <1>8, <2>1 DEF ReaderInv
<1>9. CASE Lacks /\ Calm'
  <2>1. hit \in 1..Len(sent') /\ sent'[hit] = sent[hit]
    BY <1>1, <1>9 DEF Lacks
  <2>2. NextByte(sent', [msg |-> hit, at |-> state + 1]) = NextByte(sent, [msg |-> hit, at |-> state + 1])
    BY <2>1 DEF NextByte
  <2>3. Lacks'
    BY <1>1, <1>2, <1>9, <2>1, <2>2 DEF Lacks, Garbled, Omits
  <2> QED BY <1>1, <1>3, <1>5, <1>9, <2>3 DEF ReaderInv
<1> QED BY <1>4, <1>6, <1>7, <1>8, <1>9, CalmAstray DEF ReaderInv

LEMMA LoseStep ==
  ASSUME ReaderInv, Lose
  PROVE  ReaderInv'
<1>1. LineInv /\ line # << >> /\ line' = Tail(line) /\ UNCHANGED sent
  BY DEF ReaderInv, Lose
<1>2. /\ LineInv' /\ Head(line) = Pos /\ Pos' = NextByte(sent, Pos)
      /\ Pos.msg \in 1..Len(sent) /\ Pos.at \in 1..Bytes(sent[Pos.msg])
      /\ Pos = [msg |-> Pos.msg, at |-> Pos.at]
  BY <1>1, LineMoves
<1>3. Whole /\ Calm
  BY CalmIs DEF ReaderInv, Lose, Astray, Skips, Lacks
<1>4. /\ Pos.msg \in Nat \ {0} /\ Pos.at \in Nat \ {0} /\ Len(sent) \in Nat
      /\ Bytes(sent[Pos.msg]) \in {2, 4, 6, 9}
  BY <1>1, PosIs, BytesIs
<1>5. /\ hit' = Pos.msg /\ UNCHANGED <<sent, state, cmd_length, buf, again, handled>> /\ hit = 0
  BY <1>2 DEF Lose
<1>6. HandledBefore(handled, hit') /\ InSequence(handled, hit', Calm') /\ ~Broken(handled)
  <2>1. HandledTo(handled, 0, TRUE, Pos.msg) /\ InSequence(handled, 0, TRUE)
    BY <1>3, <1>5, LessCalm, CalmIs DEF Whole, ReaderInv
  <2>2. Calm' \in BOOLEAN
    BY DEF Calm
  <2> QED BY <1>4, <1>5, <2>1, <2>2, NothingLost
<1>7. hit' \in 0..Len(sent') /\ InSequence(handled', hit', Calm') /\ AgainOK(handled', again')
      /\ Filled' /\ hit' # 0
  BY <1>2, <1>4, <1>5, <1>6 DEF ReaderInv, Filled
<1>8. CASE state = 0
  <2>1. Pos' = [msg |-> Pos.msg, at |-> 2]
    BY <1>2, <1>3, <1>4, <1>8 DEF Whole, NextByte
  <2>2. buf = << >>
    BY <1>3, <1>4, <1>8, PrefixIs DEF Whole
  <2>3. Resting' /\ Skips'
    BY <1>4, <1>5, <1>6, <1>8, <2>1, <2>2 DEF Skips, Resting
  <2>4. Astray'
    BY <1>4, <1>5, <1>6, <2>1, <2>3 DEF Astray
  <2> QED BY <1>2, <1>7, <2>3, <2>4 DEF ReaderInv
<1>9. CASE state # 0
  <2>1. state \in Nat /\ state > 0 /\ Pos.at = state + 1
    BY <1>3, <1>4, <1>9 DEF Whole
  <2>2. buf = Prefix(Pos.msg, state) /\ buf[1] = [msg |-> Pos.msg, at |-> 1]
    BY <1>3, <1>4, <2>1, PrefixIs DEF Whole
  <2>3. Pos' = NextByte(sent, [msg |-> Pos.msg, at |-> state + 1])
    BY <1>2, <2>1
  <2>4. state \in 1..(Bytes(sent[Pos.msg]) - 1)
    BY <1>2, <1>4, <2>1
  <2>5. state >= 2 => cmd_length + 2 = Bytes(sent[Pos.msg])
    BY <1>3 DEF Whole
  <2>6. Omits'
    BY <1>5, <2>1, <2>2, <2>3 DEF Omits
  <2>7. Lacks'
    BY <1>2, <1>5, <1>6, <2>2, <2>3, <2>4, <2>5, <2>6 DEF Lacks
  <2>8. Astray'
    <3>1. Pos'.msg = Pos.msg \/ Pos'.msg = Pos.msg + 1
      BY <2>3 DEF NextByte
    <3>2. hit' <= Pos'.msg
      BY <1>4, <1>5, <3>1
    <3> QED BY <1>5, <1>6, <1>7, <2>6, <3>2 DEF Astray
  <2> QED BY <1>2, <1>7, <2>7, <2>8 DEF ReaderInv
<1> QED BY <1>8, <1>9

(* What is known when fp_read_msg takes a byte.                            *)
LEMMA ByteTaken ==
  ASSUME ReaderInv, fp_read_msg
  PROVE  /\ LineInv' /\ Pos' = NextByte(sent, Pos) /\ UNCHANGED <<sent, hit>>
         /\ Pos.msg \in 1..Len(sent) /\ Pos.at \in 1..Bytes(sent[Pos.msg])
         /\ Pos = [msg |-> Pos.msg, at |-> Pos.at] /\ Pos \in LineBytes
         /\ Pos.msg \in Nat \ {0} /\ Pos.at \in Nat \ {0} /\ Len(sent) \in Nat
         /\ Bytes(sent[Pos.msg]) \in {2, 4, 6, 9}
         /\ sent[Pos.msg][1] \in {"5a", "55"}
         /\ WaitForStart(Pos) \/ ReadCommand(Pos) \/ ReadData(Pos)
         /\ InSequence(handled, hit, Calm) /\ (Calm' <=> Calm) /\ Calm \in BOOLEAN
         /\ AgainOK(handled, again) /\ Filled' /\ state \in Nat /\ hit' \in 0..Len(sent')
<1>1. LineInv /\ line # << >> /\ line' = Tail(line) /\ UNCHANGED <<sent, hit>>
  BY DEF ReaderInv, fp_read_msg
<1>2. /\ LineInv' /\ Head(line) = Pos /\ Pos' = NextByte(sent, Pos)
      /\ Pos.msg \in 1..Len(sent) /\ Pos.at \in 1..Bytes(sent[Pos.msg])
      /\ Pos = [msg |-> Pos.msg, at |-> Pos.at]
  BY <1>1, LineMoves
<1>3. /\ Pos.msg \in Nat \ {0} /\ Pos.at \in Nat \ {0} /\ Len(sent) \in Nat
      /\ Bytes(sent[Pos.msg]) \in {2, 4, 6, 9}
  BY <1>1, PosIs, BytesIs
<1>4. Pos \in LineBytes
  BY <1>2, <1>3 DEF LineBytes
<1>5. WaitForStart(Pos) \/ ReadCommand(Pos) \/ ReadData(Pos)
  BY <1>2 DEF fp_read_msg
<1>6. sent[Pos.msg][1] \in {"5a", "55"}
  <2>1. sent \in Seq(Messages)
    BY <1>1 DEF LineInv
  <2>2. sent[Pos.msg] \in Messages
    BY <1>2, <2>1
  <2> QED BY <2>2, SerialAssumption
<1>7. (Calm' <=> Calm) /\ Calm \in BOOLEAN
  BY <1>1 DEF Calm, Plain, Unanswered
<1>8. Filled'
  <2>1. Filled
    BY DEF ReaderInv
  <2>2. CASE WaitForStart(Pos)
    BY <2>1, <2>2 DEF Filled, WaitForStart
  <2>3. CASE ReadCommand(Pos)
    <3>1. cmd_length' \in {0, 2, 4, 7}
      BY <2>3, AnswersAre DEF ReadCommand
    <3>2. CASE cmd_length' = 0
      BY <2>3, <3>1, <3>2 DEF Filled, ReadCommand, Deliver
    <3>3. CASE cmd_length' # 0
      BY <2>3, <3>1, <3>3 DEF Filled, ReadCommand
    <3> QED BY <3>2, <3>3
  <2>4. CASE ReadData(Pos)
    <3>1. CASE state = 1 + cmd_length
      BY <2>1, <2>4, <3>1 DEF Filled, ReadData, Deliver
    <3>2. CASE state # 1 + cmd_length
      BY <2>1, <2>4, <3>2 DEF Filled, ReadData
    <3> QED BY <3>1, <3>2
  <2> QED BY <1>5, <2>2, <2>3, <2>4
<1> QED BY <1>1, <1>2, <1>3, <1>4, <1>5, <1>6, <1>7, <1>8 DEF ReaderInv, Filled

(* Nothing is lost of what is read: the message is handled with its last   *)
(* byte.                                                                   *)
LEMMA WholeRead ==
  ASSUME ReaderInv, fp_read_msg, Whole
  PROVE  ReaderInv'
<1> DEFINE m == Pos.msg
           size == Bytes(sent[Pos.msg])
<1>1. /\ LineInv' /\ Pos' = NextByte(sent, Pos) /\ UNCHANGED <<sent, hit>>
      /\ m \in 1..Len(sent) /\ Pos.at \in 1..size
      /\ Pos = [msg |-> m, at |-> Pos.at] /\ m \in Nat \ {0}
      /\ Pos.at \in Nat \ {0} /\ size \in {2, 4, 6, 9} /\ sent[m][1] \in {"5a", "55"}
      /\ WaitForStart(Pos) \/ ReadCommand(Pos) \/ ReadData(Pos)
      /\ InSequence(handled, hit, Calm) /\ (Calm' <=> Calm) /\ Calm \in BOOLEAN
      /\ AgainOK(handled, again) /\ Filled' /\ hit' \in 0..Len(sent')
  BY ByteTaken
<1>2. /\ state = Pos.at - 1 /\ buf = Prefix(m, state)
      /\ state >= 2 => cmd_length + 2 = size
      /\ HandledTo(handled, hit, Calm, m) /\ hit < m
  BY DEF Whole
<1>3. /\ state \in Nat /\ Pos.at = state + 1 /\ state < size
      /\ Append(buf, Pos) = Prefix(m, state + 1)
      /\ state = 1 => buf[1] = [msg |-> m, at |-> 1]
  <2>1. state \in Nat /\ Pos.at = state + 1 /\ state < size
    BY <1>1, <1>2
  <2>2. Append(buf, Pos) = Prefix(m, state + 1)
    BY <1>1, <1>2, <2>1, PrefixIs
  <2>3. state = 1 => buf[1] = [msg |-> m, at |-> 1]
    <3>1. Prefix(m, 1)[1] = [msg |-> m, at |-> 1]
      BY DEF Prefix
    <3> QED BY <1>2, <3>1
  <2> QED BY <2>1, <2>2, <2>3
<1>4. Pos' = IF state + 1 < size THEN [msg |-> m, at |-> state + 2]
             ELSE [msg |-> m + 1, at |-> 1]
  BY <1>1, <1>3 DEF NextByte
<1>5. ASSUME state + 1 < size, state' = state + 1, buf' = Append(buf, Pos),
             UNCHANGED <<again, handled>>, state + 1 >= 2 => cmd_length' + 2 = size
      PROVE  ReaderInv'
  <2>1. Pos'.msg = m /\ Pos'.at = state + 2
    BY <1>4, <1>5
  <2>2. HandledTo(handled', hit', Calm', Pos'.msg) /\ InSequence(handled', hit', Calm')
    BY <1>1, <1>2, <1>5, <2>1, LessCalm DEF Calm
  <2>3. Whole'
    BY <1>1, <1>2, <1>3, <1>5, <2>1, <2>2 DEF Whole
  <2> QED BY <1>1, <1>5, <2>2, <2>3 DEF ReaderInv
<1>6. ASSUME state + 1 = size, Deliver(Append(buf, Pos))
      PROVE  ReaderInv'
  <2>1. Message(Append(buf, Pos)) = m
    BY <1>1, <1>3, <1>6, MessageWhole
  <2>2. handled' = Append(handled, m) /\ again' \in {<< >>, <<0>>, <<m>>}
    BY <1>6, <2>1, AgainIs DEF Deliver
  <2>3. /\ InSequence(handled', hit, Calm) /\ HandledTo(handled', hit, Calm, m + 1)
        /\ AgainOK(handled', again')
    BY <1>1, <1>2, <2>2, HandlesOne
  <2>4. /\ InSequence(handled', hit', Calm') /\ HandledTo(handled', hit', Calm', m + 1)
    BY <1>1, <2>3, LessCalm DEF Calm
  <2>5. Pos'.msg = m + 1 /\ Pos'.at = 1
    BY <1>1, <1>3, <1>4, <1>6
  <2>6. state' = 0 /\ buf' = Prefix(m + 1, 0)
    BY <1>1, <1>6, NoPrefix DEF Deliver
  <2>7. hit < m + 1
    BY <1>1, <1>2 DEF InSequence
  <2>8. Whole'
    BY <1>1, <2>4, <2>5, <2>6, <2>7 DEF Whole
  <2> QED BY <1>1, <2>3, <2>4, <2>8 DEF ReaderInv
<1>7. CASE WaitForStart(Pos)
  <2>1. Content(Pos) \in {"5a", "55"} /\ state = 0
    <3>1. state = 0 /\ Pos.at = 1
      BY <1>3, <1>7 DEF WaitForStart
    <3> QED BY <1>1, <3>1 DEF Content
  <2>2. buf' = <<Pos>> /\ state' = 1 /\ UNCHANGED <<again, handled>>
    BY <1>7, <2>1 DEF WaitForStart, Starts
  <2>3. buf = << >>
    BY <1>1, <1>2, <2>1, PrefixIs
  <2>4. buf' = Append(buf, Pos)
    BY <2>2, <2>3
  <2>5. state + 1 < size /\ state' = state + 1 /\ ~(state + 1 >= 2)
    BY <1>1, <2>1, <2>2
  <2> QED BY <1>5, <2>2, <2>4, <2>5
<1>8. CASE ReadCommand(Pos)
  <2>1. state = 1 /\ Pos.at = 2
    BY <1>3, <1>8 DEF ReadCommand
  <2>2. cmd_length' \in {0, 2, 4, 7} /\ cmd_length' + 2 = size
    <3>1. cmd_length' = IF sent[m][1] = "55" THEN 2 ELSE get_answer_length(sent[m][2])
      BY <1>3, <1>8, <2>1 DEF ReadCommand, Raw, Content
    <3> QED BY <3>1, BytesIs, AnswersAre
  <2>3. CASE cmd_length' = 0
    <3>1. Deliver(Append(buf, Pos)) /\ state + 1 = size
      BY <1>8, <2>1, <2>2, <2>3 DEF ReadCommand
    <3> QED BY <1>6, <3>1
  <2>4. CASE cmd_length' # 0
    <3>1. /\ state' = state + 1 /\ buf' = Append(buf, Pos) /\ UNCHANGED <<again, handled>>
          /\ state + 1 < size
      BY <1>1, <1>8, <2>1, <2>2, <2>4 DEF ReadCommand
    <3> QED BY <1>5, <2>2, <3>1
  <2> QED BY <2>3, <2>4
<1>9. CASE ReadData(Pos)
  <2>1. state >= 2 /\ cmd_length' = cmd_length /\ cmd_length + 2 = size /\ cmd_length \in Nat
    BY <1>2, <1>9 DEF ReadData, ReaderInv, Filled
  <2>2. CASE state = 1 + cmd_length
    <3>1. Deliver(Append(buf, Pos)) /\ state + 1 = size
      BY <1>1, <1>9, <2>1, <2>2 DEF ReadData
    <3> QED BY <1>6, <3>1
  <2>3. CASE state # 1 + cmd_length
    <3>1. /\ state' = state + 1 /\ buf' = Append(buf, Pos) /\ UNCHANGED <<again, handled>>
      BY <1>9, <2>3 DEF ReadData
    <3>2. state + 1 < size
      BY <1>1, <1>3, <2>1, <2>3
    <3> QED BY <1>5, <2>1, <3>1, <3>2
  <2> QED BY <2>2, <2>3
<1> QED BY <1>1, <1>7, <1>8, <1>9

(* Resting two messages, or in the middle of one, with nothing collected.  *)
LEMMA OnFrom ==
  ASSUME ReaderInv, fp_read_msg, state' = 0, buf' = << >>,
         hit # 0, hit <= Pos.msg, HandledBefore(handled', hit),
         InSequence(handled', hit, Calm), AgainOK(handled', again'),
         Calm => Pos'.msg \in {hit, hit + 1, hit + 2} /\ (Pos'.at > 1 => Pos'.msg # hit + 2)
  PROVE  ReaderInv'
<1>1. /\ LineInv' /\ Pos' = NextByte(sent, Pos) /\ UNCHANGED <<sent, hit>>
      /\ Pos.msg \in Nat \ {0} /\ Pos.at \in Nat \ {0}
      /\ Bytes(sent[Pos.msg]) \in {2, 4, 6, 9}
      /\ (Calm' <=> Calm) /\ Calm \in BOOLEAN /\ Filled' /\ hit' \in 0..Len(sent')
  BY ByteTaken
<1>2. InSequence(handled', hit', Calm') /\ hit \in Nat \ {0}
  BY <1>1, LessCalm DEF Calm, InSequence
<1>3. CASE Pos.at < Bytes(sent[Pos.msg])
  <2>1. Pos'.msg = Pos.msg /\ Pos'.at = Pos.at + 1
    BY <1>1, <1>3 DEF NextByte
  <2>2. Resting' /\ Pos'.at > 1
    BY <1>1, <2>1 DEF Resting
  <2>3. Astray' /\ (Calm' => Skips')
    BY <1>1, <2>1, <2>2 DEF Astray, Skips
  <2> QED BY <1>1, <1>2, <2>3 DEF ReaderInv
<1>4. CASE ~(Pos.at < Bytes(sent[Pos.msg]))
  <2>1. Pos'.msg = Pos.msg + 1 /\ Pos'.at = 1
    BY <1>1, <1>4 DEF NextByte
  <2>2. hit < Pos.msg + 1
    BY <1>1, <1>2
  <2>3. HandledTo(handled', hit, Calm, Pos.msg + 1)
    <3>1. Calm => Pos.msg + 1 \in {hit + 1, hit + 2}
      BY <1>1, <1>2, <2>1, <2>2
    <3> QED BY <1>1, <1>2, <2>2, <3>1, HandledOn
  <2>4. buf' = Prefix(Pos.msg + 1, 0)
    BY <1>1, NoPrefix
  <2>5. HandledTo(handled', hit', Calm', Pos'.msg)
    BY <1>1, <2>1, <2>3, LessCalm DEF Calm
  <2>6. Whole'
    BY <1>1, <2>1, <2>2, <2>4, <2>5 DEF Whole
  <2> QED BY <1>1, <1>2, <2>6 DEF ReaderInv
<1> QED BY <1>3, <1>4

(* What is left of a message is skipped: after a calm loss nothing in it   *)
(* looks like anything else.                                               *)
LEMMA SkipsRead ==
  ASSUME ReaderInv, fp_read_msg, Skips, Calm
  PROVE  ReaderInv'
<1>1. /\ Pos' = NextByte(sent, Pos) /\ UNCHANGED <<sent, hit>>
      /\ Pos.msg \in Nat \ {0} /\ Pos.at \in Nat \ {0} /\ Pos.msg \in 1..Len(sent)
      /\ Pos.at \in 1..Bytes(sent[Pos.msg]) /\ Bytes(sent[Pos.msg]) \in {2, 4, 6, 9}
      /\ WaitForStart(Pos) \/ ReadCommand(Pos) \/ ReadData(Pos)
      /\ InSequence(handled, hit, Calm) /\ AgainOK(handled, again)
  BY ByteTaken
<1>2. /\ hit # 0 /\ state = 0 /\ buf = << >> /\ Pos.at > 1
      /\ Pos.msg \in {hit, hit + 1} /\ HandledBefore(handled, hit)
  BY DEF Skips, Resting
<1>3. hit \in Nat \ {0}
  BY <1>1, <1>2 DEF InSequence
<1>4. Content(Pos) \notin {"5a", "55", "ff"}
  <2>1. Plain(sent[Pos.msg])
    <3>1. CASE Pos.msg = hit
      BY <1>2, <3>1 DEF Calm
    <3>2. CASE Pos.msg = hit + 1
      <4>1. hit < Len(sent)
        BY <1>1, <1>3, <3>2
      <4> QED BY <1>2, <3>2, <4>1 DEF Calm
    <3> QED BY <1>2, <3>1, <3>2
  <2>2. Pos.at \in 2..Bytes(sent[Pos.msg])
    BY <1>1, <1>2
  <2> QED BY <2>1, <2>2 DEF Plain, Content
<1>5. WaitForStart(Pos)
  BY <1>1, <1>2 DEF ReadCommand, ReadData
<1>6. state' = 0 /\ buf' = << >> /\ UNCHANGED <<again, handled>>
  BY <1>4, <1>5 DEF WaitForStart, Starts
<1>7. hit <= Pos.msg
  BY <1>2, <1>3
<1>8. Pos'.msg \in {hit, hit + 1, hit + 2} /\ (Pos'.at > 1 => Pos'.msg # hit + 2)
  <2>1. Pos'.msg = Pos.msg \/ (Pos'.msg = Pos.msg + 1 /\ Pos'.at = 1)
    BY <1>1 DEF NextByte
  <2> QED BY <1>2, <1>3, <2>1
<1> QED BY <1>1, <1>2, <1>6, <1>7, <1>8, OnFrom

(* A byte of what follows is taken for the lost one: when the message has  *)
(* its length it is one that was never sent, and the rest is skipped.      *)
LEMMA LacksRead ==
  ASSUME ReaderInv, fp_read_msg, Lacks, Calm
  PROVE  ReaderInv'
<1> DEFINE size == Bytes(sent[hit])
<1>1. /\ LineInv' /\ Pos' = NextByte(sent, Pos) /\ UNCHANGED <<sent, hit>>
      /\ Pos.msg \in Nat \ {0} /\ Pos.at \in Nat \ {0} /\ Pos \in LineBytes
      /\ Bytes(sent[Pos.msg]) \in {2, 4, 6, 9} /\ sent[Pos.msg][1] \in {"5a", "55"}
      /\ WaitForStart(Pos) \/ ReadCommand(Pos) \/ ReadData(Pos)
      /\ InSequence(handled, hit, Calm) /\ Calm' /\ Filled' /\ AgainOK(handled, again)
      /\ hit' \in 0..Len(sent')
  BY ByteTaken
<1>2. /\ hit \in 1..Len(sent) /\ state \in 1..(size - 1)
      /\ Garbled \/ Omits
      /\ buf[1] = [msg |-> hit, at |-> 1]
      /\ Pos = NextByte(sent, [msg |-> hit, at |-> state + 1])
      /\ state >= 2 => cmd_length + 2 = size
      /\ HandledBefore(handled, hit) /\ ~Broken(handled)
  BY DEF Lacks
<1>3. hit \in Nat \ {0} /\ size \in {2, 4, 6, 9} /\ state \in Nat /\ state > 0 /\ state < size
  <2>1. size \in {2, 4, 6, 9}
    BY BytesIs
  <2>2. hit \in Nat /\ hit > 0
    BY <1>1, <1>2 DEF InSequence
  <2> QED BY <1>2, <2>1, <2>2
<1>4. Pos = IF state + 1 < size THEN [msg |-> hit, at |-> state + 2]
            ELSE [msg |-> hit + 1, at |-> 1]
  BY <1>2, <1>3 DEF NextByte
<1>5. /\ Append(buf, Pos) \in Seq(LineBytes) /\ Len(Append(buf, Pos)) = state + 1
      /\ Append(buf, Pos)[1] = [msg |-> hit, at |-> 1] /\ Spoils(Append(buf, Pos))
  <2>1. buf \in Seq(LineBytes) /\ Len(buf) = state
    BY <1>2, <1>3, PrefixIs DEF Garbled, Omits
  <2>2. 1 \in 1..Len(buf)
    BY <1>3, <2>1
  <2>3. Pos # [msg |-> buf[1].msg, at |-> Len(buf) + 1]
    BY <1>2, <1>3, <1>4, <2>1
  <2>4. Spoils(Append(buf, Pos))
    BY <1>1, <2>1, <2>2, <2>3, SpoiltOn
  <2> QED BY <1>1, <1>2, <2>1, <2>2, <2>4, AppendIs
<1>6. ASSUME state + 1 < size, state' = state + 1, buf' = Append(buf, Pos),
             UNCHANGED <<again, handled>>, cmd_length' + 2 = size
      PROVE  ReaderInv'
  <2>1. Pos' = NextByte(sent, [msg |-> hit, at |-> (state + 1) + 1])
    BY <1>1, <1>3, <1>4, <1>6
  <2>2. state' \in 1..(size - 1)
    BY <1>3, <1>6
  <2>3. Garbled'
    BY <1>3, <1>5, <1>6 DEF Garbled
  <2>4. Lacks'
    BY <1>1, <1>2, <1>5, <1>6, <2>1, <2>2, <2>3 DEF Lacks
  <2>5. InSequence(handled', hit', Calm')
    BY <1>1, <1>6, LessCalm DEF Calm
  <2> QED BY <1>1, <1>6, <2>4, <2>5 DEF ReaderInv
<1>7. ASSUME Deliver(Append(buf, Pos)), state = 1 \/ state + 1 = size
      PROVE  ReaderInv'
  <2>1. Message(Append(buf, Pos)) = 0
    BY <1>5, MessageNone
  <2>2. handled' = Append(handled, 0) /\ again' \in {<< >>, <<0>>} /\ state' = 0 /\ buf' = << >>
    BY <1>7, <2>1, AgainIs DEF Deliver
  <2>3. InSequence(handled', hit, Calm) /\ HandledBefore(handled', hit) /\ AgainOK(handled', again')
    BY <1>1, <1>2, <1>3, <2>2, HandlesNone
  <2>4. hit <= Pos.msg /\ Pos.msg \in {hit, hit + 1}
    BY <1>3, <1>4
  <2>5. Pos'.at > 1 /\ Pos'.msg \in {hit, hit + 1}
    <3>1. CASE state + 1 < size
      <4>1. Pos = [msg |-> hit, at |-> 3] /\ size \in {4, 6, 9}
        BY <1>3, <1>4, <1>7, <3>1
      <4> QED BY <1>1, <4>1 DEF NextByte
    <3>2. CASE ~(state + 1 < size)
      <4>1. Pos = [msg |-> hit + 1, at |-> 1]
        BY <1>4, <3>2
      <4>2. Pos' = [msg |-> hit + 1, at |-> 2]
        BY <1>1, <4>1 DEF NextByte
      <4> QED BY <4>2
    <3> QED BY <3>1, <3>2
  <2>6. Pos'.msg \in {hit, hit + 1, hit + 2} /\ Pos'.msg # hit + 2
    BY <1>3, <2>5
  <2> QED BY <1>3, <2>2, <2>3, <2>4, <2>6, OnFrom
<1>8. ~WaitForStart(Pos)
  BY <1>3 DEF WaitForStart
<1>9. CASE ReadCommand(Pos)
  <2>1. state = 1
    BY <1>9 DEF ReadCommand
  <2>2. cmd_length' = IF sent[hit][1] = "55" THEN 2 ELSE get_answer_length(Content(Pos))
    BY <1>2, <1>9 DEF ReadCommand, Raw, Content
  <2>3. CASE sent[hit][1] = "55"
    <3>1. size = 4 /\ cmd_length' = 2
      BY <2>2, <2>3, BytesIs
    <3>2. state' = state + 1 /\ buf' = Append(buf, Pos) /\ UNCHANGED <<again, handled>>
      BY <1>9, <2>1, <3>1 DEF ReadCommand
    <3> QED BY <1>6, <2>1, <3>1, <3>2
  <2>4. CASE sent[hit][1] # "55"
    <3>1. get_answer_length(Content(Pos)) = 0
      <4>1. CASE state + 1 < size
        <5>1. Content(Pos) = sent[hit][3] /\ size > 2
          BY <1>3, <1>4, <2>1, <4>1 DEF Content
        <5>2. sent[hit][1] = "5a"
          <6>1. sent \in Seq(Messages)
            BY DEF ReaderInv, LineInv
          <6>2. sent[hit] \in Messages
            BY <1>2, <6>1
          <6> QED BY <2>4, <6>2, SerialAssumption
        <5>3. Unanswered(sent[hit])
          BY <1>3 DEF Calm
        <5> QED BY <5>1, <5>2, <5>3 DEF Unanswered
      <4>2. CASE ~(state + 1 < size)
        <5>1. Content(Pos) \in {"5a", "55"}
          <6>1. Pos.at = 1
            BY <1>4, <4>2
          <6> QED BY <1>1, <6>1 DEF Content
        <5> QED BY <5>1, AnswersAre
      <4> QED BY <4>1, <4>2
    <3>2. Deliver(Append(buf, Pos))
      BY <1>9, <2>2, <2>4, <3>1 DEF ReadCommand
    <3> QED BY <1>7, <2>1, <3>2
  <2> QED BY <2>3, <2>4
<1>10. CASE ReadData(Pos)
  <2>1. state >= 2 /\ cmd_length' = cmd_length /\ cmd_length + 2 = size /\ cmd_length \in Nat
    BY <1>2, <1>10 DEF ReadData, ReaderInv, Filled
  <2>2. CASE state = 1 + cmd_length
    <3>1. Deliver(Append(buf, Pos)) /\ state + 1 = size
      BY <1>10, <2>1, <2>2 DEF ReadData
    <3> QED BY <1>7, <3>1
  <2>3. CASE state # 1 + cmd_length
    <3>1. /\ state' = state + 1 /\ buf' = Append(buf, Pos) /\ UNCHANGED <<again, handled>>
      BY <1>10, <2>3 DEF ReadData
    <3>2. state + 1 < size
      BY <1>3, <2>1, <2>3
    <3> QED BY <1>6, <2>1, <3>1, <3>2
  <2> QED BY <2>2, <2>3
<1> QED BY <1>1, <1>8, <1>9, <1>10

(* Out of step, anything may be taken for a message, but never for one     *)
(* that was sent.                                                          *)
LEMMA AstrayRead ==
  ASSUME ReaderInv, fp_read_msg, Astray, ~Calm
  PROVE  ReaderInv'
<1>1. /\ LineInv' /\ Pos' = NextByte(sent, Pos) /\ UNCHANGED <<sent, hit>>
      /\ Pos.msg \in Nat \ {0} /\ Pos.at \in Nat \ {0} /\ Pos \in LineBytes
      /\ Pos = [msg |-> Pos.msg, at |-> Pos.at]
      /\ WaitForStart(Pos) \/ ReadCommand(Pos) \/ ReadData(Pos)
      /\ InSequence(handled, hit, FALSE) /\ ~Calm' /\ Filled' /\ AgainOK(handled, again)
      /\ state \in Nat /\ hit' \in 0..Len(sent')
  BY ByteTaken, LessCalm
<1>2. /\ hit # 0 /\ hit <= Pos.msg /\ HandledBefore(handled, hit) /\ hit \in Nat \ {0}
      /\ Resting \/ Garbled \/ Omits
  BY <1>1 DEF Astray, InSequence
<1>3. hit' <= Pos'.msg
  <2>1. Pos'.msg = Pos.msg \/ Pos'.msg = Pos.msg + 1
    BY <1>1 DEF NextByte
  <2> QED BY <1>1, <1>2, <2>1
<1>4. ASSUME Garbled', UNCHANGED <<again, handled>> PROVE ReaderInv'
  <2>1. Astray'
    BY <1>1, <1>2, <1>3, <1>4 DEF Astray
  <2>2. InSequence(handled', hit', Calm')
    BY <1>1, <1>4, LessCalm DEF Calm
  <2> QED BY <1>1, <1>4, <2>1, <2>2 DEF ReaderInv
<1>5. ASSUME state' = 0, buf' = << >>, HandledBefore(handled', hit),
             InSequence(handled', hit, FALSE), AgainOK(handled', again')
      PROVE  ReaderInv'
  <2>1. InSequence(handled', hit, Calm)
    BY <1>5, LessCalm, CalmIs
  <2> QED BY <1>2, <1>5, <2>1, OnFrom
<1>6. ASSUME NEW bytes \in Seq(LineBytes), Spoils(bytes), Deliver(bytes)
      PROVE  ReaderInv'
  <2>1. Message(bytes) = 0
    BY <1>6, MessageNone
  <2>2. handled' = Append(handled, 0) /\ again' \in {<< >>, <<0>>} /\ state' = 0 /\ buf' = << >>
    BY <1>6, <2>1, AgainIs DEF Deliver
  <2>3. InSequence(handled', hit, FALSE) /\ HandledBefore(handled', hit) /\ AgainOK(handled', again')
    BY <1>1, <1>2, <2>2, HandlesNone
  <2> QED BY <1>5, <2>2, <2>3
<1>7. CASE Resting
  <2>1. state = 0 /\ buf = << >> /\ Pos.at > 1 /\ WaitForStart(Pos)
    BY <1>1, <1>7 DEF Resting, ReadCommand, ReadData
  <2>2. CASE Starts(Pos)
    <3>1. buf' = <<Pos>> /\ state' = 1 /\ UNCHANGED <<again, handled>>
      BY <2>1, <2>2 DEF WaitForStart, Starts
    <3>2. Spoils(<<Pos>>)
      <4>1. <<Pos>>[1] # [msg |-> Pos.msg, at |-> 1] /\ <<Pos>>[1] = Pos /\ 1 \in 1..Len(<<Pos>>)
        BY <1>1, <2>1
      <4> QED BY <4>1 DEF Spoils
    <3>3. Garbled'
      BY <1>1, <3>1, <3>2 DEF Garbled
    <3> QED BY <1>4, <3>1, <3>3
  <2>3. CASE ~Starts(Pos)
    <3>1. buf' = << >> /\ state' = 0 /\ again' = again
          /\ (handled' = handled \o again \/ handled' = handled)
      BY <2>1, <2>3 DEF WaitForStart
    <3>2. /\ HandledBefore(handled', hit) /\ InSequence(handled', hit, FALSE)
          /\ AgainOK(handled', again')
      BY <1>1, <1>2, <3>1, HandlesAgain
    <3> QED BY <1>5, <3>1, <3>2
  <2> QED BY <2>2, <2>3
<1>8. CASE Garbled \/ Omits
  <2>0. Omits => buf = Prefix(hit, state) /\ state > 0
    BY DEF Omits
  <2>1. state > 0 /\ buf \in Seq(LineBytes) /\ Len(buf) = state
    <3>1. CASE Garbled
      BY <3>1 DEF Garbled
    <3>2. CASE Omits
      <4>1. Prefix(hit, state) \in Seq(LineBytes) /\ Len(Prefix(hit, state)) = state
        BY <1>1, <1>2, PrefixIs
      <4> QED BY <2>0, <3>2, <4>1
    <3> QED BY <1>8, <3>1, <3>2
  <2>2. Append(buf, Pos) \in Seq(LineBytes) /\ Len(Append(buf, Pos)) = state + 1
    BY <1>1, <2>1, AppendIs
  <2>3. Spoils(Append(buf, Pos))
    <3>1. CASE Garbled
      BY <1>1, <2>1, <3>1, SpoiltOn DEF Garbled
    <3>2. CASE Omits
      <4>1. Pos # [msg |-> hit, at |-> state + 1]
        BY <1>1, <1>2, <3>2 DEF Omits, NextByte
      <4>2. buf[1].msg = hit
        <5>1. state \in Nat /\ hit \in Nat /\ state > 0
          BY <1>1, <1>2, <2>1
        <5>2. Prefix(hit, state)[1] = [msg |-> hit, at |-> 1]
          BY <5>1, PrefixIs
        <5> QED BY <2>0, <3>2, <5>2
      <4> QED BY <1>1, <2>1, <4>1, <4>2, SpoiltOn
    <3> QED BY <1>8, <3>1, <3>2
  <2>4. ASSUME state' = state + 1, buf' = Append(buf, Pos), UNCHANGED <<again, handled>>
        PROVE  ReaderInv'
    <3>1. Garbled'
      BY <1>1, <2>2, <2>3, <2>4 DEF Garbled
    <3> QED BY <1>4, <2>4, <3>1
  <2>5. CASE ReadCommand(Pos)
    <3>1. CASE cmd_length' = 0
      BY <1>6, <2>2, <2>3, <2>5, <3>1 DEF ReadCommand
    <3>2. CASE cmd_length' # 0
      BY <2>4, <2>5, <3>2 DEF ReadCommand
    <3> QED BY <3>1, <3>2
  <2>6. CASE ReadData(Pos)
    <3>1. CASE state = 1 + cmd_length
      BY <1>6, <2>2, <2>3, <2>6, <3>1 DEF ReadData
    <3>2. CASE state # 1 + cmd_length
      BY <2>4, <2>6, <3>2 DEF ReadData
    <3> QED BY <3>1, <3>2
  <2>7. ~WaitForStart(Pos)
    BY <2>1 DEF WaitForStart
  <2> QED BY <1>1, <2>5, <2>6, <2>7
<1> QED BY <1>2, <1>7, <1>8

LEMMA ContainedThen ==
  ASSUME ReaderInv
  PROVE  LossIsContained
<1> SUFFICES ASSUME line = << >>
             PROVE  /\ HandledTo(handled, hit, Calm, Len(sent) + 1)
                    /\ InSequence(handled, hit, Calm) /\ Len(sent) \in Nat
  <2>1. handled \in Seq(Nat)
    BY DEF ReaderInv, InSequence
  <2>2. DOMAIN handled = 1..Len(handled)
    BY <2>1
  <2>3. \A m : Got(m) <=> Seen(handled, m)
    BY <2>2 DEF Got, Seen
  <2>4. Len(sent) \in Nat => (Len(sent) + 1) - 1 = Len(sent)
    OBVIOUS
  <2> QED BY <2>2, <2>3, <2>4 DEF LossIsContained, HandledTo, InSequence
<1>1. Pos = [msg |-> Len(sent) + 1, at |-> 1] /\ Len(sent) \in Nat
  BY PosIs DEF ReaderInv
<1>2. InSequence(handled, hit, Calm) /\ hit \in 0..Len(sent) /\ Calm \in BOOLEAN
  BY CalmIs DEF ReaderInv
<1>3. CASE Whole
  BY <1>1, <1>2, <1>3 DEF Whole
<1>4. CASE Astray /\ ~Calm
  <2>1. hit \in Nat \ {0} /\ HandledBefore(handled, hit) /\ hit < Len(sent) + 1
    BY <1>1, <1>2, <1>4 DEF Astray
  <2> QED BY <1>1, <1>2, <1>4, <2>1, HandledOn
<1>5. CASE Lacks
  <2>1. hit = Len(sent)
    <3>1. hit \in 1..Len(sent) /\ state \in Nat /\ Bytes(sent[hit]) \in Nat
          /\ state <= Bytes(sent[hit]) - 1 /\ Pos = NextByte(sent, [msg |-> hit, at |-> state + 1])
      BY <1>5, BytesIs DEF Lacks
    <3> QED BY <1>1, <3>1 DEF NextByte
  <2>2. hit \in Nat \ {0} /\ HandledBefore(handled, hit) /\ hit < Len(sent) + 1
    BY <1>1, <1>2, <1>5, <2>1 DEF Lacks
  <2> QED BY <1>1, <1>2, <2>1, <2>2, HandledOn
<1>6. ~Skips
  BY <1>1 DEF Skips, Resting
<1> QED BY <1>3, <1>4, <1>5, <1>6 DEF ReaderInv

LEMMA ReaderStep ==
  ASSUME ReaderInv, [FromPanel]_serialVars
  PROVE  ReaderInv'
<1>1. CASE Lose
  BY <1>1, LoseStep
<1>2. CASE fp_read_msg
  BY <1>2, WholeRead, SkipsRead, LacksRead, AstrayRead DEF ReaderInv
<1>3. CASE \E m \in Messages : PanelSends(m)
  BY <1>3, SendStep
<1>4. CASE UNCHANGED serialVars
  <2>1. UNCHANGED <<line, sent, hit, state, cmd_length, buf, again, handled>>
    BY <1>4 DEF serialVars
  <2>2. Pos' = Pos /\ (Calm' <=> Calm)
    BY <2>1 DEF Pos, Calm, Plain, Unanswered
  <2>3. (LineInv' <=> LineInv) /\ (Whole' <=> Whole)
    BY <2>1, <2>2 DEF LineInv, Whole
  <2>4. (Resting' <=> Resting) /\ (Garbled' <=> Garbled) /\ (Omits' <=> Omits)
    BY <2>1, <2>2 DEF Resting, Garbled, Omits
  <2>5. (Astray' <=> Astray) /\ (Skips' <=> Skips) /\ (Lacks' <=> Lacks)
    BY <2>1, <2>2, <2>4 DEF Astray, Skips, Lacks
  <2> QED BY <2>1, <2>2, <2>3, <2>5 DEF ReaderInv, Filled
<1> QED BY <1>1, <1>2, <1>3, <1>4 DEF FromPanel

(* Whatever the panel sends: fp_read_msg hands on what was sent before a   *)
(* lost byte, and from the first message it gets right again all that      *)
(* follow; and a loss that meets nothing that looks like a begin, a command*)
(* or 16#ff costs two messages at most.                                    *)
THEOREM SerialLossIsContained == SerialSpec => []LossIsContained
<1>1. SerialInit => ReaderInv
  BY ReaderBegins
<1>2. ReaderInv /\ [FromPanel]_serialVars => ReaderInv'
  BY ReaderStep
<1>3. ReaderInv => LossIsContained
  BY ContainedThen
<1> QED BY <1>1, <1>2, <1>3, PTL DEF SerialSpec

(* Types: what is on the line, and how far the reader is, by the invariant.*)
Placed == [msg : 1..MaxMessages, at : 1..9]

LEMMA ReaderPlaced ==
  ASSUME ReaderInv
  PROVE  /\ line \in Seq(Placed) /\ sent \in Seq(Messages) /\ hit \in 0..MaxMessages
         /\ state \in 0..8 /\ cmd_length \in {0, 2, 4, 7}
<1>1. /\ sent \in Seq(Messages) /\ Len(sent) \in Nat /\ Len(sent) <= MaxMessages
      /\ line \in Seq(LineBytes) /\ hit \in 0..Len(sent)
  BY DEF ReaderInv, LineInv
<1>2. line \in Seq(Placed)
  <2>1. ASSUME NEW i \in 1..Len(line) PROVE line[i] \in Placed
    <3>1. line[i].msg \in 1..Len(sent) /\ line[i].at \in 1..Bytes(sent[line[i].msg])
      BY DEF ReaderInv, LineInv
    <3>2. Bytes(sent[line[i].msg]) \in {2, 4, 6, 9}
      BY BytesIs
    <3>3. Len(sent) \in Nat /\ Len(sent) <= MaxMessages
      BY <1>1
    <3>4. line[i].msg \in 1..MaxMessages /\ line[i].at \in 1..9
      <4>1. line[i].at \in 1..9
        <5>1. ASSUME NEW n \in {2, 4, 6, 9} PROVE 1..n \subseteq 1..9
          OBVIOUS
        <5> QED BY <3>1, <3>2, <5>1
      <4>2. line[i].msg \in 1..MaxMessages
        BY <3>1, <3>3, SerialAssumption
      <4> QED BY <4>1, <4>2
    <3>5. line[i] \in LineBytes
      BY <1>1
    <3> QED BY <3>4, <3>5 DEF Placed, LineBytes
  <2> QED BY <1>1, <2>1
<1>3. state \in 0..8 /\ cmd_length \in {0, 2, 4, 7}
  BY DEF ReaderInv, Filled
<1>4. hit \in 0..MaxMessages
  BY <1>1, SerialAssumption
<1> QED BY <1>1, <1>2, <1>3, <1>4

LEMMA ShortIs ==
  ASSUME NEW S, NEW x \in S
  PROVE  <<x>> \in Seq(S) /\ << >> \in Seq(S)
OBVIOUS

(* What the reader has collected and handed on.                            *)
Hands == /\ buf \in Seq(Placed) /\ handled \in Seq(0..MaxMessages)
         /\ again \in Seq(0..MaxMessages)

LEMMA ReaderHands ==
  ASSUME line \in Seq(Placed), Hands, [FromPanel]_serialVars
  PROVE  Hands'
<1>1. CASE fp_read_msg
  <2> DEFINE b == Head(line)
  <2>1. b \in Placed
    BY <1>1, TailIs DEF fp_read_msg
  <2>2. Append(buf, b) \in Seq(Placed) /\ Append(buf, b) # << >>
    <3>1. buf \in Seq(Placed)
      BY DEF Hands
    <3>2. Append(buf, b) \in Seq(Placed) /\ Len(Append(buf, b)) = Len(buf) + 1 /\ Len(buf) \in Nat
      BY <2>1, <3>1, AppendIs
    <3>3. Len(<< >>) = 0
      OBVIOUS
    <3>4. Len(Append(buf, b)) # 0
      BY <3>2
    <3> QED BY <3>2, <3>3, <3>4
  <2>3. ASSUME NEW bytes \in Seq(Placed), bytes # << >>, Deliver(bytes)
        PROVE  Hands'
    <3>1. bytes[1] \in Placed
      BY <2>3, TailIs
    <3>2. bytes[1].msg \in 1..MaxMessages
      BY <3>1 DEF Placed
    <3>3. Message(bytes) \in 0..MaxMessages
      BY <3>2, SerialAssumption DEF Message
    <3>4. again' \in {<< >>, <<0>>, <<Message(bytes)>>}
      BY <2>3, AgainIs DEF Deliver
    <3>5. again' \in Seq(0..MaxMessages)
      <4>1. 0 \in 0..MaxMessages
        BY SerialAssumption
      <4> QED BY <3>3, <3>4, <4>1, ShortIs
    <3>6. handled' \in Seq(0..MaxMessages) /\ buf' = << >>
      BY <2>3, <3>3 DEF Deliver, Hands
    <3> QED BY <3>5, <3>6 DEF Hands
  <2>4. CASE WaitForStart(b)
    <3>1. buf' \in Seq(Placed) /\ again' = again
      BY <2>1, <2>4 DEF WaitForStart, Hands
    <3>2. handled \o again \in Seq(0..MaxMessages)
      BY DEF Hands
    <3> QED BY <2>4, <3>1, <3>2 DEF WaitForStart, Hands
  <2>5. CASE ReadCommand(b)
    BY <2>2, <2>3, <2>5 DEF ReadCommand, Hands
  <2>6. CASE ReadData(b)
    BY <2>2, <2>3, <2>6 DEF ReadData, Hands
  <2> QED BY <1>1, <2>4, <2>5, <2>6 DEF fp_read_msg
<1>2. CASE Lose \/ (\E m \in Messages : PanelSends(m)) \/ UNCHANGED serialVars
  BY <1>2 DEF Lose, PanelSends, serialVars, Hands
<1> QED BY <1>1, <1>2 DEF FromPanel

(* The line, the reader's place in a message and what it hands on keep     *)
(* their types (fp_read_msg, frontpanel_rs232.c): it never waits for more  *)
(* than the longest message has, for any number of messages.               *)
THEOREM SerialTypeInvariance == SerialSpec => []SerialTypeOK
<1>1. SerialInit => ReaderInv /\ Hands
  <2>1. SerialInit => again \in Seq(0..MaxMessages)
    <3>1. 0 \in 0..MaxMessages
      BY SerialAssumption
    <3> QED BY <3>1, ShortIs DEF SerialInit
  <2> QED BY <2>1, ReaderBegins DEF SerialInit, Hands
<1>2. ReaderInv /\ Hands /\ [FromPanel]_serialVars => ReaderInv' /\ Hands'
  BY ReaderStep, ReaderPlaced, ReaderHands
<1>3. ReaderInv /\ Hands => SerialTypeOK
  BY ReaderPlaced DEF Hands, SerialTypeOK, Placed
<1> QED BY <1>1, <1>2, <1>3, PTL DEF SerialSpec

-----------------------------------------------------------------------------
(* Induction up to a number, for a set of numbers.                         *)
LEMMA UpTo ==
  ASSUME NEW N \in Nat, NEW P, 0 \in P,
         \A n \in 0..(N - 1) : n \in P => n + 1 \in P
  PROVE  \A n \in 0..N : n \in P
<1> DEFINE R == {ss \in Nat \X Nat : ss[1] < ss[2]}
           S == (0..N) \ P
<1>1. IsWellFoundedOn(R, Nat)
  <2>1. R = OpToRel(<, Nat)
    BY Zenon DEF OpToRel
  <2> HIDE DEF R
  <2> QED BY Zenon, NatLessThanWellFounded, <2>1
<1>2. \A x, y \in Nat : <<y, x>> \in R <=> y < x
  OBVIOUS
<1>3. S \subseteq Nat
  OBVIOUS
<1> HIDE DEF R
<1> SUFFICES ASSUME S # {} PROVE FALSE
  OBVIOUS
<1>4. PICK x \in S : \A y \in S : ~(<<y, x>> \in R)
  <2> HIDE DEF S
  <2> QED BY Zenon, <1>1, <1>3, WFMin
<1>5. x \in 0..N /\ x # 0
  OBVIOUS
<1>6. x - 1 \in 0..(N - 1) /\ (x - 1) + 1 = x /\ x - 1 < x
  BY <1>5
<1>7. x - 1 \in S
  BY <1>6
<1> QED BY <1>2, <1>3, <1>4, <1>6, <1>7

(* What is defined by its value at 0 and by the step from a number to the  *)
(* next exists: here up to N, for steps that are functions of a set.       *)
HasRun(N, S, a, f) ==
  \E g \in [0..N -> S] : g[0] = a /\ \A n \in 1..N : g[n] = f[n][g[n - 1]]

LEMMA Recursion ==
  ASSUME NEW N \in Nat, NEW S, NEW a \in S, NEW f \in [1..N -> [S -> S]]
  PROVE  HasRun(N, S, a, f)
<1> DEFINE Good(g, k) == g[0] = a /\ \A n \in 1..k : g[n] = f[n][g[n - 1]]
           P == {k \in 0..N : \E g \in [0..k -> S] : Good(g, k)}
<1>1. 0 \in P
  <2>1. [i \in 0..0 |-> a] \in [0..0 -> S] /\ Good([i \in 0..0 |-> a], 0)
    OBVIOUS
  <2>2. \E g \in [0..0 -> S] : Good(g, 0)
    BY <2>1, Zenon
  <2> QED BY <2>2
<1>2. ASSUME NEW k \in 0..(N - 1), k \in P PROVE k + 1 \in P
  <2>1. PICK g \in [0..k -> S] : Good(g, k)
    BY <1>2
  <2> DEFINE h == [i \in 0..(k + 1) |-> IF i = k + 1 THEN f[k + 1][g[k]] ELSE g[i]]
  <2>2. k + 1 \in 1..N /\ k \in 0..k /\ \A i \in 0..(k + 1) : i # k + 1 => i \in 0..k
    OBVIOUS
  <2>3. h \in [0..(k + 1) -> S]
    BY <2>2
  <2>4. h[0] = a
    BY <2>1, <2>2
  <2>5. ASSUME NEW n \in 1..(k + 1) PROVE h[n] = f[n][h[n - 1]]
    <3>1. n - 1 \in 0..k /\ n - 1 # k + 1
      OBVIOUS
    <3>2. h[n - 1] = g[n - 1]
      BY <3>1
    <3>3. CASE n = k + 1
      BY <3>2, <3>3
    <3>4. CASE n # k + 1
      <4>1. n \in 1..k
        BY <3>4
      <4> QED BY <2>1, <3>2, <4>1
    <3> QED BY <3>3, <3>4
  <2>6. k + 1 \in 0..N
    OBVIOUS
  <2> HIDE DEF h
  <2>7. Good(h, k + 1)
    BY <2>4, <2>5
  <2> QED BY <2>3, <2>6, <2>7
<1> HIDE DEF P
<1>3. \A n \in 0..N : n \in P
  BY <1>1, <1>2, UpTo
<1> QED BY <1>3 DEF P, HasRun

-----------------------------------------------------------------------------
(* Infrared codes: the decoder of r-step codes.                            *)

Bits == {0, 1}
Three == Bits \X Bits \X Bits
States == [state : 0..BITS, sr : Three, lb : Bits, data : Seq(Bits)]

LEMMA FreshIs == Fresh \in States
BY IrAssumption DEF Fresh, States, Three, Bits

LEMMA Numbers ==
  /\ BITS \in Nat /\ NIBBLES \in Nat \ {0} /\ MAX_CMDS \in Nat \ {0}
  /\ Receivers \in Nat \ {0} /\ MaxFrames \in Nat /\ BITS > 2
BY IrAssumption

LEMMA ResetIs ==
  ASSUME NEW s \in States
  PROVE  /\ Reset(s).state = 0 /\ Reset(s).sr = <<0, 0, 0>>
         /\ Reset(s).lb = s.lb /\ Reset(s).data = s.data
         /\ Reset(s) \in States
<1>1. 0 \in 0..BITS /\ <<0, 0, 0>> \in Three
  BY Numbers DEF Three, Bits
<1> QED BY <1>1 DEF States, Reset

LEMMA EdgeTyped ==
  ASSUME NEW s \in States, NEW falling \in BOOLEAN, NEW rbit \in Bits, s.state # BITS
  PROVE  Edge(s, falling, rbit) \in States
<1> DEFINE sr == <<s.sr[2], s.sr[3], rbit>>
           lb == IF falling THEN 1 ELSE 0
<1>1. sr \in Three /\ <<0, 0, 0>> \in Three
  BY DEF States, Three, Bits
<1>2. Reset(s) \in States
  BY ResetIs
<1>3. [state |-> s.state + 1, sr |-> sr, lb |-> lb, data |-> Append(s.data, lb)] \in States
  <2>1. s.state + 1 \in 0..BITS
    BY IrAssumption DEF States
  <2>2. lb \in Bits /\ Append(s.data, lb) \in Seq(Bits)
    BY DEF States, Bits
  <2> QED BY <1>1, <2>1, <2>2 DEF States
<1>4. [s EXCEPT !.sr = sr] \in States
  BY <1>1 DEF States
<1> QED BY <1>2, <1>3, <1>4 DEF Edge

LEMMA LengthTyped ==
  ASSUME NEW s \in States, NEW falling \in BOOLEAN, NEW us
  PROVE  Length(s, falling, us) \in States
<1>1. Reset(s) \in States
  BY ResetIs
<1>2. 0 \in Bits /\ 1 \in Bits
  BY DEF Bits
<1>3. CASE s.state = BITS
  BY <1>3 DEF Length
<1>4. CASE s.state # BITS
  <2>1. Edge(s, falling, 0) \in States /\ Edge(s, falling, 1) \in States
    BY <1>2, <1>4, EdgeTyped
  <2> QED BY <1>1, <1>4, <2>1 DEF Length
<1> QED BY <1>3, <1>4

(* The decoder, length for length.                                         *)
LEMMA DecoderIs ==
  ASSUME NEW us, Len(us) \in Nat
  PROVE  /\ Decoder(us) \in [0..Len(us) -> States]
         /\ Decoder(us)[0] = Fresh
         /\ \A n \in 1..Len(us) :
              Decoder(us)[n] = Length(Decoder(us)[n - 1], n % 2 = 1, us[n])
<1> PICK L \in Nat : L = Len(us)
  OBVIOUS
<1> DEFINE f == [n \in 1..L |-> [s \in States |-> Length(s, n % 2 = 1, us[n])]]
           F(s) == [n \in 0..L |->
                      IF n = 0 THEN Fresh ELSE Length(s[n - 1], n % 2 = 1, us[n])]
<1>1. f \in [1..L -> [States -> States]]
  BY LengthTyped
<1>2. PICK g \in [0..L -> States] : g[0] = Fresh /\ \A n \in 1..L : g[n] = f[n][g[n - 1]]
  <2> HIDE DEF f
  <2>1. HasRun(L, States, Fresh, f)
    BY <1>1, FreshIs, Recursion
  <2> QED BY <2>1, Zenon DEF HasRun
<1>3. ASSUME NEW n \in 1..L PROVE g[n] = Length(g[n - 1], n % 2 = 1, us[n])
  <2>1. n - 1 \in 0..L
    OBVIOUS
  <2> QED BY <1>2, <2>1
<1>4. g = F(g)
  <2>1. ASSUME NEW n \in 0..L PROVE g[n] = F(g)[n]
    BY <1>2, <1>3
  <2> QED BY <2>1
<1>5. Decoder(us) = CHOOSE s : s = F(s)
  BY DEF Decoder
<1> HIDE DEF F
<1>6. Decoder(us) = F(Decoder(us))
  BY <1>4, <1>5, Zenon
<1> USE DEF F
<1>7. Decoder(us)[0] = Fresh
  BY <1>6
<1>8. ASSUME NEW n \in 1..L
      PROVE  Decoder(us)[n] = Length(Decoder(us)[n - 1], n % 2 = 1, us[n])
  BY <1>6, SMTT(40)
<1> DEFINE P == {n \in 0..L : Decoder(us)[n] \in States}
<1>9. 0 \in P
  BY <1>7, FreshIs
<1>10. ASSUME NEW n \in 0..(L - 1), n \in P PROVE n + 1 \in P
  <2>1. n + 1 \in 1..L /\ (n + 1) - 1 = n
    OBVIOUS
  <2>2. Decoder(us)[n] \in States
    BY <1>10
  <2>3. Length(Decoder(us)[n], (n + 1) % 2 = 1, us[n + 1]) \in States
    BY <2>2, LengthTyped
  <2>4. Decoder(us)[n + 1] = Length(Decoder(us)[n], (n + 1) % 2 = 1, us[n + 1])
    BY <1>8, <2>1
  <2>5. n + 1 \in 0..L
    OBVIOUS
  <2> QED BY <2>3, <2>4, <2>5
<1> HIDE DEF P
<1>11. \A n \in 0..L : n \in P
  BY <1>9, <1>10, UpTo
<1> USE DEF P
<1>12. \A n \in 0..L : Decoder(us)[n] \in States
  BY <1>11
<1>13. Decoder(us) = [n \in 0..L |-> Decoder(us)[n]]
  <2>1. DOMAIN Decoder(us) = 0..L
    BY <1>6
  <2> QED BY <1>6
<1> QED BY <1>7, <1>8, <1>12, <1>13

(* One length, by what it does.                                            *)
Spoilt(s, rbit) == s.sr[2] = 1 /\ s.sr[3] = 0 /\ rbit = 1
Moves(s, falling, rbit) ==
  IF falling THEN IF s.state = 0 THEN rbit = 0 ELSE rbit # s.lb
             ELSE s.state > 0 /\ rbit = s.lb

IsReset(s, t) ==
  t.state = 0 /\ t.sr = <<0, 0, 0>> /\ t.lb = s.lb /\ t.data = s.data
IsMoved(s, t, falling, rbit) ==
  /\ t.state = s.state + 1 /\ t.sr = <<s.sr[2], s.sr[3], rbit>>
  /\ t.lb = (IF falling THEN 1 ELSE 0)
  /\ t.data = Append(s.data, IF falling THEN 1 ELSE 0)
IsKept(s, t, rbit) ==
  /\ t.state = s.state /\ t.sr = <<s.sr[2], s.sr[3], rbit>>
  /\ t.lb = s.lb /\ t.data = s.data

LEMMA EdgeIs ==
  ASSUME NEW s \in States, NEW falling \in BOOLEAN, NEW rbit \in Bits
  PROVE  LET t == Edge(s, falling, rbit) IN
         /\ Spoilt(s, rbit) => IsReset(s, t)
         /\ ~Spoilt(s, rbit) /\ Moves(s, falling, rbit) => IsMoved(s, t, falling, rbit)
         /\ ~Spoilt(s, rbit) /\ ~Moves(s, falling, rbit) /\ s.state = 0 => IsReset(s, t)
         /\ ~Spoilt(s, rbit) /\ ~Moves(s, falling, rbit) /\ s.state # 0 => IsKept(s, t, rbit)
<1> DEFINE sr == <<s.sr[2], s.sr[3], rbit>>
           lb == IF falling THEN 1 ELSE 0
           moves == IF falling THEN IF s.state = 0 THEN rbit = 0 ELSE rbit # s.lb
                    ELSE s.state > 0 /\ rbit = s.lb
           moved == [state |-> s.state + 1, sr |-> sr, lb |-> lb, data |-> Append(s.data, lb)]
           kept == [s EXCEPT !.sr = sr]
<1>1. Edge(s, falling, rbit) =
        IF sr = <<1, 0, 1>> THEN Reset(s)
        ELSE IF moves THEN moved ELSE IF s.state = 0 THEN Reset(s) ELSE kept
  BY DEF Edge
<1>2. (sr = <<1, 0, 1>>) <=> Spoilt(s, rbit)
  BY DEF Spoilt
<1>3. moves <=> Moves(s, falling, rbit)
  BY DEF Moves
<1>4. IsReset(s, Reset(s))
  BY ResetIs DEF IsReset
<1>5. IsMoved(s, moved, falling, rbit)
  BY DEF IsMoved
<1>6. IsKept(s, kept, rbit)
  BY DEF IsKept, States
<1> HIDE DEF sr, moves, moved, kept
<1> QED BY <1>1, <1>2, <1>3, <1>4, <1>5, <1>6, Zenon

(* What is read into data are the bits of the code so far, the first a 1.  *)
BitsRead(s) ==
  /\ s.state <= Len(s.data)
  /\ s.state > 0 => s.data[Len(s.data) - s.state + 1] = 1

LEMMA EdgeReads ==
  ASSUME NEW s \in States, NEW falling \in BOOLEAN, NEW rbit \in Bits, BitsRead(s)
  PROVE  BitsRead(Edge(s, falling, rbit))
<1> DEFINE t == Edge(s, falling, rbit)
<1>1. CASE IsReset(s, t)
  BY <1>1 DEF IsReset, BitsRead, States
<1>2. CASE IsKept(s, t, rbit)
  BY <1>2 DEF IsKept, BitsRead
<1>3. CASE IsMoved(s, t, falling, rbit) /\ Moves(s, falling, rbit)
  <2>1. s.state \in Nat /\ s.data \in Seq(Bits)
    BY DEF States
  <2>2. s.state = 0 => falling
    BY <1>3 DEF Moves
  <2> DEFINE lb == IF falling THEN 1 ELSE 0
             d == s.data
             k == Len(d) - s.state + 1
  <2>3. Append(d, lb) \in Seq(Bits) /\ Len(Append(d, lb)) = Len(d) + 1
        /\ Append(d, lb)[Len(d) + 1] = lb
        /\ \A n \in 1..Len(d) : Append(d, lb)[n] = d[n]
    BY <2>1 DEF Bits
  <2>4. t.state = s.state + 1 /\ t.data = Append(d, lb)
    BY <1>3 DEF IsMoved
  <2>5. Len(t.data) - t.state + 1 = k /\ t.state <= Len(t.data)
    BY <2>1, <2>3, <2>4 DEF BitsRead
  <2>6. CASE s.state = 0
    BY <2>1, <2>2, <2>3, <2>4, <2>5, <2>6 DEF BitsRead
  <2>7. CASE s.state # 0
    <3>1. k \in 1..Len(d) /\ d[k] = 1
      BY <2>1, <2>7 DEF BitsRead
    <3> HIDE DEF k, d, lb
    <3> QED BY <2>3, <2>4, <2>5, <3>1 DEF BitsRead
  <2> QED BY <2>6, <2>7
<1> QED BY <1>1, <1>2, <1>3, EdgeIs

LEMMA LengthReads ==
  ASSUME NEW s \in States, NEW falling \in BOOLEAN, NEW us, BitsRead(s)
  PROVE  BitsRead(Length(s, falling, us))
<1>1. 0 \in Bits /\ 1 \in Bits
  BY DEF Bits
<1>2. BitsRead(Reset(s))
  BY ResetIs DEF BitsRead, States
<1>3. CASE s.state = BITS
  BY <1>3 DEF Length
<1>4. CASE s.state # BITS
  <2>1. BitsRead(Edge(s, falling, 0)) /\ BitsRead(Edge(s, falling, 1))
    BY <1>1, EdgeReads
  <2> QED BY <1>2, <1>4, <2>1 DEF Length
<1> QED BY <1>3, <1>4

LEMMA DecoderReads ==
  ASSUME NEW us, Len(us) \in Nat
  PROVE  \A n \in 0..Len(us) : BitsRead(Decoder(us)[n])
<1> PICK L \in Nat : L = Len(us)
  OBVIOUS
<1> DEFINE P == {n \in 0..L : BitsRead(Decoder(us)[n])}
<1>1. 0 \in P
  BY DecoderIs DEF BitsRead, Fresh
<1>2. ASSUME NEW n \in 0..(L - 1), n \in P PROVE n + 1 \in P
  <2>1. n + 1 \in 1..L /\ (n + 1) - 1 = n /\ n \in 0..L /\ n + 1 \in 0..L
    OBVIOUS
  <2>2. Decoder(us)[n] \in States /\ BitsRead(Decoder(us)[n])
    BY <1>2, <2>1, DecoderIs
  <2>3. Decoder(us)[n + 1] = Length(Decoder(us)[n], (n + 1) % 2 = 1, us[n + 1])
    BY <2>1, DecoderIs
  <2>4. BitsRead(Length(Decoder(us)[n], (n + 1) % 2 = 1, us[n + 1]))
    BY <2>2, LengthReads
  <2> QED BY <2>1, <2>3, <2>4
<1> HIDE DEF P
<1>3. \A n \in 0..L : n \in P
  BY <1>1, <1>2, UpTo
<1> QED BY <1>3 DEF P

(* A code that decode_rstep finds is one that can be sent.                 *)
LEMMA WordsFound ==
  ASSUME NEW us, Len(us) \in Nat
  PROVE  decode_rstep(us) \in Words \cup {NoCode}
<1> DEFINE end == Decoder(us)[Len(us)]
           d == end.data
           w == SubSeq(d, Len(d) - BITS + 1, Len(d))
<1>1. end \in States /\ BitsRead(end)
  BY DecoderIs, DecoderReads
<1>2. d \in Seq(Bits) /\ Len(d) \in Nat
  BY <1>1 DEF States
<1>3. ASSUME end.state = BITS PROVE w \in Words
  <2>1. BITS \in Nat /\ BITS > 2 /\ BITS <= Len(d) /\ d[Len(d) - BITS + 1] = 1
    BY <1>1, <1>3, Numbers DEF BitsRead
  <2> HIDE DEF end
  <2>2. w \in Seq(Bits) /\ Len(w) = BITS /\ \A n \in 1..BITS : w[n] = d[Len(d) - BITS + n]
    BY <1>2, <2>1
  <2>3. w[1] = 1
    BY <2>1, <2>2
  <2>4. w \in [1..BITS -> Bits]
    <3> HIDE DEF w
    <3> QED BY <2>2
  <2> QED BY <2>3, <2>4 DEF Words, Bits
<1> QED BY <1>3 DEF decode_rstep

-----------------------------------------------------------------------------
(* Infrared codes: what is read of an r-step code, with any number of its  *)
(* lengths heard as neither short nor long.                                *)

Unclear(x) == ~Short(x) /\ ~Long(x)

LEMMA LengthIs ==
  ASSUME NEW s \in States, NEW falling \in BOOLEAN, NEW x \in Int, s.state # BITS
  PROVE  /\ Short(x) => Length(s, falling, x) = Edge(s, falling, 0)
         /\ Long(x) => Length(s, falling, x) = Edge(s, falling, 1)
         /\ Unclear(x) => IsReset(s, Length(s, falling, x))
<1>1. ~(Short(x) /\ Long(x))
  BY DEF Short, Long
<1>2. IsReset(s, Reset(s))
  BY ResetIs DEF IsReset
<1>3. Unclear(x) => Length(s, falling, x) = Reset(s)
  BY DEF Length, Unclear
<1>4. Short(x) => Length(s, falling, x) = Edge(s, falling, 0)
  BY <1>1 DEF Length
<1>5. Long(x) => Length(s, falling, x) = Edge(s, falling, 1)
  BY <1>1 DEF Length
<1> QED BY <1>2, <1>3, <1>4, <1>5

LEMMA LengthFrozen ==
  ASSUME NEW s, NEW falling, NEW x, s.state = BITS
  PROVE  Length(s, falling, x) = s
BY DEF Length

(* All bits up to the n-th are read.                                       *)
ReadTo(s, w, n) ==
  /\ s.state = n /\ s.lb = w[n]
  /\ n <= Len(s.data) /\ \A i \in 1..n : s.data[Len(s.data) - n + i] = w[i]
InStep(s, w, n) == ReadTo(s, w, n) /\ (s.sr[3] = 0 => s.sr[2] = 0)

(* Since a length that was unclear the state has moved by less than one for*)
(* each bit: every move takes the time of a whole bit at least.  half is   *)
(* the time since the code began, in half bits; b tells what ended last, a *)
(* pulse (1) or a gap.                                                     *)
Behind(s, half, b) ==
  s.state = 0 \/ 2 * s.state + 2 + (IF s.lb = b THEN 0 ELSE 1) <= half

LEMMA FirstBit ==
  ASSUME NEW w \in Words, NEW s \in States, s.state = 0, s.sr = <<0, 0, 0>>,
         NEW falling \in BOOLEAN, falling <=> w[1] = 1, NEW t, t = Length(s, falling, 360)
  PROVE  InStep(t, w, 1)
<1>1. Short(360) /\ 0 \in Bits /\ s.state # BITS
  BY Numbers DEF Short, Bits
<1>2. t = Edge(s, falling, 0)
  BY <1>1, LengthIs
<1>3. Moves(s, falling, 0) /\ ~Spoilt(s, 0)
  BY DEF Moves, Spoilt, Words
<1>4. IsMoved(s, t, falling, 0)
  BY <1>1, <1>2, <1>3, EdgeIs
<1>5. s.data \in Seq(Bits) /\ 1 \in Bits
  BY DEF States, Bits
<1>6. Len(Append(s.data, 1)) = Len(s.data) + 1 /\ Append(s.data, 1)[Len(s.data) + 1] = 1
      /\ Len(s.data) \in Nat
  BY <1>5
<1>7. t.data = Append(s.data, 1) /\ t.state = 1 /\ t.sr = <<0, 0, 0>> /\ t.lb = 1
  BY <1>4 DEF IsMoved, Words
<1>8. w[1] = 1
  BY DEF Words
<1>9. ASSUME NEW i \in 1..1 PROVE t.data[Len(t.data) - 1 + i] = w[i]
  <2>1. i = 1 /\ Len(t.data) - 1 + i = Len(s.data) + 1
    BY <1>6, <1>7
  <2>2. t.data[Len(s.data) + 1] = 1
    BY <1>6, <1>7
  <2>3. t.data[Len(t.data) - 1 + i] = 1
    BY <2>1, <2>2
  <2>4. i = 1
    OBVIOUS
  <2>5. w[i] = 1
    BY <1>8, <2>4, Zenon
  <2> QED BY <2>3, <2>5, ZenonT(40)
<1>10. t.lb = w[1]
  BY <1>7, <1>8, ZenonT(40)
<1>12. 1 <= Len(t.data)
  BY <1>6, <1>7
<1>11. t.sr[2] = 0
  BY <1>7
<1> QED BY <1>7, <1>9, <1>10, <1>11, <1>12 DEF InStep, ReadTo

(* A bit that is read after the others.                                    *)
LEMMA OneMore ==
  ASSUME NEW w \in Words, NEW n \in 1..(BITS - 1), NEW s \in States, ReadTo(s, w, n),
         NEW t, NEW falling \in BOOLEAN, NEW rbit \in Bits,
         IsMoved(s, t, falling, rbit), falling <=> w[n + 1] = 1,
         rbit = 0 => s.sr[3] = 0
  PROVE  InStep(t, w, n + 1)
<1> DEFINE b == IF falling THEN 1 ELSE 0
           d == s.data
<1>1. n + 1 \in 1..BITS /\ n \in Nat
  BY Numbers
<1>2. w[n + 1] = b
  BY <1>1 DEF Words
<1>3. d \in Seq(Bits) /\ b \in Bits
  BY DEF States, Bits
<1>4. /\ Len(Append(d, b)) = Len(d) + 1 /\ Len(d) \in Nat
      /\ Append(d, b)[Len(d) + 1] = b
      /\ \A i \in 1..Len(d) : Append(d, b)[i] = d[i]
  BY <1>3
<1>5. t.state = n + 1 /\ t.lb = b /\ t.data = Append(d, b)
      /\ t.sr = <<s.sr[2], s.sr[3], rbit>>
  BY DEF IsMoved, InStep, ReadTo
<1>6. n <= Len(d) /\ \A i \in 1..n : d[Len(d) - n + i] = w[i]
  BY DEF InStep, ReadTo
<1> HIDE DEF d, b
<1>7. ASSUME NEW i \in 1..(n + 1) PROVE t.data[Len(t.data) - (n + 1) + i] = w[i]
  <2>1. Len(t.data) - (n + 1) + i = Len(d) - n + i
    BY <1>1, <1>4, <1>5
  <2>2. CASE i = n + 1
    BY <1>1, <1>2, <1>4, <1>5, <2>1, <2>2
  <2>3. CASE i # n + 1
    <3>1. i \in 1..n /\ Len(d) - n + i \in 1..Len(d)
      BY <1>1, <1>4, <1>6, <2>3
    <3> QED BY <1>4, <1>5, <1>6, <2>1, <3>1
  <2> QED BY <2>2, <2>3
<1>8. n + 1 <= Len(t.data)
  BY <1>1, <1>4, <1>5, <1>6
<1>9. t.sr[3] = 0 => t.sr[2] = 0
  BY <1>5
<1> QED BY <1>2, <1>5, <1>7, <1>8, <1>9 DEF InStep, ReadTo

LEMMA OtherBit ==
  ASSUME NEW w \in Words, NEW n \in 1..(BITS - 1), NEW s \in States, InStep(s, w, n),
         NEW falling \in BOOLEAN, falling <=> w[n + 1] = 1,
         NEW x \in Int, Long(x), w[n + 1] # w[n],
         NEW t, t = Length(s, falling, x)
  PROVE  InStep(t, w, n + 1)
<1>1. w[n] \in Bits /\ w[n + 1] \in Bits /\ s.state \in 1..(BITS - 1) /\ 1 \in Bits
      /\ s.state # BITS
  BY Numbers DEF Words, Bits, InStep, ReadTo
<1>2. t = Edge(s, falling, 1)
  BY <1>1, LengthIs
<1>3. Moves(s, falling, 1)
  BY <1>1 DEF Moves, InStep, ReadTo, Bits
<1>4. ~Spoilt(s, 1)
  BY DEF InStep, ReadTo, Spoilt
<1>5. IsMoved(s, t, falling, 1)
  BY <1>1, <1>2, <1>3, <1>4, EdgeIs
<1>6. ReadTo(s, w, n)
  BY DEF InStep
<1> QED BY <1>1, <1>5, <1>6, OneMore

LEMMA SameBit ==
  ASSUME NEW w \in Words, NEW n \in 1..(BITS - 1), NEW s \in States, InStep(s, w, n),
         NEW first \in BOOLEAN, NEW falling \in BOOLEAN,
         falling <=> w[n + 1] = 1, first <=> ~falling, w[n + 1] = w[n],
         NEW t, t = Length(s, first, 360), NEW u, u = Length(t, falling, 360)
  PROVE  InStep(u, w, n + 1) /\ t.state = n
<1>1. w[n] \in Bits /\ s.state \in 1..(BITS - 1) /\ 0 \in Bits
      /\ s.state # BITS /\ Short(360)
  BY Numbers DEF Words, Bits, InStep, ReadTo, Short
<1>2. t = Edge(s, first, 0) /\ t \in States
  BY <1>1, LengthIs, LengthTyped
<1>3. ~Moves(s, first, 0) /\ ~Spoilt(s, 0) /\ s.state # 0
  BY <1>1 DEF Moves, InStep, ReadTo, Bits, Spoilt
<1>4. IsKept(s, t, 0)
  BY <1>1, <1>2, <1>3, EdgeIs
<1>5. t.state = n /\ t.lb = w[n] /\ t.data = s.data /\ t.sr = <<s.sr[2], s.sr[3], 0>>
      /\ t.state # BITS
  BY <1>1, <1>4 DEF IsKept, InStep, ReadTo
<1>6. u = Edge(t, falling, 0)
  BY <1>1, <1>2, <1>5, LengthIs
<1>7. Moves(t, falling, 0) /\ ~Spoilt(t, 0)
  BY <1>1, <1>5 DEF Moves, Bits, Spoilt
<1>8. IsMoved(t, u, falling, 0)
  BY <1>1, <1>2, <1>6, <1>7, EdgeIs
<1>9. ReadTo(t, w, n)
  <2>1. n <= Len(s.data) /\ \A i \in 1..n : s.data[Len(s.data) - n + i] = w[i]
    BY DEF InStep, ReadTo
  <2> QED BY <1>5, <2>1 DEF ReadTo
<1>10. t.sr[3] = 0
  BY <1>5
<1> QED BY <1>1, <1>2, <1>5, <1>8, <1>9, <1>10, OneMore

LEMMA StillBehind ==
  ASSUME NEW s \in States, s.state # BITS, NEW b \in Bits,
         NEW falling \in BOOLEAN, falling <=> b = 1,
         NEW half \in Nat, Behind(s, half, 1 - b), NEW x \in Int,
         NEW u \in {1, 2}, Long(x) => u = 2, b = 1 => half + u >= 4,
         NEW t, t = Length(s, falling, x)
  PROVE  Behind(t, half + u, b)
<1>1. s.state \in Nat /\ s.lb \in Bits /\ 0 \in Bits /\ 1 \in Bits
  BY DEF States, Bits
<1>2. ASSUME NEW rbit \in Bits, rbit = 1 => u = 2, t = Edge(s, falling, rbit)
      PROVE  Behind(t, half + u, b)
  <2>1. CASE IsReset(s, t)
    BY <2>1 DEF IsReset, Behind
  <2>2. CASE IsKept(s, t, rbit)
    BY <1>1, <2>2 DEF IsKept, Behind, Bits
  <2>3. CASE IsMoved(s, t, falling, rbit) /\ Moves(s, falling, rbit)
    <3>1. t.state = s.state + 1 /\ t.lb = b
      BY <2>3 DEF IsMoved, Bits
    <3>2. CASE s.state = 0
      <4>1. b = 1
        BY <2>3, <3>2 DEF Moves
      <4> QED BY <3>1, <3>2, <4>1 DEF Behind
    <3>3. CASE s.state # 0 /\ rbit = 1
      BY <1>1, <1>2, <3>1, <3>3 DEF Behind
    <3>4. CASE s.state # 0 /\ rbit = 0
      <4>1. s.lb # 1 - b
        BY <1>1, <2>3, <3>4 DEF Moves, Bits
      <4> QED BY <1>1, <3>1, <3>4, <4>1 DEF Behind
    <3> QED BY <3>2, <3>3, <3>4 DEF Bits
  <2> QED BY <1>2, <2>1, <2>2, <2>3, EdgeIs
<1>3. CASE Short(x)
  BY <1>1, <1>2, <1>3, LengthIs
<1>4. CASE Long(x)
  BY <1>1, <1>2, <1>4, LengthIs
<1>5. CASE Unclear(x)
  <2>1. IsReset(s, t)
    BY <1>5, LengthIs
  <2> QED BY <2>1 DEF IsReset, Behind
<1> QED BY <1>3, <1>4, <1>5 DEF Unclear

-----------------------------------------------------------------------------
(* Infrared codes: how an r-step code is sent, bit for bit.                *)

Sent == {360, 720}

More(w, n) == IF w[n + 1] = w[n] THEN <<360, 360>> ELSE <<720>>

LEMMA EncodedIs ==
  ASSUME NEW w \in Words
  PROVE  /\ \A n \in 1..BITS : Encoded(w)[n] \in Seq(Sent)
         /\ Encoded(w)[1] = <<360>>
         /\ \A n \in 1..(BITS - 1) :
              Encoded(w)[n + 1] = Encoded(w)[n] \o More(w, n)
<1> DEFINE N == BITS - 1
           S == Seq(Sent)
           more(n) == IF w[n + 1] = w[n] THEN <<360, 360>> ELSE <<720>>
           f == [n \in 1..N |-> [x \in S |-> x \o more(n)]]
           E(us, n) == IF n = 1 THEN <<360>>
                       ELSE us[n - 1] \o IF w[n] = w[n - 1] THEN <<360, 360>> ELSE <<720>>
           F(us) == [n \in 1..BITS |-> E(us, n)]
<1>1. N \in Nat
  BY Numbers
<1>20. ASSUME NEW us, NEW n, NEW m \in 1..N, n = m + 1
       PROVE  E(us, n) = us[m] \o more(m)
  <2>1. n # 1 /\ n - 1 = m
    BY <1>20, <1>1
  <2>2. w[m + 1] = w[n] /\ us[n - 1] = us[m] /\ w[n - 1] = w[m]
    BY <1>20, <2>1
  <2>3. E(us, n) = us[n - 1] \o IF w[n] = w[n - 1] THEN <<360, 360>> ELSE <<720>>
    BY <2>1
  <2>4. more(m) = IF w[n] = w[n - 1] THEN <<360, 360>> ELSE <<720>>
    BY <2>2, ZenonT(40)
  <2> HIDE DEF more, E
  <2> QED BY <2>2, <2>3, <2>4, ZenonT(40)
<1>2. <<360>> \in S /\ <<360, 360>> \in S /\ <<720>> \in S
  BY DEF Sent
<1>3. ASSUME NEW n \in 1..N, NEW x \in S PROVE x \o more(n) \in S
  <2>1. more(n) \in S
    BY <1>2
  <2> HIDE DEF more
  <2> QED BY <2>1
<1>4. f \in [1..N -> [S -> S]]
  <2> HIDE DEF S, more
  <2> QED BY <1>3
<1>5. PICK g \in [0..N -> S] : g[0] = <<360>> /\ \A n \in 1..N : g[n] = f[n][g[n - 1]]
  <2> HIDE DEF f, N, S
  <2>1. HasRun(N, S, <<360>>, f)
    BY <1>1, <1>2, <1>4, Recursion
  <2> QED BY <2>1, Zenon DEF HasRun
<1> DEFINE h == [n \in 1..BITS |-> g[n - 1]]
<1>6. ASSUME NEW n \in 1..N PROVE h[n + 1] = h[n] \o more(n) /\ h[n] \in S /\ h[n + 1] \in S
  <2>1. n \in 1..BITS /\ n + 1 \in 1..BITS /\ (n + 1) - 1 = n /\ n - 1 \in 0..N /\ n \in 0..N
    BY <1>1, Numbers
  <2>2. g[n] = g[n - 1] \o more(n)
    <3> HIDE DEF more, S, N
    <3> QED BY <1>5, <2>1
  <2> HIDE DEF more, S, N
  <2> QED BY <1>5, <2>1, <2>2
<1>7. h[1] = <<360>>
  BY <1>5, Numbers
<1>8. h = F(h)
  <2> HIDE DEF h
  <2>1. ASSUME NEW n \in 1..BITS PROVE h[n] = E(h, n)
    <3>1. CASE n = 1
      BY <1>7, <3>1
    <3>2. CASE n # 1
      <4>1. PICK m \in 1..N : n = m + 1 /\ n - 1 = m
        BY <3>2, Numbers
      <4>2. h[n] = h[m] \o more(m)
        BY <1>6, <4>1, ZenonT(40)
      <4>3. E(h, n) = h[m] \o more(m)
        <5> HIDE DEF E, more, N
        <5> QED BY <1>20, <4>1
      <4> HIDE DEF E
      <4> QED BY <4>2, <4>3
    <3> QED BY <3>1, <3>2
  <2>2. h = [n \in 1..BITS |-> h[n]]
    BY DEF h
  <2> HIDE DEF E
  <2> QED BY <2>1, <2>2
<1>9. Encoded(w) = CHOOSE us : us = F(us)
  BY DEF Encoded
<1> HIDE DEF F, h
<1>10. Encoded(w) = F(Encoded(w))
  BY <1>8, <1>9, Zenon
<1> DEFINE us == Encoded(w)
<1>11. \A n \in 1..BITS : us[n] = E(us, n)
  <2> HIDE DEF E, us
  <2>1. us = F(us)
    BY <1>10 DEF us
  <2> QED BY <2>1 DEF F
<1>12. us[1] = <<360>>
  BY <1>11, Numbers
<1>13. ASSUME NEW n \in 1..N PROVE us[n + 1] = us[n] \o more(n)
  <2>1. n + 1 \in 1..BITS /\ n + 1 # 1 /\ (n + 1) - 1 = n
    BY Numbers
  <2>2. us[n + 1] = E(us, n + 1)
    <3> HIDE DEF E
    <3> QED BY <1>11, <2>1
  <2>3. E(us, n + 1) = us[n] \o more(n)
    <3> HIDE DEF us, E, more, N
    <3> QED BY <1>20
  <2> HIDE DEF us, E
  <2> QED BY <2>2, <2>3, ZenonT(40)
<1> DEFINE P == {n \in 0..N : us[n + 1] \in S}
<1> HIDE DEF us
<1>14. 0 \in P
  <2>1. 0 \in 0..N /\ 0 + 1 = 1
    BY <1>1
  <2> QED BY <1>2, <1>12, <2>1, ZenonT(40)
<1>15. ASSUME NEW n \in 0..(N - 1), n \in P PROVE n + 1 \in P
  <2>1. n + 1 \in 1..N /\ n + 1 \in 0..N
    BY <1>1
  <2>2. us[n + 1] \in S
    BY <1>15
  <2>3. us[(n + 1) + 1] = us[n + 1] \o more(n + 1)
    BY <1>13, <2>1, ZenonT(40)
  <2>4. us[n + 1] \o more(n + 1) \in S
    BY <1>3, <2>1, <2>2
  <2> QED BY <2>1, <2>3, <2>4, ZenonT(40)
<1> HIDE DEF P, N
<1>16. \A n \in 0..N : n \in P
  BY <1>1, <1>14, <1>15, UpTo
<1>17. \A n \in 1..BITS : us[n] \in S
  <2> SUFFICES ASSUME NEW n \in 1..BITS PROVE us[n] \in S
    OBVIOUS
  <2>1. PICK m \in 0..N : n = m + 1
    BY Numbers DEF N
  <2> QED BY <1>16, <2>1 DEF P
<1> QED BY <1>12, <1>13, <1>17 DEF us, N, More

PosOf(w, n) == Len(Encoded(w)[n])

(* Where the lengths of a bit are, in all that is sent.                    *)
LEMMA BitSent ==
  ASSUME NEW w \in Words, NEW n \in 1..(BITS - 1)
  PROVE  /\ PosOf(w, n) \in Nat /\ PosOf(w, n + 1) \in Nat
         /\ w[n + 1] = w[n] => /\ PosOf(w, n + 1) = PosOf(w, n) + 2
                               /\ Encoded(w)[n + 1][PosOf(w, n) + 1] = 360
                               /\ Encoded(w)[n + 1][PosOf(w, n) + 2] = 360
         /\ w[n + 1] # w[n] => /\ PosOf(w, n + 1) = PosOf(w, n) + 1
                               /\ Encoded(w)[n + 1][PosOf(w, n) + 1] = 720
         /\ \A i \in 1..PosOf(w, n) : Encoded(w)[n + 1][i] = Encoded(w)[n][i]
<1>1. PICK us, next : /\ us \in Seq(Sent)
                      /\ us = Encoded(w)[n] /\ next = Encoded(w)[n + 1]
                      /\ next = us \o More(w, n)
  <2>1. n \in 1..BITS
    BY Numbers
  <2>2. Encoded(w)[n] \in Seq(Sent)
    BY <2>1, EncodedIs
  <2>3. Encoded(w)[n + 1] = Encoded(w)[n] \o More(w, n)
    BY EncodedIs
  <2> QED BY <2>2, <2>3, Zenon
<1>2. Len(us) \in Nat
  BY <1>1
<1>3. CASE w[n + 1] = w[n]
  <2>1. next = us \o <<360, 360>>
    BY <1>1, <1>3 DEF More
  <2>2. Len(next) = Len(us) + 2 /\ next[Len(us) + 1] = 360 /\ next[Len(us) + 2] = 360
        /\ \A i \in 1..Len(us) : next[i] = us[i]
    BY <1>2, <2>1 DEF Sent
  <2> QED BY <1>1, <1>2, <1>3, <2>2 DEF PosOf
<1>4. CASE w[n + 1] # w[n]
  <2>1. next = us \o <<720>>
    BY <1>1, <1>4 DEF More
  <2>2. Len(next) = Len(us) + 1 /\ next[Len(us) + 1] = 720
        /\ \A i \in 1..Len(us) : next[i] = us[i]
    BY <1>2, <2>1 DEF Sent
  <2> QED BY <1>1, <1>2, <1>4, <2>2 DEF PosOf
<1> QED BY <1>3, <1>4

LEMMA PosIsOdd ==
  ASSUME NEW w \in Words
  PROVE  \A n \in 1..BITS : PosOf(w, n) \in Nat \ {0} /\ PosOf(w, n) % 2 = w[n]
<1> DEFINE P == {n \in 0..(BITS - 1) :
                   PosOf(w, n + 1) \in Nat \ {0} /\ PosOf(w, n + 1) % 2 = w[n + 1]}
<1>1. 0 \in P
  <2>1. PosOf(w, 1) = 1
    <3>1. Encoded(w)[1] = <<360>>
      BY EncodedIs
    <3> QED BY <3>1 DEF PosOf
  <2>2. w[1] = 1
    BY DEF Words
  <2>3. 0 \in 0..(BITS - 1) /\ 0 + 1 = 1 /\ 1 % 2 = 1
    BY Numbers
  <2> QED BY <2>1, <2>2, <2>3
<1>2. ASSUME NEW n \in 0..(BITS - 1 - 1), n \in P PROVE n + 1 \in P
  <2>1. n + 1 \in 1..(BITS - 1) /\ n + 1 \in 0..(BITS - 1) /\ n + 1 \in 1..BITS
        /\ (n + 1) + 1 \in 1..BITS
    BY Numbers
  <2> DEFINE m == n + 1
             p == PosOf(w, m)
             q == PosOf(w, m + 1)
  <2>2. p \in Nat \ {0} /\ p % 2 = w[m] /\ w[m] \in {0, 1} /\ w[m + 1] \in {0, 1}
    BY <1>2, <2>1 DEF Words
  <2>3. q = p + IF w[m + 1] = w[m] THEN 2 ELSE 1
    BY <2>1, BitSent
  <2> HIDE DEF p, q
  <2>4. q \in Nat \ {0} /\ q % 2 = w[m + 1]
    <3>1. CASE w[m + 1] = w[m]
      <4>1. q = p + 2
        BY <2>3, <3>1
      <4> QED BY <2>2, <3>1, <4>1
    <3>2. CASE w[m + 1] # w[m]
      <4>1. q = p + 1
        BY <2>3, <3>2
      <4>2. w[m + 1] = 1 - w[m]
        BY <2>2, <3>2
      <4> QED BY <2>2, <4>1, <4>2
    <3> QED BY <3>1, <3>2
  <2> QED BY <2>1, <2>4 DEF q
<1> HIDE DEF P
<1>3. \A n \in 0..(BITS - 1) : n \in P
  BY <1>1, <1>2, UpTo, Numbers
<1> SUFFICES ASSUME NEW n \in 1..BITS
             PROVE  PosOf(w, n) \in Nat \ {0} /\ PosOf(w, n) % 2 = w[n]
  OBVIOUS
<1>4. PICK m \in 0..(BITS - 1) : n = m + 1
  BY Numbers
<1> QED BY <1>3, <1>4 DEF P

(* What is sent of a bit stays when the rest is sent.                      *)
LEMMA SentStays ==
  ASSUME NEW w \in Words, NEW n \in 1..BITS
  PROVE  /\ PosOf(w, n) <= PosOf(w, BITS)
         /\ \A i \in 1..PosOf(w, n) : Encoded(w)[BITS][i] = Encoded(w)[n][i]
<1> DEFINE Has(m) == PosOf(w, n) <= PosOf(w, m)
                     /\ \A i \in 1..PosOf(w, n) : Encoded(w)[m][i] = Encoded(w)[n][i]
           P == {k \in 0..(BITS - n) : Has(n + k)}
<1>1. 0 \in P
  <2>1. 0 \in 0..(BITS - n) /\ n + 0 = n /\ PosOf(w, n) <= PosOf(w, n)
    BY Numbers, PosIsOdd
  <2>2. Has(n)
    BY <2>1
  <2> QED BY <2>1, <2>2
<1>2. ASSUME NEW k \in 0..(BITS - n - 1), k \in P PROVE k + 1 \in P
  <2>1. PICK m \in 1..(BITS - 1) : m = n + k /\ n + (k + 1) = m + 1 /\ k + 1 \in 0..(BITS - n)
    BY Numbers
  <2>2. Has(m)
    BY <1>2, <2>1
  <2>3. PosOf(w, n) \in Nat /\ PosOf(w, m) \in Nat /\ m \in 1..BITS
    BY Numbers, PosIsOdd
  <2>4. PosOf(w, m) <= PosOf(w, m + 1)
        /\ \A i \in 1..PosOf(w, m) : Encoded(w)[m + 1][i] = Encoded(w)[m][i]
    BY <2>3, BitSent
  <2>5. PosOf(w, m + 1) \in Nat
    BY BitSent
  <2>6. Has(m + 1)
    BY <2>2, <2>3, <2>4, <2>5
  <2> QED BY <2>1, <2>6
<1> HIDE DEF P
<1>3. \A k \in 0..(BITS - n) : k \in P
  BY <1>1, <1>2, UpTo, Numbers
<1>4. BITS - n \in 0..(BITS - n) /\ n + (BITS - n) = BITS
  BY Numbers
<1> QED BY <1>3, <1>4 DEF P

(* All that is sent: the bits, and a pulse at the end if that is a gap.    *)
LEMMA CodeSent ==
  ASSUME NEW w \in Words, NEW us, us = Encode(w)
  PROVE  /\ us \in Seq(Sent) /\ us[1] = 360 /\ PosOf(w, 1) = 1
         /\ \A n \in 1..BITS : PosOf(w, n) \in 1..Len(us) /\ PosOf(w, n) % 2 = w[n]
         /\ \A n \in 1..(BITS - 1) :
              /\ w[n + 1] = w[n] => /\ PosOf(w, n + 1) = PosOf(w, n) + 2
                                    /\ us[PosOf(w, n) + 1] = 360
                                    /\ us[PosOf(w, n) + 2] = 360
              /\ w[n + 1] # w[n] => /\ PosOf(w, n + 1) = PosOf(w, n) + 1
                                    /\ us[PosOf(w, n) + 1] = 720
         /\ \/ Len(us) = PosOf(w, BITS)
            \/ Len(us) = PosOf(w, BITS) + 1 /\ us[Len(us)] = 360 /\ w[BITS] = 0
<1>1. BITS \in Nat /\ BITS \in 1..BITS /\ 1 \in 1..BITS
  BY Numbers
<1>2. PICK all : all \in Seq(Sent) /\ all = Encoded(w)[BITS]
  <2>1. Encoded(w)[BITS] \in Seq(Sent)
    BY <1>1, EncodedIs
  <2> QED BY <2>1
<1>3. Len(all) = PosOf(w, BITS) /\ Len(all) \in Nat \ {0}
  BY <1>1, <1>2, PosIsOdd DEF PosOf
<1>4. us = IF Len(all) % 2 = 0 THEN Append(all, 360) ELSE all
  BY <1>2 DEF Encode
<1>5. w[BITS] \in {0, 1} /\ Len(all) % 2 = w[BITS]
  BY <1>1, <1>3, PosIsOdd DEF Words
<1>6. /\ us \in Seq(Sent) /\ Len(us) >= Len(all)
      /\ \A i \in 1..Len(all) : us[i] = all[i]
      /\ \/ Len(us) = Len(all)
         \/ Len(us) = Len(all) + 1 /\ us[Len(us)] = 360 /\ w[BITS] = 0
  <2>1. CASE Len(all) % 2 = 0
    <3>1. us = Append(all, 360) /\ 360 \in Sent
      BY <1>4, <2>1 DEF Sent
    <3> QED BY <1>2, <1>3, <1>5, <2>1, <3>1
  <2>2. CASE Len(all) % 2 # 0
    <3>1. us = all
      BY <1>4, <2>2
    <3> QED BY <1>2, <1>3, <3>1
  <2> QED BY <2>1, <2>2
<1>7. ASSUME NEW n \in 1..BITS
      PROVE  /\ PosOf(w, n) \in 1..Len(us) /\ PosOf(w, n) \in 1..Len(all)
             /\ PosOf(w, n) % 2 = w[n]
             /\ \A i \in 1..PosOf(w, n) : us[i] = Encoded(w)[n][i]
  <2>1. PosOf(w, n) \in Nat \ {0} /\ PosOf(w, n) % 2 = w[n]
    BY PosIsOdd
  <2>2. PosOf(w, n) <= Len(all) /\ \A i \in 1..PosOf(w, n) : all[i] = Encoded(w)[n][i]
    BY <1>2, <1>3, SentStays
  <2>3. Len(us) \in Nat
    BY <1>6
  <2> QED BY <1>3, <1>6, <2>1, <2>2, <2>3
<1>8. ASSUME NEW n \in 1..(BITS - 1)
      PROVE  /\ w[n + 1] = w[n] => /\ PosOf(w, n + 1) = PosOf(w, n) + 2
                                   /\ us[PosOf(w, n) + 1] = 360
                                   /\ us[PosOf(w, n) + 2] = 360
             /\ w[n + 1] # w[n] => /\ PosOf(w, n + 1) = PosOf(w, n) + 1
                                   /\ us[PosOf(w, n) + 1] = 720
  <2>1. n \in 1..BITS /\ n + 1 \in 1..BITS
    BY Numbers
  <2>2. PosOf(w, n) \in Nat
    BY BitSent
  <2>3. CASE w[n + 1] = w[n]
    <3>1. PosOf(w, n + 1) = PosOf(w, n) + 2
          /\ Encoded(w)[n + 1][PosOf(w, n) + 1] = 360 /\ Encoded(w)[n + 1][PosOf(w, n) + 2] = 360
      BY <2>3, BitSent
    <3>2. PosOf(w, n) + 1 \in 1..PosOf(w, n + 1) /\ PosOf(w, n) + 2 \in 1..PosOf(w, n + 1)
      BY <2>2, <3>1
    <3> QED BY <1>7, <2>1, <2>3, <3>1, <3>2
  <2>4. CASE w[n + 1] # w[n]
    <3>1. PosOf(w, n + 1) = PosOf(w, n) + 1 /\ Encoded(w)[n + 1][PosOf(w, n) + 1] = 720
      BY <2>4, BitSent
    <3>2. PosOf(w, n) + 1 \in 1..PosOf(w, n + 1)
      BY <2>2, <3>1
    <3> QED BY <1>7, <2>1, <2>4, <3>1, <3>2
  <2> QED BY <2>3, <2>4
<1>9. PosOf(w, 1) = 1 /\ us[1] = 360
  <2>1. Encoded(w)[1] = <<360>>
    BY EncodedIs
  <2>2. PosOf(w, 1) = 1 /\ Encoded(w)[1][1] = 360
    BY <2>1 DEF PosOf
  <2> QED BY <1>1, <1>7, <2>2
<1> QED BY <1>3, <1>6, <1>7, <1>8, <1>9

-----------------------------------------------------------------------------
(* Infrared codes: an r-step code in a record.                             *)

(* Behind the first lengths of a record is what was sent, some of it heard *)
(* as neither short nor long.                                              *)
HeardLike(y, x) == y = x \/ Unclear(y) \/ (x = 720 /\ Long(y))
CodeAt(v, off, us) == \A i \in 1..Len(us) : HeardLike(v[off + i], us[i])
WellAt(v, off, us) == \A i \in 1..Len(us) : v[off + i] = us[i]

(* A bit was read with all before it, or the decoder is too late to find   *)
(* a code in this record.                                                  *)
IsRead(s, w, n) == InStep(s, w, n) \/ Behind(s, 2 * n, w[n])

LEMMA Kinds == Short(360) /\ ~Long(360) /\ Long(720) /\ ~Short(720)
BY DEF Short, Long

LEMMA OtherHeard ==
  ASSUME NEW w \in Words, NEW n \in 1..(BITS - 1), NEW s \in States, IsRead(s, w, n),
         NEW falling \in BOOLEAN, falling <=> w[n + 1] = 1, w[n + 1] # w[n],
         NEW x \in Int, Long(x) \/ Unclear(x), NEW t, t = Length(s, falling, x)
  PROVE  /\ IsRead(t, w, n + 1)
         /\ InStep(s, w, n) /\ Long(x) => InStep(t, w, n + 1)
<1>1. w[n] \in Bits /\ w[n + 1] \in Bits /\ s.state \in Nat /\ n \in Nat /\ n < BITS
  BY Numbers DEF Words, Bits, States
<1>2. s.state # BITS
  BY <1>1 DEF IsRead, InStep, ReadTo, Behind
<1>3. ASSUME InStep(s, w, n), Long(x) PROVE InStep(t, w, n + 1)
  BY <1>3, OtherBit
<1>4. ASSUME Unclear(x) PROVE Behind(t, 2 * (n + 1), w[n + 1])
  <2>1. IsReset(s, t)
    BY <1>2, <1>4, LengthIs
  <2> QED BY <2>1 DEF IsReset, Behind
<1>5. ASSUME Behind(s, 2 * n, w[n]), Long(x) PROVE Behind(t, 2 * (n + 1), w[n + 1])
  <2>1. 1 - w[n + 1] = w[n] /\ 2 * n + 2 = 2 * (n + 1) /\ 2 * n \in Nat /\ 2 * n + 2 >= 4
    BY <1>1 DEF Bits
  <2>2. Behind(s, 2 * n, 1 - w[n + 1])
    BY <1>5, <2>1
  <2>3. Behind(t, 2 * n + 2, w[n + 1])
    BY <1>1, <1>2, <2>1, <2>2, StillBehind
  <2> QED BY <2>1, <2>3
<1> QED BY <1>3, <1>4, <1>5 DEF IsRead

LEMMA SameHeard ==
  ASSUME NEW w \in Words, NEW n \in 1..(BITS - 1), NEW s \in States, IsRead(s, w, n),
         NEW first \in BOOLEAN, NEW falling \in BOOLEAN,
         falling <=> w[n + 1] = 1, first <=> ~falling, w[n + 1] = w[n],
         NEW x \in Int, x = 360 \/ Unclear(x), NEW y \in Int, y = 360 \/ Unclear(y),
         NEW t, t = Length(s, first, x), NEW u, u = Length(t, falling, y)
  PROVE  /\ IsRead(u, w, n + 1)
         /\ InStep(s, w, n) /\ x = 360 /\ y = 360 => InStep(u, w, n + 1)
<1>1. w[n] \in Bits /\ s.state \in Nat /\ n \in Nat \ {0} /\ n < BITS
  BY Numbers DEF Words, Bits, States
<1>2. s.state # BITS /\ t \in States
  BY <1>1, LengthTyped DEF IsRead, InStep, ReadTo, Behind
<1>3. ~Long(x) /\ ~Long(y)
  BY Kinds DEF Unclear
<1>4. ASSUME InStep(s, w, n), x = 360 PROVE t.state = n
  <2>1. \E z : z = Length(t, falling, 360)
    OBVIOUS
  <2> QED BY <1>4, <2>1, SameBit
<1>5. ASSUME InStep(s, w, n), x = 360, y = 360 PROVE InStep(u, w, n + 1)
  BY <1>5, SameBit
<1>6. ASSUME InStep(s, w, n), x = 360, Unclear(y) PROVE Behind(u, 2 * (n + 1), w[n + 1])
  <2>1. t.state = n
    BY <1>4, <1>6
  <2>2. IsReset(t, u)
    BY <1>1, <1>2, <1>6, <2>1, LengthIs
  <2> QED BY <2>2 DEF IsReset, Behind
<1>7. ASSUME Unclear(x) PROVE Behind(t, 2 * n + 1, 1 - w[n])
  <2>1. IsReset(s, t)
    BY <1>2, <1>7, LengthIs
  <2> QED BY <2>1 DEF IsReset, Behind
<1>8. ASSUME Behind(s, 2 * n, w[n]) PROVE Behind(t, 2 * n + 1, 1 - w[n])
  <2> DEFINE b == 1 - w[n]
  <2>1. b \in Bits /\ 1 - b = w[n] /\ 2 * n \in Nat /\ 1 \in {1, 2} /\ (first <=> b = 1)
    BY <1>1 DEF Bits
  <2>2. b = 1 => n # 1
    BY <1>1 DEF Words
  <2>3. b = 1 => 2 * n + 1 >= 4
    BY <1>1, <2>2
  <2>4. Behind(s, 2 * n, 1 - b)
    BY <1>8, <2>1
  <2> HIDE DEF b
  <2>5. Behind(t, 2 * n + 1, b)
    BY <1>2, <1>3, <2>1, <2>3, <2>4, StillBehind
  <2> QED BY <2>5 DEF b
<1>9. ASSUME Behind(t, 2 * n + 1, 1 - w[n]) PROVE Behind(u, 2 * (n + 1), w[n + 1])
  <2>1. t.state # BITS
    BY <1>1, <1>2, <1>9 DEF Behind, States
  <2>2. 2 * n + 1 \in Nat /\ (2 * n + 1) + 1 = 2 * (n + 1) /\ (2 * n + 1) + 1 >= 4 /\ 1 \in {1, 2}
    BY <1>1
  <2>3. Behind(u, (2 * n + 1) + 1, w[n])
    BY <1>1, <1>2, <1>3, <1>9, <2>1, <2>2, StillBehind
  <2> QED BY <2>2, <2>3
<1> QED BY <1>5, <1>6, <1>7, <1>8, <1>9 DEF IsRead

LEMMA HeardAt ==
  ASSUME NEW v, NEW off, NEW us, CodeAt(v, off, us), NEW i \in 1..Len(us)
  PROVE  HeardLike(v[off + i], us[i]) /\ (WellAt(v, off, us) => v[off + i] = us[i])
BY Zenon DEF CodeAt, WellAt

LEMMA HeardLikeIs ==
  ASSUME NEW x, x = 360 \/ x = 720, NEW y, y = x \/ y = 20000 \/ y = x + 137
  PROVE  HeardLike(y, x)
<1>1. CASE y = x
  BY <1>1 DEF HeardLike
<1>2. CASE y = 20000
  BY <1>2 DEF HeardLike, Unclear, Short, Long
<1>3. CASE y = x + 137
  <2>1. CASE x = 360
    <3>1. y = 497
      BY <1>3, <2>1
    <3> QED BY <3>1 DEF HeardLike, Unclear, Short, Long
  <2>2. CASE x = 720
    <3>1. y = 857
      BY <1>3, <2>2
    <3>2. Long(y)
      BY <3>1 DEF Long
    <3> QED BY <2>2, <3>2 DEF HeardLike
  <2> QED BY <2>1, <2>2
<1> QED BY <1>1, <1>2, <1>3

LEMMA ShortHeard ==
  ASSUME NEW y, HeardLike(y, 360)
  PROVE  y = 360 \/ Unclear(y)
BY DEF HeardLike

LEMMA LongHeard ==
  ASSUME NEW y, HeardLike(y, 720)
  PROVE  y = 720 \/ Unclear(y) \/ Long(y)
BY DEF HeardLike

LEMMA NextIsOdd ==
  ASSUME NEW p \in Nat
  PROVE  p % 2 \in {0, 1} /\ ((p + 1) % 2 = 1 <=> p % 2 = 0)
OBVIOUS

LEMMA DecodedAt ==
  ASSUME NEW v \in Seq(Int), NEW p \in Nat, NEW j \in 1..Len(v), j = p + 1,
         NEW falling \in BOOLEAN, falling <=> j % 2 = 1
  PROVE  /\ Decoder(v)[j] = Length(Decoder(v)[p], falling, v[j])
         /\ Decoder(v)[p] \in States /\ Decoder(v)[j] \in States /\ v[j] \in Int
<1>1. Len(v) \in Nat
  OBVIOUS
<1>2. p \in 0..Len(v) /\ j \in 0..Len(v) /\ j - 1 = p
  BY <1>1
<1>3. Decoder(v)[j] = Length(Decoder(v)[j - 1], j % 2 = 1, v[j])
  BY <1>1, DecoderIs
<1>4. Decoder(v)[p] \in States /\ Decoder(v)[j] \in States
  BY <1>1, <1>2, DecoderIs
<1> QED BY <1>2, <1>3, <1>4

LEMMA OtherAt ==
  ASSUME NEW w \in Words, NEW n \in 1..(BITS - 1), w[n + 1] # w[n],
         NEW v \in Seq(Int), NEW p \in Nat, NEW j \in 1..Len(v), j = p + 1,
         p % 2 = w[n], IsRead(Decoder(v)[p], w, n),
         v[j] = 720 \/ Unclear(v[j]) \/ Long(v[j])
  PROVE  /\ IsRead(Decoder(v)[j], w, n + 1)
         /\ InStep(Decoder(v)[p], w, n) /\ v[j] = 720 => InStep(Decoder(v)[j], w, n + 1)
<1>1. w[n] \in {0, 1} /\ w[n + 1] \in {0, 1}
  BY Numbers DEF Words
<1>2. PICK falling \in BOOLEAN : falling <=> j % 2 = 1
  OBVIOUS
<1>3. falling <=> w[n + 1] = 1
  <2>1. falling <=> w[n] = 0
    BY <1>2, NextIsOdd
  <2> QED BY <1>1, <2>1
<1>4. /\ Decoder(v)[j] = Length(Decoder(v)[p], falling, v[j])
      /\ Decoder(v)[p] \in States /\ v[j] \in Int
  BY <1>2, DecodedAt
<1>5. Long(v[j]) \/ Unclear(v[j])
  BY Kinds
<1>6. v[j] = 720 => Long(v[j])
  BY Kinds
<1> QED BY <1>3, <1>4, <1>5, <1>6, OtherHeard

(* The code, bit for bit, behind an even number of lengths that have left  *)
(* nothing behind.                                                         *)
LEMMA FirstAt ==
  ASSUME NEW w \in Words, NEW v \in Seq(Int), NEW off \in Nat, off % 2 = 0,
         NEW j \in 1..Len(v), j = off + 1, v[j] = 360 \/ Unclear(v[j]),
         Decoder(v)[off].state = 0, Decoder(v)[off].sr = <<0, 0, 0>>
  PROVE  /\ IsRead(Decoder(v)[j], w, 1)
         /\ v[j] = 360 => InStep(Decoder(v)[j], w, 1)
<1>1. PICK falling \in BOOLEAN : falling <=> j % 2 = 1
  OBVIOUS
<1>2. falling <=> w[1] = 1
  BY <1>1, NextIsOdd DEF Words
<1>3. /\ Decoder(v)[j] = Length(Decoder(v)[off], falling, v[j])
      /\ Decoder(v)[off] \in States /\ v[j] \in Int
  BY <1>1, DecodedAt
<1>4. ASSUME v[j] = 360 PROVE InStep(Decoder(v)[j], w, 1)
  <2>1. PICK s \in States : s = Decoder(v)[off]
    BY <1>3
  <2>2. PICK t : t = Decoder(v)[j]
    OBVIOUS
  <2>3. t = Length(s, falling, 360)
    BY <1>3, <1>4, <2>1, <2>2, Zenon
  <2>4. s.state = 0 /\ s.sr = <<0, 0, 0>>
    BY <2>1
  <2>5. InStep(t, w, 1)
    BY <1>2, <2>3, <2>4, FirstBit, SMTT(40)
  <2> QED BY <2>2, <2>5
<1>5. ASSUME Unclear(v[j]) PROVE Behind(Decoder(v)[j], 2 * 1, w[1])
  <2>1. Decoder(v)[off].state # BITS
    BY Numbers
  <2>2. IsReset(Decoder(v)[off], Decoder(v)[j])
    BY <1>3, <1>5, <2>1, LengthIs
  <2> QED BY <2>2 DEF IsReset, Behind
<1> QED BY <1>4, <1>5 DEF IsRead

LEMMA SameParity ==
  ASSUME NEW off \in Nat, off % 2 = 0, NEW a \in Nat
  PROVE  (off + a) % 2 = a % 2
OBVIOUS

(* A record with an r-step code behind an even number of lengths, which    *)
(* have left nothing in the decoder.                                       *)
CodeBehind(v, off, w, us) ==
  /\ w \in Words /\ us = Encode(w) /\ v \in Seq(Int)
  /\ off \in Nat /\ off % 2 = 0 /\ Len(v) = off + Len(us) /\ CodeAt(v, off, us)
  /\ Decoder(v)[off].state = 0 /\ Decoder(v)[off].sr = <<0, 0, 0>>
(* What is known of the decoder after n bits of the code.                  *)
Told(v, off, w, us, n) ==
  /\ IsRead(Decoder(v)[off + PosOf(w, n)], w, n)
  /\ WellAt(v, off, us) => InStep(Decoder(v)[off + PosOf(w, n)], w, n)

(* The same lemmas, for the places in a record.                            *)
ReadAt(v, p, w, n) == IsRead(Decoder(v)[p], w, n)
StepAt(v, p, w, n) == InStep(Decoder(v)[p], w, n)
LongAt(v, j) == v[j] = 720 \/ Unclear(v[j]) \/ Long(v[j])
ShortAt(v, j) == v[j] = 360 \/ Unclear(v[j])

EdgeAfter(w, n) == w[n + 1] # w[n]

LEMMA OtherPlace ==
  ASSUME NEW w \in Words, NEW n \in 1..(BITS - 1), EdgeAfter(w, n),
         NEW v \in Seq(Int), NEW p \in Nat, p + 1 \in 1..Len(v), p % 2 = w[n],
         ReadAt(v, p, w, n), LongAt(v, p + 1)
  PROVE  /\ ReadAt(v, p + 1, w, n + 1)
         /\ StepAt(v, p, w, n) /\ v[p + 1] = 720 => StepAt(v, p + 1, w, n + 1)
<1>1. PICK j \in 1..Len(v) : j = p + 1
  OBVIOUS
<1>2. IsRead(Decoder(v)[p], w, n)
  BY Zenon DEF ReadAt
<1>3. v[j] = 720 \/ Unclear(v[j]) \/ Long(v[j])
  BY <1>1, Zenon DEF LongAt
<1>4. /\ IsRead(Decoder(v)[j], w, n + 1)
      /\ InStep(Decoder(v)[p], w, n) /\ v[j] = 720 => InStep(Decoder(v)[j], w, n + 1)
  BY <1>1, <1>2, <1>3, OtherAt DEF EdgeAfter
<1> QED BY <1>1, <1>4, Zenon DEF ReadAt, StepAt

LEMMA SamePlace ==
  ASSUME NEW w \in Words, NEW n \in 1..(BITS - 1), w[n + 1] = w[n],
         NEW v \in Seq(Int), NEW p \in Nat, p + 2 \in 1..Len(v), p % 2 = w[n],
         ReadAt(v, p, w, n), ShortAt(v, p + 1), ShortAt(v, p + 2)
  PROVE  /\ ReadAt(v, p + 2, w, n + 1)
         /\ StepAt(v, p, w, n) /\ v[p + 1] = 360 /\ v[p + 2] = 360
              => StepAt(v, p + 2, w, n + 1)
<1>1. PICK i, j \in 1..Len(v) : i = p + 1 /\ j = p + 2 /\ j = i + 1 /\ i \in Nat
  OBVIOUS
<1>2. w[n] \in {0, 1}
  BY Numbers DEF Words
<1>3. PICK first \in BOOLEAN : first <=> i % 2 = 1
  OBVIOUS
<1>4. PICK falling \in BOOLEAN : falling <=> j % 2 = 1
  OBVIOUS
<1>5. (falling <=> w[n + 1] = 1) /\ (first <=> ~falling)
  <2>1. first <=> w[n] = 0
    BY <1>1, <1>3, NextIsOdd
  <2>2. falling <=> ~first
    BY <1>1, <1>3, <1>4, NextIsOdd
  <2> QED BY <1>2, <2>1, <2>2, SMTT(40)
<1>6. /\ Decoder(v)[i] = Length(Decoder(v)[p], first, v[i])
      /\ Decoder(v)[p] \in States /\ v[i] \in Int
  BY <1>1, <1>3, DecodedAt
<1>7. Decoder(v)[j] = Length(Decoder(v)[i], falling, v[j]) /\ v[j] \in Int
  BY <1>1, <1>4, DecodedAt, SMTT(40)
<1>12. PICK s \in States : s = Decoder(v)[p]
  BY <1>6, Zenon
<1>13. PICK t, u : t = Decoder(v)[i] /\ u = Decoder(v)[j]
  OBVIOUS
<1>14. PICK x, y \in Int : x = v[i] /\ y = v[j]
  BY <1>6, <1>7, Zenon
<1>8. /\ s = Decoder(v)[p] /\ t = Decoder(v)[i] /\ u = Decoder(v)[j]
      /\ x = v[i] /\ y = v[j]
  BY <1>12, <1>13, <1>14
<1>9. t = Length(s, first, x) /\ u = Length(t, falling, y)
  BY <1>6, <1>7, <1>8, Zenon
<1>10. IsRead(s, w, n) /\ (x = 360 \/ Unclear(x)) /\ (y = 360 \/ Unclear(y))
  BY <1>1, <1>8, Zenon DEF ReadAt, ShortAt
<1>11. /\ IsRead(u, w, n + 1)
       /\ InStep(s, w, n) /\ x = 360 /\ y = 360 => InStep(u, w, n + 1)
  BY <1>5, <1>9, <1>10, SameHeard, SMTT(40)
<1> QED BY <1>1, <1>8, <1>11, Zenon DEF ReadAt, StepAt

LEMMA FirstTold ==
  ASSUME NEW v, NEW off, NEW w, NEW us, CodeBehind(v, off, w, us)
  PROVE  Told(v, off, w, us, 1)
<1>1. /\ w \in Words /\ us = Encode(w) /\ v \in Seq(Int) /\ off \in Nat /\ off % 2 = 0
      /\ Len(v) = off + Len(us) /\ CodeAt(v, off, us)
  BY DEF CodeBehind
<1>2. /\ us \in Seq(Sent) /\ us[1] = 360 /\ PosOf(w, 1) = 1
      /\ \A n \in 1..BITS : PosOf(w, n) \in 1..Len(us)
  BY <1>1, CodeSent
<1>3. 1 \in 1..Len(us) /\ Len(us) \in Nat
  BY <1>2, Numbers
<1>4. PICK j \in 1..Len(v) : j = off + 1
  BY <1>1, <1>3
<1>5. HeardLike(v[off + 1], us[1]) /\ (WellAt(v, off, us) => v[off + 1] = us[1])
  BY <1>1, <1>3, Zenon DEF CodeAt, WellAt
<1>6. (v[j] = 360 \/ Unclear(v[j])) /\ (WellAt(v, off, us) => v[j] = 360)
  <2>1. HeardLike(v[j], 360) /\ (WellAt(v, off, us) => v[j] = 360)
    BY <1>2, <1>4, <1>5, Zenon
  <2> QED BY <2>1, ShortHeard, Zenon
<1>7. /\ IsRead(Decoder(v)[j], w, 1)
      /\ v[j] = 360 => InStep(Decoder(v)[j], w, 1)
  <2>1. Decoder(v)[off].state = 0 /\ Decoder(v)[off].sr = <<0, 0, 0>>
    BY Zenon DEF CodeBehind
  <2>2. v[j] = 360 \/ Unclear(v[j])
    BY <1>6
  <2>3. w \in Words /\ v \in Seq(Int) /\ off \in Nat /\ off % 2 = 0
    BY <1>1
  <2> QED BY <1>4, <2>1, <2>2, <2>3, FirstAt, ZenonT(40)
<1>8. off + PosOf(w, 1) = j
  BY <1>2, <1>4
<1> QED BY <1>6, <1>7, <1>8, Zenon DEF Told

LEMMA NextTold ==
  ASSUME NEW v, NEW off, NEW w, NEW us, CodeBehind(v, off, w, us),
         NEW n \in 1..(BITS - 1), Told(v, off, w, us, n)
  PROVE  Told(v, off, w, us, n + 1)
<1>1. /\ w \in Words /\ us = Encode(w) /\ v \in Seq(Int) /\ off \in Nat /\ off % 2 = 0
      /\ Len(v) = off + Len(us) /\ CodeAt(v, off, us)
  BY DEF CodeBehind
<1>2. us \in Seq(Sent)
  BY <1>1, CodeSent
<1>3. n \in 1..BITS /\ n + 1 \in 1..BITS
  BY Numbers
<1>4. PosOf(w, n) \in 1..Len(us) /\ PosOf(w, n) % 2 = w[n] /\ PosOf(w, n + 1) \in 1..Len(us)
  BY <1>1, <1>3, CodeSent
<1>5. PICK a, b \in 1..Len(us) : a = PosOf(w, n) /\ a % 2 = w[n] /\ b = PosOf(w, n + 1)
  BY <1>4, Zenon
<1>6. Len(us) \in Nat
  BY <1>2
<1>7. PICK p \in Nat : p = off + a /\ p % 2 = a % 2
  BY <1>1, <1>6, SameParity
<1>8. p % 2 = w[n]
  BY <1>5, <1>7
<1>9. ReadAt(v, p, w, n) /\ (WellAt(v, off, us) => StepAt(v, p, w, n))
  BY <1>5, <1>7, Zenon DEF Told, ReadAt, StepAt
<1>10. off + b \in 1..Len(v)
  BY <1>1, <1>6
<1>11. HeardLike(v[off + b], us[b]) /\ (WellAt(v, off, us) => v[off + b] = us[b])
  BY <1>1, Zenon DEF CodeAt, WellAt
<1>12. CASE w[n + 1] # w[n]
  <2>1. b = a + 1 /\ us[b] = 720
    <3>1. PosOf(w, n + 1) = PosOf(w, n) + 1 /\ us[PosOf(w, n) + 1] = 720
      BY <1>1, <1>12, CodeSent
    <3> QED BY <1>5, <3>1
  <2>2. off + b = p + 1
    BY <1>1, <1>6, <1>7, <2>1
  <2>3. HeardLike(v[p + 1], 720) /\ (WellAt(v, off, us) => v[p + 1] = 720)
    BY <1>11, <2>1, <2>2, ZenonT(40)
  <2>4. LongAt(v, p + 1)
    BY <2>3 DEF LongAt, HeardLike
  <2>5. p + 1 \in 1..Len(v)
    BY <1>10, <2>2
  <2>6. /\ ReadAt(v, p + 1, w, n + 1)
        /\ StepAt(v, p, w, n) /\ v[p + 1] = 720 => StepAt(v, p + 1, w, n + 1)
    <3>1. w \in Words /\ v \in Seq(Int)
      BY <1>1
    <3>2. ReadAt(v, p, w, n)
      BY <1>9
    <3>3. EdgeAfter(w, n)
      BY <1>12 DEF EdgeAfter
    <3> QED BY <1>8, <2>4, <2>5, <3>1, <3>2, <3>3, OtherPlace, Zenon
  <2> QED BY <1>5, <1>9, <2>2, <2>3, <2>6, ZenonT(40) DEF Told, ReadAt, StepAt
<1>13. CASE w[n + 1] = w[n]
  <2>1. PICK c \in 1..Len(us) : c = a + 1 /\ b = a + 2 /\ us[c] = 360 /\ us[b] = 360
    <3>1. /\ PosOf(w, n + 1) = PosOf(w, n) + 2
          /\ us[PosOf(w, n) + 1] = 360 /\ us[PosOf(w, n) + 2] = 360
      BY <1>1, <1>13, CodeSent
    <3>2. b = a + 2 /\ us[a + 1] = 360 /\ us[b] = 360
      BY <1>5, <3>1
    <3> QED BY <1>6, <3>2
  <2>2. off + b = p + 2 /\ off + c = p + 1
    BY <1>1, <1>6, <1>7, <2>1
  <2>3. HeardLike(v[off + c], us[c]) /\ (WellAt(v, off, us) => v[off + c] = us[c])
    BY <1>1, Zenon DEF CodeAt, WellAt
  <2>4. /\ HeardLike(v[p + 1], 360) /\ (WellAt(v, off, us) => v[p + 1] = 360)
        /\ HeardLike(v[p + 2], 360) /\ (WellAt(v, off, us) => v[p + 2] = 360)
    BY <1>11, <2>1, <2>2, <2>3, ZenonT(40)
  <2>5. ShortAt(v, p + 1) /\ ShortAt(v, p + 2)
    <3>1. v[p + 1] = 360 \/ Unclear(v[p + 1])
      BY <2>4, ShortHeard, Zenon
    <3>2. v[p + 2] = 360 \/ Unclear(v[p + 2])
      BY <2>4, ShortHeard, Zenon
    <3> QED BY <3>1, <3>2, Zenon DEF ShortAt
  <2>6. p + 2 \in 1..Len(v)
    BY <1>10, <2>2
  <2>7. /\ ReadAt(v, p + 2, w, n + 1)
        /\ StepAt(v, p, w, n) /\ v[p + 1] = 360 /\ v[p + 2] = 360
             => StepAt(v, p + 2, w, n + 1)
    <3>1. w \in Words /\ v \in Seq(Int)
      BY <1>1
    <3>2. ReadAt(v, p, w, n)
      BY <1>9
    <3> QED BY <1>8, <1>13, <2>5, <2>6, <3>1, <3>2, SamePlace, Zenon
  <2> QED BY <1>5, <1>9, <2>2, <2>4, <2>7, Zenon DEF Told, ReadAt, StepAt
<1> QED BY <1>12, <1>13

LEMMA BitsHeard ==
  ASSUME NEW v, NEW off, NEW w, NEW us, CodeBehind(v, off, w, us)
  PROVE  Told(v, off, w, us, BITS)
<1> DEFINE P == {k \in 0..(BITS - 1) : Told(v, off, w, us, k + 1)}
<1>1. 0 \in P
  BY FirstTold, Numbers
<1>2. ASSUME NEW k \in 0..(BITS - 1 - 1), k \in P PROVE k + 1 \in P
  <2>1. k + 1 \in 1..(BITS - 1) /\ k + 1 \in 0..(BITS - 1)
    BY Numbers
  <2>2. Told(v, off, w, us, k + 1)
    BY <1>2
  <2>3. Told(v, off, w, us, (k + 1) + 1)
    BY <2>1, <2>2, NextTold
  <2> QED BY <2>1, <2>3
<1> HIDE DEF P
<1>3. BITS - 1 \in Nat
  BY Numbers
<1>4. \A k \in 0..(BITS - 1) : k \in P
  BY <1>1, <1>2, <1>3, UpTo
<1>5. BITS - 1 \in 0..(BITS - 1) /\ (BITS - 1) + 1 = BITS
  BY Numbers
<1> QED BY <1>4, <1>5 DEF P

LEMMA WordIs ==
  ASSUME NEW w \in Words, NEW d \in Seq(Bits), BITS <= Len(d),
         \A i \in 1..BITS : d[Len(d) - BITS + i] = w[i]
  PROVE  SubSeq(d, Len(d) - BITS + 1, Len(d)) = w
<1>1. BITS \in Nat \ {0} /\ Len(d) \in Nat
  BY Numbers
<1> DEFINE x == SubSeq(d, Len(d) - BITS + 1, Len(d))
<1>2. x \in Seq(Bits) /\ Len(x) = BITS /\ \A i \in 1..BITS : x[i] = d[Len(d) - BITS + i]
  BY <1>1
<1> HIDE DEF x
<1>3. x = [i \in 1..BITS |-> x[i]] /\ \A i \in 1..BITS : x[i] = w[i]
  BY <1>2
<1>4. w = [i \in 1..BITS |-> w[i]]
  BY DEF Words
<1>5. x = w
  BY <1>3, <1>4
<1> QED BY <1>5 DEF x

(* Of a code in a record the decoder finds the code or none, and the code  *)
(* when it was heard well.                                                 *)
LEMMA CodeFound ==
  ASSUME NEW v, NEW off, NEW w, NEW us, CodeBehind(v, off, w, us)
  PROVE  /\ decode_rstep(v) \in {w, NoCode}
         /\ WellAt(v, off, us) => decode_rstep(v) = w
<1>1. /\ w \in Words /\ us = Encode(w) /\ v \in Seq(Int) /\ off \in Nat /\ off % 2 = 0
      /\ Len(v) = off + Len(us)
  BY DEF CodeBehind
<1>2. BITS \in 1..BITS /\ BITS \in Nat
  BY Numbers
<1>3. /\ us \in Seq(Sent) /\ PosOf(w, BITS) \in 1..Len(us) /\ PosOf(w, BITS) % 2 = w[BITS]
      /\ \/ Len(us) = PosOf(w, BITS)
         \/ Len(us) = PosOf(w, BITS) + 1 /\ us[Len(us)] = 360 /\ w[BITS] = 0
  BY <1>1, <1>2, CodeSent, SMTT(40)
<1>4. PICK p \in Nat : p = off + PosOf(w, BITS) /\ p % 2 = w[BITS]
  <2>1. PICK m \in Nat : m = PosOf(w, BITS) /\ m % 2 = w[BITS]
    BY <1>3
  <2>2. off + m \in Nat /\ (off + m) % 2 = m % 2
    BY <1>1, SameParity
  <2>3. off + m = off + PosOf(w, BITS) /\ (off + m) % 2 = w[BITS]
    BY <2>1, <2>2
  <2> QED BY <2>2, <2>3, Zenon
<1>5. PICK L \in Nat : L = Len(v) /\ p <= L
  BY <1>1, <1>3, <1>4, SMTT(40)
<1>6. PICK s \in States : s = Decoder(v)[p]
  BY <1>4, <1>5, DecoderIs
<1>7. PICK end \in States : end = Decoder(v)[L]
  BY <1>5, DecoderIs
<1>8. L # p => /\ L = p + 1 /\ v[L] \in Int /\ HeardLike(v[L], 360) /\ w[BITS] = 0
               /\ end = Length(s, TRUE, v[L])
  <2> SUFFICES ASSUME L # p PROVE /\ L = p + 1 /\ v[L] \in Int /\ HeardLike(v[L], 360)
                                  /\ w[BITS] = 0 /\ end = Length(s, TRUE, v[L])
    OBVIOUS
  <2>1. Len(us) = PosOf(w, BITS) + 1 /\ us[Len(us)] = 360 /\ w[BITS] = 0
    BY <1>1, <1>3, <1>4, <1>5
  <2>2. L = p + 1 /\ L = off + Len(us) /\ Len(us) \in 1..Len(us) /\ L \in 1..Len(v)
    <3>1. PICK m \in Nat : m = PosOf(w, BITS) /\ Len(us) = m + 1
      BY <1>3, <2>1
    <3>2. p = off + m /\ L = off + Len(us)
      BY <1>1, <1>4, <1>5, <3>1
    <3> HIDE <1>1, <1>3
    <3>3. L = p + 1 /\ Len(us) \in 1..Len(us)
      BY <1>1, <3>1, <3>2, SMTT(40)
    <3> QED BY <1>5, <3>2, <3>3
  <2>3. CodeAt(v, off, us)
    BY DEF CodeBehind
  <2>4. HeardLike(v[off + Len(us)], us[Len(us)])
    BY <2>2, <2>3, Zenon DEF CodeAt
  <2>5. HeardLike(v[L], 360)
    BY <2>1, <2>2, <2>4, Zenon
  <2>6. TRUE <=> L % 2 = 1
    BY <1>4, <2>1, <2>2
  <2>7. Decoder(v)[L] = Length(Decoder(v)[p], TRUE, v[L]) /\ v[L] \in Int
    BY <1>1, <2>2, <2>6, DecodedAt
  <2> QED BY <1>6, <1>7, <2>1, <2>2, <2>5, <2>7, Zenon
<1>9. ASSUME InStep(s, w, BITS) PROVE decode_rstep(v) = w
  <2>1. s.state = BITS
    BY <1>9 DEF InStep, ReadTo
  <2>2. end = s
    <3>1. CASE L = p
      BY <1>6, <1>7, <3>1
    <3>2. CASE L # p
      BY <1>8, <2>1, <3>2, LengthFrozen
    <3> QED BY <3>1, <3>2
  <2>3. /\ s.data \in Seq(Bits) /\ BITS <= Len(s.data)
        /\ \A i \in 1..BITS : s.data[Len(s.data) - BITS + i] = w[i]
    BY <1>9 DEF InStep, ReadTo, States
  <2>4. SubSeq(s.data, Len(s.data) - BITS + 1, Len(s.data)) = w
    BY <1>1, <2>3, WordIs
  <2>5. Decoder(v)[Len(v)] = s
    BY <1>5, <1>7, <2>2, Zenon
  <2> QED BY <2>1, <2>4, <2>5 DEF decode_rstep
<1>10. ASSUME Behind(s, 2 * BITS, w[BITS]) PROVE decode_rstep(v) = NoCode
  <2>1. w[BITS] \in Bits /\ s.state \in Nat /\ end.state \in Nat
    BY <1>1, <1>2 DEF Words, Bits, States
  <2>2. s.state # BITS
    BY <1>2, <1>10, <2>1, Numbers DEF Behind
  <2>3. end.state # BITS
    <3>1. CASE L = p
      BY <1>6, <1>7, <2>2, <3>1
    <3>2. CASE L # p
      <4>1. ~Long(v[L])
        BY <1>8, <3>2, Kinds DEF HeardLike, Unclear
      <4>2. Behind(s, 2 * BITS, 1 - 1)
        BY <1>8, <1>10, <3>2
      <4>3. /\ 2 * BITS \in Nat /\ 1 \in {1, 2} /\ 1 \in Bits /\ 2 * BITS + 1 >= 4
            /\ (TRUE <=> 1 = 1)
        BY Numbers DEF Bits
      <4>4. Behind(end, 2 * BITS + 1, 1)
        BY <1>8, <2>2, <3>2, <4>1, <4>2, <4>3, StillBehind
      <4> QED BY <1>2, <2>1, <4>4, Numbers DEF Behind
    <3> QED BY <3>1, <3>2
  <2>4. Decoder(v)[Len(v)].state # BITS
    BY <1>5, <1>7, <2>3
  <2> QED BY <2>4 DEF decode_rstep
<1>11. Told(v, off, w, us, BITS)
  BY BitsHeard
<1>12. /\ IsRead(s, w, BITS)
       /\ WellAt(v, off, us) => InStep(s, w, BITS)
  BY <1>4, <1>6, <1>11, Zenon DEF Told
<1> QED BY <1>9, <1>10, <1>12 DEF IsRead

-----------------------------------------------------------------------------
(* Infrared codes: records with an r-step code.                            *)

(* Like what was sent, but for the k-th length.                            *)
OneWrong(us, v, k) ==
  /\ k \in 1..Len(us) /\ v \in Seq(Int) /\ Len(v) = Len(us)
  /\ \A i \in 1..Len(us) : i # k => v[i] = us[i]
  /\ v[k] = 20000 \/ v[k] = us[k] + 137

LEMMA WrongIs ==
  ASSUME NEW us \in Seq(Int), NEW v \in Wrong(us)
  PROVE  \E k : OneWrong(us, v, k)
<1>1. PICK k \in DOMAIN us :
        v = [us EXCEPT ![k] = 20000] \/ v = [us EXCEPT ![k] = us[k] + 137]
  BY DEF Wrong
<1>2. k \in 1..Len(us) /\ us[k] \in Int
  OBVIOUS
<1>3. CASE v = [us EXCEPT ![k] = 20000]
  <2>1. PICK x \in Int : x = 20000
    OBVIOUS
  <2>2. v = [us EXCEPT ![k] = x]
    BY <1>3, <2>1
  <2>4. /\ v \in Seq(Int) /\ Len(v) = Len(us) /\ v[k] = x
        /\ \A i \in 1..Len(us) : i # k => v[i] = us[i]
    BY <1>2, <2>2
  <2>3. OneWrong(us, v, k)
    BY <1>2, <2>1, <2>4 DEF OneWrong
  <2> QED BY <2>3, Zenon
<1>4. CASE v = [us EXCEPT ![k] = us[k] + 137]
  <2>1. PICK x \in Int : x = us[k] + 137
    BY <1>2
  <2>2. v = [us EXCEPT ![k] = x]
    BY <1>4, <2>1
  <2>4. /\ v \in Seq(Int) /\ Len(v) = Len(us) /\ v[k] = x
        /\ \A i \in 1..Len(us) : i # k => v[i] = us[i]
    BY <1>2, <2>2
  <2>3. OneWrong(us, v, k)
    BY <1>2, <2>1, <2>4 DEF OneWrong
  <2> QED BY <2>3, Zenon
<1> QED BY <1>1, <1>3, <1>4

(* A length moves the state by one at most.                                *)
LEMMA Slow ==
  ASSUME NEW v, Len(v) \in Nat
  PROVE  \A j \in 0..Len(v) : Decoder(v)[j].state <= j
<1> PICK L \in Nat : L = Len(v)
  OBVIOUS
<1> DEFINE P == {j \in 0..L : Decoder(v)[j].state <= j}
<1>1. 0 \in P
  BY DecoderIs DEF Fresh
<1>2. ASSUME NEW j \in 0..(L - 1), j \in P PROVE j + 1 \in P
  <2>1. j + 1 \in 1..L /\ (j + 1) - 1 = j /\ j \in 0..L /\ j + 1 \in 0..L /\ j \in Nat
    OBVIOUS
  <2>2. PICK s \in States : s = Decoder(v)[j] /\ s.state <= j
    BY <1>2, <2>1, DecoderIs
  <2>3. PICK falling \in BOOLEAN : falling <=> (j + 1) % 2 = 1
    OBVIOUS
  <2>4. Decoder(v)[j + 1] = Length(s, falling, v[j + 1])
    BY <2>1, <2>2, <2>3, DecoderIs
  <2>5. s.state \in Nat /\ 0 \in Bits /\ 1 \in Bits
    BY DEF States, Bits
  <2>6. ASSUME NEW rbit \in Bits PROVE Edge(s, falling, rbit).state <= j + 1
    BY <2>1, <2>2, <2>5, EdgeIs DEF IsReset, IsMoved, IsKept
  <2>7. Reset(s).state <= j + 1
    BY <2>1, ResetIs
  <2>8. Length(s, falling, v[j + 1]).state <= j + 1
    BY <2>1, <2>2, <2>5, <2>6, <2>7 DEF Length
  <2> QED BY <2>1, <2>4, <2>8
<1> HIDE DEF P
<1>3. \A j \in 0..L : j \in P
  BY <1>1, <1>2, UpTo
<1> QED BY <1>3 DEF P

(* What is sent, behind noise or not.                                      *)
PrefixLen(off) == off \in Nat /\ off % 2 = 0
Behind0(us, off, code) ==
  /\ us \in Seq(Int) /\ Len(us) = off + Len(code)
  /\ PrefixLen(off)
  /\ \A i \in 1..Len(code) : us[off + i] = code[i]
  /\ off > 0 => us[off] = 20000

LEMMA QuietIs ==
  ASSUME NEW code \in Seq(Int)
  PROVE  Behind0(code, 0, code)
<1>1. ASSUME NEW i \in 1..Len(code) PROVE code[0 + i] = code[i]
  <2>1. 0 + i = i
    OBVIOUS
  <2> QED BY <2>1
<1>2. Len(code) = 0 + Len(code)
  OBVIOUS
<1>3. PrefixLen(0)
  BY Numbers DEF PrefixLen
<1> QED BY <1>1, <1>2, <1>3 DEF Behind0

LEMMA OddNext ==
  ASSUME NEW m \in Nat, m % 2 = 1
  PROVE  (m + 1) % 2 = 0
OBVIOUS

LEMMA GapBefore ==
  ASSUME NEW code \in Seq(Int), NEW off \in Nat, PrefixLen(off), off > 0,
         NEW a \in Seq(Int), Len(a) = off, a[off] = 20000
  PROVE  Behind0(a \o code, off, code)
<1> DEFINE us == a \o code
<1>1. us \in Seq(Int) /\ Len(us) = off + Len(code)
  OBVIOUS
<1>2. ASSUME NEW i \in 1..Len(code) PROVE us[off + i] = code[i]
  OBVIOUS
<1>3. us[off] = 20000
  OBVIOUS
<1> HIDE DEF us
<1>4. Behind0(us, off, code)
  BY <1>1, <1>2, <1>3 DEF Behind0
<1> QED BY <1>4 DEF us

LEMMA NoiseBefore ==
  ASSUME NEW code \in Seq(Int), NEW m \in Nat, PrefixLen(m + 1), NEW n \in Seq(Int), Len(n) = m
  PROVE  Behind0(Append(n, 20000) \o code, m + 1, code)
<1>1. /\ Append(n, 20000) \in Seq(Int) /\ Len(Append(n, 20000)) = m + 1
      /\ Append(n, 20000)[m + 1] = 20000 /\ m + 1 \in Nat /\ m + 1 > 0
  OBVIOUS
<1> DEFINE a == Append(n, 20000)
           off == m + 1
<1>2. /\ a \in Seq(Int) /\ Len(a) = off /\ a[off] = 20000
      /\ off \in Nat /\ off > 0 /\ PrefixLen(off)
  BY <1>1
<1> HIDE DEF a, off
<1>3. Behind0(a \o code, off, code)
  BY <1>2, GapBefore
<1> QED BY <1>3 DEF a, off

NoisyAt(n, w, off) ==
  /\ Behind0(Noisy(n, w), off, Encode(w))
  /\ Len(n) < BITS => off <= BITS

LEMMA NoisyIs ==
  ASSUME NEW w \in Words, NEW n \in Noises \cup {<< >>}
  PROVE  \E off : NoisyAt(n, w, off)
<1>1. PICK code \in Seq(Int) : code = Encode(w)
  <2>1. Encode(w) \in Seq(Sent)
    BY CodeSent
  <2>2. Seq(Sent) \subseteq Seq(Int)
    BY DEF Sent
  <2> QED BY <2>1, <2>2, Zenon
<1>2. CASE n = << >>
  <2>1. Noisy(n, w) = code
    BY <1>1, <1>2 DEF Noisy
  <2>2. Behind0(code, 0, code)
    BY QuietIs
  <2>3. 0 <= BITS
    BY Numbers
  <2> QED BY <1>1, <2>1, <2>2, <2>3, Zenon DEF NoisyAt
<1>3. CASE n # << >>
  <2>1. n \in Seq(Nat) /\ Len(n) % 2 = 1
    BY <1>3, IrAssumption
  <2>2. PICK m \in Nat : m = Len(n) /\ m % 2 = 1
    BY <2>1
  <2>3. n \in Seq(Int) /\ Len(n) = m
    BY <2>1, <2>2
  <2>4. (m + 1) % 2 = 0
    BY <2>1, <2>2, OddNext
  <2>6. PrefixLen(m + 1)
    BY <2>2, <2>4, Numbers DEF PrefixLen
  <2>7. Behind0(Append(n, 20000) \o code, m + 1, code)
    BY <2>2, <2>3, <2>6, NoiseBefore
  <2>5. Noisy(n, w) = Append(n, 20000) \o code
    BY <1>1, <1>3 DEF Noisy
  <2>8. Behind0(Noisy(n, w), m + 1, Encode(w))
    BY <1>1, <2>5, <2>7
  <2>9. Len(n) < BITS => m + 1 <= BITS
    BY <2>2, Numbers
  <2> QED BY <2>8, <2>9, Zenon DEF NoisyAt
<1> QED BY <1>2, <1>3

(* A code after noise is found or not, and never another one instead.      *)
LEMMA NoisyHeard ==
  ASSUME NEW w \in Words, NEW us, NEW off, Behind0(us, off, Encode(w)), off <= BITS,
         NEW v, v = us \/ v \in Wrong(us)
  PROVE  /\ decode_rstep(v) \in {w, NoCode}
         /\ v = us => decode_rstep(v) = w
<1> DEFINE code == Encode(w)
<1>1. /\ us \in Seq(Int) /\ Len(us) = off + Len(code)
      /\ off \in Nat /\ off % 2 = 0 /\ off <= BITS
      /\ \A i \in 1..Len(code) : us[off + i] = code[i]
      /\ off > 0 => us[off] = 20000
  BY DEF Behind0, PrefixLen
<1>2. code \in Seq(Sent)
  BY CodeSent
<1>3. PICK C \in Nat : C = Len(code)
  BY <1>2
<1>4. \A i \in 1..C : code[i] = 360 \/ code[i] = 720
  BY <1>2, <1>3 DEF Sent
<1> HIDE DEF code
<1>5. /\ v \in Seq(Int) /\ Len(v) = Len(us)
      /\ \A i \in 1..Len(us) : v[i] = us[i] \/ v[i] = 20000 \/ v[i] = us[i] + 137
  <2>1. CASE v = us
    BY <1>1, <2>1
  <2>2. CASE v \in Wrong(us)
    <3>1. PICK k : OneWrong(us, v, k)
      BY <1>1, <2>2, WrongIs
    <3> QED BY <3>1 DEF OneWrong
  <2> QED BY <2>1, <2>2
<1>6. ASSUME NEW i \in 1..C PROVE HeardLike(v[off + i], code[i])
  <2>1. off + i \in 1..Len(us) /\ us[off + i] = code[i]
    BY <1>1, <1>3
  <2>3. PICK j \in 1..Len(us) : j = off + i
    BY <2>1
  <2>2. PICK x, y : x = code[i] /\ y = v[j]
    OBVIOUS
  <2>4. y = x \/ y = 20000 \/ y = x + 137
    <3>1. v[j] = us[j] \/ v[j] = 20000 \/ v[j] = us[j] + 137
      BY <1>5
    <3>2. us[j] = code[i]
      BY <2>1, <2>3, Zenon
    <3> QED BY <2>2, <3>1, <3>2
  <2>5. x = 360 \/ x = 720
    BY <1>4, <2>2
  <2>6. HeardLike(y, x)
    BY <2>4, <2>5, HeardLikeIs, SMTT(40)
  <2> QED BY <2>2, <2>3, <2>6, Zenon
<1>7. CodeAt(v, off, code)
  BY <1>3, <1>6 DEF CodeAt
<1>8. Decoder(v)[off].state = 0 /\ Decoder(v)[off].sr = <<0, 0, 0>>
  <2>1. Len(v) \in Nat
    BY <1>5
  <2>2. CASE off = 0
    <3>1. Decoder(v)[0] = Fresh
      BY <2>1, DecoderIs
    <3> QED BY <2>2, <3>1 DEF Fresh
  <2>3. CASE off # 0
    <3>1. PICK m \in Nat : off = m + 1 /\ m < BITS
      BY <1>1, <2>3, Numbers
    <3>2. off \in 1..Len(v) /\ m \in 0..Len(v) /\ off \in Nat
      BY <1>1, <1>3, <1>5, <3>1
    <3>3. PICK falling \in BOOLEAN : falling <=> off % 2 = 1
      OBVIOUS
    <3>4. /\ Decoder(v)[off] = Length(Decoder(v)[m], falling, v[off])
          /\ Decoder(v)[m] \in States /\ v[off] \in Int
      BY <1>5, <3>1, <3>2, <3>3, DecodedAt
    <3>5. Decoder(v)[m].state <= m
      BY <2>1, <3>2, Slow
    <3>6. Decoder(v)[m].state # BITS
      BY <3>1, <3>4, <3>5, Numbers DEF States
    <3>7. v[off] = 20000 \/ v[off] = 20000 + 137
      BY <1>1, <1>5, <3>1, <3>2
    <3>8. Unclear(v[off])
      BY <3>7 DEF Unclear, Short, Long
    <3>9. IsReset(Decoder(v)[m], Decoder(v)[off])
      BY <3>4, <3>6, <3>8, LengthIs
    <3> QED BY <3>9 DEF IsReset
  <2> QED BY <2>2, <2>3
<1>9. CodeBehind(v, off, w, code)
  BY <1>1, <1>5, <1>7, <1>8 DEF CodeBehind, code
<1>10. v = us => WellAt(v, off, code)
  BY <1>1 DEF WellAt
<1> QED BY <1>9, <1>10, CodeFound

-----------------------------------------------------------------------------
(* Infrared codes: a record with an XMP code holds no r-step code: its     *)
(* pulses are not long and its gaps are not short.                         *)
PulsesAndGaps(v) ==
  \A k \in 1..Len(v) : IF k % 2 = 1 THEN ~Long(v[k]) ELSE ~Short(v[k])

Quiet(s) == s.state = 0 /\ s.sr = <<0, 0, 0>>
AfterPulse(s) ==
  \/ Quiet(s) \/ (s.state = 1 /\ s.sr = <<0, 0, 0>> /\ s.lb = 1)
  \/ (s.state = 2 /\ s.sr = <<0, 1, 0>>)
AfterGap(s) == Quiet(s) \/ (s.state = 2 /\ s.sr = <<0, 0, 1>> /\ s.lb = 0)

LEMMA PulseIs ==
  ASSUME NEW s \in States, AfterGap(s), NEW x \in Int, ~Long(x),
         NEW falling \in BOOLEAN, falling, NEW t, t = Length(s, falling, x)
  PROVE  AfterPulse(t)
<1>1. s.state # BITS /\ 0 \in Bits /\ s.state \in Nat
  BY Numbers DEF AfterGap, Quiet, Bits, States
<1>2. CASE Short(x)
  <2>1. t = Edge(s, falling, 0)
    BY <1>1, <1>2, LengthIs
  <2>2. ~Spoilt(s, 0)
    BY DEF Spoilt
  <2>3. CASE Quiet(s)
    <3>1. Moves(s, falling, 0)
      BY <2>3 DEF Moves, Quiet
    <3>2. IsMoved(s, t, falling, 0)
      BY <1>1, <2>1, <2>2, <3>1, EdgeIs
    <3>3. s.sr[2] = 0 /\ s.sr[3] = 0 /\ s.state = 0
      BY <2>3 DEF Quiet
    <3>4. t.state = 1 /\ t.sr = <<0, 0, 0>>
      <4>1. t.state = s.state + 1 /\ t.sr = <<s.sr[2], s.sr[3], 0>>
        BY <3>2, Zenon DEF IsMoved
      <4>2. t.sr = <<0, 0, 0>>
        BY <3>3, <4>1, Zenon
      <4>3. t.state = 0 + 1
        BY <3>3, <4>1, Zenon
      <4>4. 0 + 1 = 1
        OBVIOUS
      <4> QED BY <4>2, <4>3, <4>4, Zenon
    <3>5. t.lb = 1
      BY <3>2 DEF IsMoved
    <3> QED BY <3>4, <3>5 DEF AfterPulse
  <2>4. CASE s.state = 2 /\ s.sr = <<0, 0, 1>> /\ s.lb = 0
    <3>1. ~Moves(s, falling, 0) /\ s.state # 0
      BY <2>4 DEF Moves
    <3>2. IsKept(s, t, 0)
      BY <1>1, <2>1, <2>2, <3>1, EdgeIs
    <3>3. s.sr[2] = 0 /\ s.sr[3] = 1
      BY <2>4
    <3>4. t.state = 2 /\ t.sr = <<0, 1, 0>>
      BY <2>4, <3>2, <3>3 DEF IsKept
    <3> QED BY <3>4 DEF AfterPulse
  <2> QED BY <2>3, <2>4 DEF AfterGap
<1>3. CASE ~Short(x)
  <2>1. IsReset(s, t)
    BY <1>1, <1>3, LengthIs DEF Unclear
  <2> QED BY <2>1 DEF IsReset, AfterPulse, Quiet
<1> QED BY <1>2, <1>3

LEMMA GapIs ==
  ASSUME NEW s \in States, AfterPulse(s), NEW x \in Int, ~Short(x),
         NEW falling \in BOOLEAN, ~falling, NEW t, t = Length(s, falling, x)
  PROVE  AfterGap(t)
<1>1. s.state # BITS /\ 1 \in Bits /\ s.state \in Nat
  BY Numbers DEF AfterPulse, Quiet, Bits, States
<1>2. CASE Long(x)
  <2>1. t = Edge(s, falling, 1)
    BY <1>1, <1>2, LengthIs
  <2>2. CASE Quiet(s)
    <3>1. ~Moves(s, falling, 1) /\ ~Spoilt(s, 1)
      BY <2>2 DEF Moves, Quiet, Spoilt
    <3>2. IsReset(s, t)
      BY <1>1, <2>1, <2>2, <3>1, EdgeIs DEF Quiet
    <3> QED BY <3>2 DEF IsReset, Quiet, AfterGap
  <2>3. CASE s.state = 1 /\ s.sr = <<0, 0, 0>> /\ s.lb = 1
    <3>1. Moves(s, falling, 1) /\ ~Spoilt(s, 1)
      BY <2>3 DEF Moves, Spoilt
    <3>2. IsMoved(s, t, falling, 1)
      BY <1>1, <2>1, <3>1, EdgeIs
    <3> QED BY <2>3, <3>2 DEF IsMoved, AfterGap
  <2>4. CASE s.state = 2 /\ s.sr = <<0, 1, 0>>
    <3>1. Spoilt(s, 1)
      BY <2>4 DEF Spoilt
    <3>2. IsReset(s, t)
      BY <1>1, <2>1, <3>1, EdgeIs
    <3> QED BY <3>2 DEF IsReset, Quiet, AfterGap
  <2> QED BY <2>2, <2>3, <2>4 DEF AfterPulse
<1>3. CASE ~Long(x)
  <2>1. IsReset(s, t)
    BY <1>1, <1>3, LengthIs DEF Unclear
  <2> QED BY <2>1 DEF IsReset, AfterGap, Quiet
<1> QED BY <1>2, <1>3

(* decode_rstep finds no code among short pulses and long gaps.            *)
LEMMA NoWord ==
  ASSUME NEW v \in Seq(Int), PulsesAndGaps(v)
  PROVE  decode_rstep(v) = NoCode
<1> PICK L \in Nat : L = Len(v)
  OBVIOUS
<1> DEFINE Good(j) == IF j % 2 = 1 THEN AfterPulse(Decoder(v)[j]) ELSE AfterGap(Decoder(v)[j])
           P == {j \in 0..L : Good(j)}
<1>1. 0 \in P
  <2>1. Decoder(v)[0] = Fresh
    BY DecoderIs
  <2>2. AfterGap(Fresh)
    BY DEF AfterGap, Quiet, Fresh
  <2> QED BY <2>1, <2>2
<1>2. ASSUME NEW j \in 0..(L - 1), j \in P PROVE j + 1 \in P
  <2>1. PICK m \in 1..L : m = j + 1 /\ j \in Nat /\ m \in 0..L /\ m \in 1..Len(v)
    OBVIOUS
  <2>2. PICK falling \in BOOLEAN : falling <=> m % 2 = 1
    OBVIOUS
  <2>3. /\ Decoder(v)[m] = Length(Decoder(v)[j], falling, v[m])
        /\ Decoder(v)[j] \in States /\ v[m] \in Int
    BY <2>1, <2>2, DecodedAt
  <2>4. PICK s \in States : s = Decoder(v)[j]
    BY <2>3, Zenon
  <2>5. PICK x \in Int : x = v[m]
    BY <2>3, Zenon
  <2>6. PICK t : t = Decoder(v)[m]
    OBVIOUS
  <2>7. t = Length(s, falling, x)
    BY <2>3, <2>4, <2>5, <2>6, Zenon
  <2>8. IF j % 2 = 1 THEN AfterPulse(s) ELSE AfterGap(s)
    BY <1>2, <2>4
  <2>9. IF m % 2 = 1 THEN ~Long(x) ELSE ~Short(x)
    BY <2>1, <2>5, Zenon DEF PulsesAndGaps
  <2>10. IF m % 2 = 1 THEN AfterPulse(t) ELSE AfterGap(t)
    <3>1. CASE m % 2 = 1
      <4>1. j % 2 # 1
        BY <2>1, <3>1, NextIsOdd
      <4> QED BY <2>2, <2>7, <2>8, <2>9, <3>1, <4>1, PulseIs
    <3>2. CASE m % 2 # 1
      <4>1. j % 2 = 1
        BY <2>1, <3>2, NextIsOdd
      <4> QED BY <2>2, <2>7, <2>8, <2>9, <3>2, <4>1, GapIs
    <3> QED BY <3>1, <3>2
  <2>11. Good(m)
    BY <2>6, <2>10
  <2> QED BY <2>1, <2>11
<1> HIDE DEF P
<1>3. \A j \in 0..L : j \in P
  BY <1>1, <1>2, UpTo
<1>4. Good(L)
  BY <1>3 DEF P
<1>5. Decoder(v)[L].state # BITS
  BY <1>4, Numbers DEF AfterPulse, AfterGap, Quiet
<1> QED BY <1>5 DEF decode_rstep

-----------------------------------------------------------------------------
(* Infrared codes: how an XMP code is sent and read.                       *)

(* The lengths that are sent, by their places.                             *)
XmpLengths(x, h1, h2) ==
  /\ \A k \in 1..XmpLen :
       /\ k \in {3, 5} => x[k] = 330
       /\ k % 2 = 1 /\ k \notin {3, 5} => x[k] = 210
       /\ k % 2 = 0 => x[k] >= 773
  /\ \A n \in 1..NIBBLES :
       /\ x[2 + 2 * n] = 773 + 137 * h1[n]
       /\ x[4 + 2 * (NIBBLES + n)] = 773 + 137 * h2[n]

LEMMA XmpIs ==
  ASSUME NEW h1 \in [1..NIBBLES -> 0..15], NEW h2 \in [1..NIBBLES -> 0..15],
         NEW x, x = Xmp(h1, h2)
  PROVE  x \in Seq(Int) /\ Len(x) = XmpLen /\ XmpLengths(x, h1, h2)
<1> DEFINE i(k) == (k - 4) \div 2
           at(k) == CASE k \in {3, 5} -> 330
                      [] k % 2 = 1 /\ k \notin {3, 5} -> 210
                      [] k % 2 = 0 /\ i(k) \in 0..(NIBBLES - 1) -> 773 + 137 * h1[i(k) + 1]
                      [] k % 2 = 0 /\ i(k) > NIBBLES -> 773 + 137 * h2[i(k) - NIBBLES]
                      [] k % 2 = 0 /\ i(k) = NIBBLES -> 13000
                      [] k = 2 -> 773
<1>1. XmpLen \in Nat /\ XmpLen = 4 * NIBBLES + 5 /\ NIBBLES \in Nat \ {0}
  BY Numbers DEF XmpLen
<1>2. x = [k \in 1..XmpLen |-> at(k)]
  BY DEF Xmp
<1> HIDE DEF at
<1>3. ASSUME NEW k \in 1..XmpLen, k \in {3, 5} PROVE at(k) = 330
  BY <1>3 DEF at
<1>4. ASSUME NEW k \in 1..XmpLen, k % 2 = 1, k \notin {3, 5} PROVE at(k) = 210
  BY <1>4 DEF at
<1>5. ASSUME NEW n \in 1..NIBBLES, NEW k, k = 2 + 2 * n PROVE at(k) = 773 + 137 * h1[n]
  <2>1. k \in Nat /\ k % 2 = 0 /\ i(k) = n - 1 /\ i(k) \in 0..(NIBBLES - 1) /\ i(k) + 1 = n
        /\ k \notin {3, 5} /\ k # 2 /\ k % 2 # 1 /\ ~(i(k) > NIBBLES) /\ i(k) # NIBBLES
    BY <1>1, <1>5
  <2> HIDE DEF i
  <2>2. at(k) = 773 + 137 * h1[i(k) + 1]
    BY <2>1 DEF at
  <2> QED BY <2>1, <2>2, Zenon
<1>6. ASSUME NEW n \in 1..NIBBLES, NEW k, k = 4 + 2 * (NIBBLES + n)
      PROVE  at(k) = 773 + 137 * h2[n]
  <2>1. k \in Nat /\ k % 2 = 0 /\ i(k) = NIBBLES + n /\ i(k) > NIBBLES /\ i(k) - NIBBLES = n
    BY <1>1, <1>6
  <2> QED BY <1>1, <2>1, SMTT(40) DEF at
<1>7. ASSUME NEW k \in 1..XmpLen, k % 2 = 0 PROVE at(k) \in Int /\ at(k) >= 773
  <2>1. CASE k = 2
    <3>1. i(k) = -1
      BY <2>1
    <3> QED BY <1>1, <2>1, <3>1 DEF at
  <2>2. CASE k # 2 /\ i(k) = NIBBLES
    BY <1>7, <2>2 DEF at
  <2>3. CASE k # 2 /\ i(k) < NIBBLES
    <3>1. PICK n \in 1..NIBBLES : k = 2 + 2 * n
      <4>1. k \in Nat /\ (k - 2) \div 2 \in 1..NIBBLES /\ k = 2 + 2 * ((k - 2) \div 2)
        BY <1>1, <1>7, <2>3
      <4> QED BY <4>1, Zenon
    <3> QED BY <1>5, <3>1, SMTT(40)
  <2>4. CASE k # 2 /\ i(k) > NIBBLES
    <3>1. PICK n \in 1..NIBBLES : k = 4 + 2 * (NIBBLES + n)
      <4>1. PICK m \in Int : m = i(k) - NIBBLES
        BY <1>1, <1>7
      <4>2. m \in 1..NIBBLES /\ k = 4 + 2 * (NIBBLES + m)
        BY <1>1, <1>7, <2>4, <4>1
      <4> QED BY <4>2, Zenon
    <3> QED BY <1>6, <3>1, SMTT(40)
  <2> QED BY <1>1, <2>1, <2>2, <2>3, <2>4
<1>8. \A k \in 1..XmpLen : at(k) \in Int
  BY <1>3, <1>4, <1>7
<1>9. x \in Seq(Int) /\ Len(x) = XmpLen /\ \A k \in 1..XmpLen : x[k] = at(k)
  BY <1>1, <1>2, <1>8
<1>10. ASSUME NEW n \in 1..NIBBLES
       PROVE  2 + 2 * n \in 1..XmpLen /\ 4 + 2 * (NIBBLES + n) \in 1..XmpLen
  BY <1>1
<1> QED BY <1>3, <1>4, <1>5, <1>6, <1>7, <1>9, <1>10 DEF XmpLengths

LEMMA SumsIs ==
  ASSUME NEW h \in [1..NIBBLES -> Int]
  PROVE  /\ \A n \in 0..NIBBLES : Sums(h)[n] \in Int
         /\ Sums(h)[0] = 0
         /\ \A n \in 1..NIBBLES : Sums(h)[n] = Sums(h)[n - 1] + h[n]
         /\ Sum(h) = Sums(h)[NIBBLES]
<1> PICK N \in Nat : N = NIBBLES
  BY Numbers
<1>1. Len(h) = N
  OBVIOUS
<1> DEFINE f == [n \in 1..N |-> [s \in Int |-> s + h[n]]]
           F(s) == [n \in 0..N |-> IF n = 0 THEN 0 ELSE s[n - 1] + h[n]]
<1>2. f \in [1..N -> [Int -> Int]]
  OBVIOUS
<1>3. PICK g \in [0..N -> Int] : g[0] = 0 /\ \A n \in 1..N : g[n] = f[n][g[n - 1]]
  <2> DEFINE S == Int
             zero == 0
  <2>1. f \in [1..N -> [S -> S]] /\ zero \in S
    BY <1>2
  <2> HIDE DEF f, S, zero
  <2>2. HasRun(N, S, zero, f)
    BY <2>1, Recursion
  <2> QED BY <2>2, Zenon DEF HasRun, S, zero
<1>4. ASSUME NEW n \in 1..N PROVE g[n] = g[n - 1] + h[n]
  <2>1. n - 1 \in 0..N
    OBVIOUS
  <2> QED BY <1>3, <2>1
<1>5. g = F(g)
  <2>1. ASSUME NEW n \in 0..N PROVE g[n] = F(g)[n]
    BY <1>3, <1>4
  <2> QED BY <2>1
<1>6. Sums(h) = CHOOSE s : s = F(s)
  BY <1>1 DEF Sums
<1> HIDE DEF F
<1>7. Sums(h) = F(Sums(h))
  BY <1>5, <1>6, Zenon
<1> USE DEF F
<1>8. Sums(h)[0] = 0
  BY <1>7
<1>9. \A n \in 1..N : Sums(h)[n] = Sums(h)[n - 1] + h[n]
  BY <1>7
<1> DEFINE P == {n \in 0..N : Sums(h)[n] \in Int}
<1>10. 0 \in P
  BY <1>8
<1>11. ASSUME NEW n \in 0..(N - 1), n \in P PROVE n + 1 \in P
  <2>1. n + 1 \in 1..N /\ (n + 1) - 1 = n /\ n + 1 \in 0..N
    OBVIOUS
  <2>2. Sums(h)[n] \in Int /\ h[n + 1] \in Int
    BY <1>11, <2>1
  <2>3. Sums(h)[n + 1] = Sums(h)[n] + h[n + 1]
    BY <1>9, <2>1
  <2> QED BY <2>1, <2>2, <2>3
<1> HIDE DEF P
<1>12. \A n \in 0..N : n \in P
  BY <1>10, <1>11, UpTo
<1>13. Sum(h) = Sums(h)[N]
  BY <1>1 DEF Sum
<1> QED BY <1>8, <1>9, <1>12, <1>13 DEF P

(* A group that is read as the next higher one adds 1 to the sum.          *)
LEMMA SumOfMore ==
  ASSUME NEW h \in [1..NIBBLES -> Int], NEW g \in [1..NIBBLES -> Int],
         NEW m \in 1..NIBBLES, g[m] = h[m] + 1,
         \A n \in 1..NIBBLES : n # m => g[n] = h[n]
  PROVE  Sum(h) \in Int /\ Sum(g) = Sum(h) + 1
<1> PICK N \in Nat : N = NIBBLES
  BY Numbers
<1> DEFINE Good(n) == Sums(g)[n] = Sums(h)[n] + (IF n >= m THEN 1 ELSE 0)
           P == {n \in 0..N : Good(n)}
<1>1. 0 \in P
  <2>1. Sums(g)[0] = 0 /\ Sums(h)[0] = 0
    BY SumsIs
  <2>2. ~(0 >= m) /\ 0 \in 0..N
    OBVIOUS
  <2> QED BY <2>1, <2>2
<1>2. ASSUME NEW n \in 0..(N - 1), n \in P PROVE n + 1 \in P
  <2>1. PICK k \in 1..NIBBLES : k = n + 1 /\ k - 1 = n /\ n \in 0..NIBBLES
    OBVIOUS
  <2>2. PICK a, b \in Int : a = Sums(h)[n] /\ b = Sums(g)[n]
    BY <2>1, SumsIs
  <2>3. Sums(h)[k] = a + h[k] /\ Sums(g)[k] = b + g[k]
    BY <2>1, <2>2, SumsIs
  <2>4. b = a + (IF n >= m THEN 1 ELSE 0)
    BY <1>2, <2>2
  <2>5. g[k] = h[k] + (IF k = m THEN 1 ELSE 0) /\ h[k] \in Int
    OBVIOUS
  <2>6. Good(k)
    <3>1. PICK x \in Int : x = h[k]
      BY <2>5
    <3>2. PICK y \in Int : y = g[k] /\ y = x + (IF k = m THEN 1 ELSE 0)
      BY <2>5, <3>1
    <3>3. b + y = a + x + (IF k >= m THEN 1 ELSE 0)
      BY <2>1, <2>4, <3>2
    <3>4. Sums(h)[k] = a + x /\ Sums(g)[k] = b + y
      BY <2>3, <3>1, <3>2, Zenon
    <3> QED BY <3>3, <3>4, Zenon
  <2> QED BY <2>1, <2>6
<1> HIDE DEF P
<1>3. \A n \in 0..N : n \in P
  BY <1>1, <1>2, UpTo
<1>4. Good(N)
  BY <1>3 DEF P
<1> QED BY <1>4, SumsIs, SMTT(40)

(* What is read of a half, against what was sent of it.                    *)
MoreAt(h, g, S) == \A n \in 1..NIBBLES : g[n] = (IF n \in S THEN h[n] + 1 ELSE h[n])
(* g is read where h was sent: with a group that none is, as h, or with one*)
(* group, or the first two, one too high.                                  *)
Reads(h, g) ==
  \/ \E n \in 1..NIBBLES : g[n] > 15
  \/ MoreAt(h, g, {})
  \/ \E m \in 1..NIBBLES : MoreAt(h, g, {m})
  \/ NIBBLES >= 2 /\ MoreAt(h, g, {1, 2})

Checked(g) ==
  IF (\A n \in 1..NIBBLES : g[n] \in 0..15) /\ Sum(g) % 16 = 0 THEN g ELSE NoCode

LEMMA HalvesAre ==
  ASSUME NEW h \in Halves
  PROVE  h \in [1..NIBBLES -> 0..15] /\ Sum(h) % 16 = 0
<1>1. Nibbles \subseteq 0..15
  BY IrAssumption
<1>2. h \in [1..NIBBLES -> Nibbles] /\ Sum(h) % 16 = 0
  BY Zenon DEF Halves
<1> QED BY <1>1, <1>2

LEMMA NotZero ==
  ASSUME NEW s \in Int, s % 16 = 0
  PROVE  (s + 1) % 16 # 0 /\ (s + 2) % 16 # 0
OBVIOUS

LEMMA Alike ==
  ASSUME NEW g \in [1..NIBBLES -> Int], NEW h \in [1..NIBBLES -> Int], MoreAt(h, g, {})
  PROVE  g = h
<1>1. \A n \in 1..NIBBLES : g[n] = h[n]
  BY DEF MoreAt
<1>2. g = [n \in 1..NIBBLES |-> g[n]]
  OBVIOUS
<1>3. h = [n \in 1..NIBBLES |-> h[n]]
  OBVIOUS
<1>4. [n \in 1..NIBBLES |-> g[n]] = [n \in 1..NIBBLES |-> h[n]]
  BY <1>1, Zenon
<1> QED BY <1>2, <1>3, <1>4, Zenon

(* The sum over a half shows a group that is one too high, and two of them.*)
LEMMA CheckedIs ==
  ASSUME NEW h \in [1..NIBBLES -> Int], Sum(h) % 16 = 0, NEW g \in [1..NIBBLES -> Int]
  PROVE  /\ MoreAt(h, g, {}) /\ h \in [1..NIBBLES -> 0..15] => Checked(g) = h
         /\ Reads(h, g) /\ h \in [1..NIBBLES -> 0..15] => Checked(g) \in {h, NoCode}
<1>2. Sum(h) \in Int /\ NIBBLES \in Nat \ {0}
  <2>1. NIBBLES \in Nat \ {0} /\ NIBBLES \in 0..NIBBLES
    BY Numbers
  <2>2. Sum(h) = Sums(h)[NIBBLES] /\ \A n \in 0..NIBBLES : Sums(h)[n] \in Int
    BY SumsIs
  <2> QED BY <2>1, <2>2, Zenon
<1>1. (Sum(h) + 1) % 16 # 0 /\ (Sum(h) + 2) % 16 # 0
  <2>1. PICK s \in Int : s = Sum(h)
    BY <1>2
  <2> QED BY <2>1, NotZero
<1>3. ASSUME MoreAt(h, g, {}), h \in [1..NIBBLES -> 0..15] PROVE Checked(g) = h
  <2>2. g = h
    BY <1>3, Alike
  <2>3. \A n \in 1..NIBBLES : h[n] \in 0..15
    BY <1>3
  <2> QED BY <2>2, <2>3 DEF Checked
<1>4. ASSUME NEW m \in 1..NIBBLES, MoreAt(h, g, {m}) PROVE Checked(g) = NoCode
  <2>1. g[m] = h[m] + 1 /\ \A n \in 1..NIBBLES : n # m => g[n] = h[n]
    BY <1>4 DEF MoreAt
  <2>2. Sum(g) = Sum(h) + 1
    BY <2>1, SumOfMore
  <2>3. Sum(g) % 16 # 0
    BY <1>1, <2>2
  <2> QED BY <2>3 DEF Checked
<1>5. ASSUME NIBBLES >= 2, MoreAt(h, g, {1, 2}) PROVE Checked(g) = NoCode
  <2> DEFINE f == [n \in 1..NIBBLES |-> IF n = 1 THEN h[n] + 1 ELSE h[n]]
  <2>1. f \in [1..NIBBLES -> Int] /\ 1 \in 1..NIBBLES /\ 2 \in 1..NIBBLES
    BY <1>2, <1>5
  <2>2. f[1] = h[1] + 1 /\ \A n \in 1..NIBBLES : n # 1 => f[n] = h[n]
    BY <2>1
  <2>3. g[2] = f[2] + 1 /\ \A n \in 1..NIBBLES : n # 2 => g[n] = f[n]
    BY <1>5, <2>1, <2>2 DEF MoreAt
  <2> HIDE DEF f
  <2>4. Sum(f) = Sum(h) + 1 /\ Sum(f) \in Int
    <3>1. Sum(f) = Sum(h) + 1
      BY <2>1, <2>2, SumOfMore
    <3> QED BY <1>2, <3>1
  <2>5. Sum(g) = Sum(f) + 1
    BY <2>1, <2>3, SumOfMore
  <2>7. Sum(g) = Sum(h) + 2
    BY <1>2, <2>4, <2>5
  <2>6. Sum(g) % 16 # 0
    BY <1>1, <2>7
  <2> QED BY <2>6 DEF Checked
<1>6. ASSUME NEW n \in 1..NIBBLES, g[n] > 15 PROVE Checked(g) = NoCode
  BY <1>6, SMTT(40) DEF Checked
<1> QED BY <1>3, <1>4, <1>5, <1>6 DEF Reads

(* A group of four bits, by the place of its gap.                          *)
PulseSum(us, j) == (us[j - 1] \div 2) + (us[j + 1] \div 2)
Group(us, j) == Quotient(PulseSum(us, j) + us[j] - 915, 137)
Normal(s) == s \in 142..278
High(s) == s \in 279..415
Big(s) == s \in Int /\ s >= 2334

GroupRead(gap, s, h, r) ==
  /\ r \in Int
  /\ gap = 773 + 137 * h /\ Normal(s) => r = h
  /\ gap = 773 + 137 * h /\ High(s) => r = h + 1
  /\ gap = 773 + 137 * h /\ Big(s) => r > 15
  /\ gap = 773 + 137 * h + 137 /\ Normal(s) => r = h + 1
  /\ gap = 20000 /\ Normal(s) => r > 15

LEMMA GroupIs ==
  ASSUME NEW us, NEW j, NEW h \in 0..15,
         NEW s \in Int, s = PulseSum(us, j), NEW gap \in Int, gap = us[j]
  PROVE  GroupRead(gap, s, h, Group(us, j))
<1> DEFINE e == s + gap - 915
<1>1. Group(us, j) = Quotient(e, 137)
  BY DEF Group
<1>2. Quotient(e, 137) \in Int
  BY DEF Quotient
<1>3. ASSUME NEW n \in 0..16, e >= 137 * n, e < 137 * n + 137 PROVE Quotient(e, 137) = n
  BY <1>3 DEF Quotient
<1>4. ASSUME e >= 137 * 16 PROVE Quotient(e, 137) > 15
  BY <1>4 DEF Quotient
<1>5. ASSUME gap = 773 + 137 * h, Normal(s) PROVE Group(us, j) = h
  <2>1. e >= 137 * h /\ e < 137 * h + 137 /\ h \in 0..16
    BY <1>5 DEF Normal
  <2> QED BY <1>1, <1>3, <2>1
<1>6. ASSUME gap = 773 + 137 * h, High(s) PROVE Group(us, j) = h + 1
  <2>1. e >= 137 * (h + 1) /\ e < 137 * (h + 1) + 137 /\ h + 1 \in 0..16
    BY <1>6 DEF High
  <2> QED BY <1>1, <1>3, <2>1
<1>7. ASSUME gap = 773 + 137 * h, Big(s) PROVE Group(us, j) > 15
  <2>1. e >= 137 * 16
    BY <1>7 DEF Big
  <2> QED BY <1>1, <1>4, <2>1
<1>8. ASSUME gap = 773 + 137 * h + 137, Normal(s) PROVE Group(us, j) = h + 1
  <2>1. e >= 137 * (h + 1) /\ e < 137 * (h + 1) + 137 /\ h + 1 \in 0..16
    BY <1>8 DEF Normal
  <2> QED BY <1>1, <1>3, <2>1
<1>9. ASSUME gap = 20000, Normal(s) PROVE Group(us, j) > 15
  <2>1. e >= 137 * 16
    BY <1>9 DEF Normal
  <2> QED BY <1>1, <1>4, <2>1
<1> HIDE DEF e
<1>10. PICK r : r = Group(us, j)
  OBVIOUS
<1>11. GroupRead(gap, s, h, r)
  BY <1>1, <1>2, <1>5, <1>6, <1>7, <1>8, <1>9, <1>10 DEF GroupRead
<1> QED BY <1>10, <1>11, Zenon

LEMMA HalvesInOrder ==
  ASSUME NEW p \in Int, NEW g \in Int, NEW q \in Int
  PROVE  Quotient((p \div 2) + g + (q \div 2) - 915, 137)
         = Quotient((p \div 2) + (q \div 2) + g - 915, 137)
<1>1. (p \div 2) + g + (q \div 2) - 915 = (p \div 2) + (q \div 2) + g - 915
  OBVIOUS
<1> QED BY <1>1

LEMMA HalfIs ==
  ASSUME NEW us \in Seq(Int), Len(us) = XmpLen,
         NEW from \in {0, NIBBLES + 1}, NEW b, b = 2 + 2 * from
  PROVE  Half(us, from) = Checked([n \in 1..NIBBLES |-> Group(us, b + 2 * n)])
<1>1. ASSUME NEW n \in 1..NIBBLES PROVE Nibble(us, from + n - 1) = Group(us, b + 2 * n)
  <2>1. PICK i \in Nat : i = from + n - 1
    BY Numbers
  <2>2. PICK j \in Nat : j = b + 2 * n
    BY Numbers
  <2>3. /\ 3 + 2 * i = j - 1 /\ 4 + 2 * i = j /\ 5 + 2 * i = j + 1
        /\ j - 1 \in 1..Len(us) /\ j \in 1..Len(us) /\ j + 1 \in 1..Len(us)
    BY <2>1, <2>2, Numbers DEF XmpLen
  <2>4. PICK p, g, q \in Int : p = us[j - 1] /\ g = us[j] /\ q = us[j + 1]
    BY <2>3
  <2>5. p = us[3 + 2 * i] /\ g = us[4 + 2 * i] /\ q = us[5 + 2 * i]
    BY <2>3, <2>4, Zenon
  <2>6. Nibble(us, i) = Quotient((p \div 2) + g + (q \div 2) - 915, 137)
    <3>1. Nibble(us, i) = Quotient((us[3 + 2 * i] \div 2) + us[4 + 2 * i] + (us[5 + 2 * i] \div 2) - 915, 137)
      BY Zenon DEF Nibble
    <3> QED BY <2>5, <3>1
  <2>8. Group(us, j) = Quotient((p \div 2) + (q \div 2) + g - 915, 137)
    <3>1. Group(us, j) = Quotient((us[j - 1] \div 2) + (us[j + 1] \div 2) + us[j] - 915, 137)
      BY Zenon DEF Group, PulseSum
    <3> QED BY <2>4, <3>1
  <2>9. Nibble(us, i) = Group(us, j)
    <3>1. Quotient((p \div 2) + g + (q \div 2) - 915, 137)
          = Quotient((p \div 2) + (q \div 2) + g - 915, 137)
      BY HalvesInOrder
    <3> HIDE <2>1, <2>2, <2>4
    <3> QED BY <2>6, <2>8, <3>1
  <2> QED BY <2>1, <2>2, <2>9, Zenon
<1>2. [n \in 1..NIBBLES |-> Nibble(us, from + n - 1)] = [n \in 1..NIBBLES |-> Group(us, b + 2 * n)]
  BY <1>1
<1> QED BY <1>2, Zenon DEF Half, Checked

(* What the correction of the first pulses makes of a record.              *)
LEMMA AGCIs ==
  ASSUME NEW v \in Seq(Int), Len(v) = XmpLen, NEW a, a = CorrectAGC(v)
  PROVE  /\ a \in Seq(Int) /\ Len(a) = XmpLen
         /\ a[5] = (v[5] + 2 * v[7]) \div 3
         /\ a[3] = (v[3] + 2 * a[5]) \div 3
         /\ \A k \in 1..XmpLen : k \notin {3, 5} => a[k] = v[k]
<1>1. PICK L \in Nat : L = XmpLen /\ L >= 9
  BY Numbers DEF XmpLen
<1>2. v \in [1..L -> Int] /\ DOMAIN v = 1..L
  BY <1>1
<1>3. PICK p, q, r \in Int : p = v[3] /\ q = v[5] /\ r = v[7]
  BY <1>1, <1>2
<1>4. PICK f \in Int : f = (q + 2 * r) \div 3
  OBVIOUS
<1>5. PICK t \in Int : t = (p + 2 * f) \div 3
  OBVIOUS
<1>6. a = [v EXCEPT ![5] = f, ![3] = t]
  BY <1>3, <1>4, <1>5 DEF CorrectAGC
<1>7. a \in [1..L -> Int]
  BY <1>2, <1>6
<1>8. a \in Seq(Int) /\ Len(a) = L
  BY <1>7
<1>9. a[5] = f /\ a[3] = t /\ \A k \in 1..L : k \notin {3, 5} => a[k] = v[k]
  BY <1>1, <1>2, <1>6
<1> QED BY <1>1, <1>3, <1>4, <1>5, <1>8, <1>9, Zenon

(* The pulses of an XMP code, of which at most the k-th is wrong.          *)
Standard(j) == IF j \in {3, 5} THEN 330 ELSE 210
Pulsed(v, k, y) ==
  \A j \in 1..XmpLen : j % 2 = 1 => v[j] = (IF j = k THEN y ELSE Standard(j))
WrongPulse(k, y) ==
  \/ k \in {0, 1} /\ y \in Int
  \/ k > 1 /\ k % 2 = 1 /\ y \in {20000, Standard(k) + 137}

Corrected(k, y, p, q) ==
  /\ k \in {0, 1} \/ k >= 9 => p = 138 /\ q = 125
  /\ k = 3 => q = 125 /\ p = (IF y = 20000 THEN 3416 ELSE 161)
  /\ k = 5 => IF y = 20000 THEN p = 2323 /\ q = 3403 ELSE p = 153 /\ q = 147
  /\ k = 7 => IF y = 20000 THEN p = 4536 /\ q = 6721 ELSE p = 168 /\ q = 170

LEMMA HalvesOfPulses ==
  ASSUME NEW v \in Seq(Int), Len(v) = XmpLen, NEW a, a = CorrectAGC(v),
         NEW k \in Nat, NEW y \in Int, WrongPulse(k, y), Pulsed(v, k, y)
  PROVE  \E p, q \in Int :
           p = a[3] \div 2 /\ q = a[5] \div 2 /\ Corrected(k, y, p, q)
<1>1. {3, 5, 7} \subseteq 1..XmpLen
  BY Numbers DEF XmpLen
<1>2. PICK r, s, t \in Int : r = v[3] /\ s = v[5] /\ t = v[7]
  BY <1>1
<1>3. /\ r = (IF k = 3 THEN y ELSE 330) /\ s = (IF k = 5 THEN y ELSE 330)
      /\ t = (IF k = 7 THEN y ELSE 210)
  BY <1>1, <1>2, SMTT(40) DEF Pulsed, Standard
<1>4. PICK b, c \in Int : b = (s + 2 * t) \div 3 /\ c = (r + 2 * b) \div 3
  OBVIOUS
<1>5. a[5] = b /\ a[3] = c
  BY <1>2, <1>4, AGCIs
<1>6. /\ k \in {3, 5} => y \in {20000, 467}
      /\ k = 7 => y \in {20000, 347}
  BY DEF WrongPulse, Standard
<1>7. PICK p, q \in Int : p = c \div 2 /\ q = b \div 2
  OBVIOUS
<1> HIDE DEF WrongPulse, Pulsed
<1>8. Corrected(k, y, p, q)
  BY <1>3, <1>4, <1>6, <1>7 DEF Corrected
<1>9. p = a[3] \div 2 /\ q = a[5] \div 2
  BY <1>5, <1>7
<1> QED BY <1>8, <1>9

Raised(k, j) == \/ k \in {3, 5} /\ j = 4
                \/ k = 7 /\ j \in {4, 6}

(* Half of the pulses before and after the j-th length, after correction,  *)
(* when the k-th was heard as y: as it should be, a little or far too high.*)
SumHeard(k, y, j, s) ==
  \/ Normal(s) /\ (y # 20000 => ~Raised(k, j))
  \/ k > 1 /\ y = 20000 /\ Big(s)
  \/ k > 1 /\ y # 20000 /\ High(s) /\ Raised(k, j)

Possible(k, y) == /\ k \in {0, 1, 3, 5, 7} \/ k >= 9
                  /\ k = 7 => y = 20000 \/ y = 347
FirstHeard(k, y, p, q) ==
  /\ SumHeard(k, y, 4, p + q)
  /\ k # 7 => SumHeard(k, y, 6, q + 105)
  /\ k = 7 => SumHeard(k, y, 6, q + (y \div 2))

LEMMA FirstSums ==
  ASSUME NEW k \in Nat, NEW y \in Int, NEW p \in Int, NEW q \in Int,
         Corrected(k, y, p, q), Possible(k, y)
  PROVE  FirstHeard(k, y, p, q)
<1> USE DEF SumHeard, Normal, High, Big, Raised, Corrected, Possible, FirstHeard
<1>1. CASE k \in {0, 1} \/ k >= 9
  BY <1>1
<1>2. CASE k = 3 /\ y = 20000
  BY <1>2
<1>3. CASE k = 3 /\ y # 20000
  BY <1>3
<1>4. CASE k = 5 /\ y = 20000
  BY <1>4
<1>5. CASE k = 5 /\ y # 20000
  BY <1>5
<1>6. CASE k = 7 /\ y = 20000
  BY <1>6
<1>7. CASE k = 7 /\ y = 347
  BY <1>7
<1> QED BY <1>1, <1>2, <1>3, <1>4, <1>5, <1>6, <1>7

LEMMA SumOfPulses ==
  ASSUME NEW v \in Seq(Int), Len(v) = XmpLen, NEW a, a = CorrectAGC(v),
         NEW k \in Nat, NEW y \in Int, WrongPulse(k, y), Pulsed(v, k, y),
         NEW j \in 4..(XmpLen - 1), j % 2 = 0
  PROVE  \E s \in Int : /\ s = PulseSum(a, j)
                        /\ SumHeard(k, y, j, s)
<1>1. PICK L \in Nat : L = XmpLen /\ L >= 9 /\ j <= L - 1
  BY Numbers DEF XmpLen
<1>2. PICK p, q \in Int : p = a[3] \div 2 /\ q = a[5] \div 2 /\ Corrected(k, y, p, q)
  BY HalvesOfPulses, Zenon
<1>3. k \in {0, 1, 3, 5, 7} \/ k >= 9
  BY DEF WrongPulse
<1>4. k = 7 \/ k >= 9 => y = 20000 \/ y = 347
  BY DEF WrongPulse, Standard
<1>5. ASSUME NEW i \in 7..L, i % 2 = 1
      PROVE  \E r \in Int : r = a[i] \div 2 /\ r = (IF i = k THEN (y \div 2) ELSE 105)
  <2>1. i \in 1..XmpLen /\ i \notin {3, 5}
    BY <1>1
  <2>2. a[i] = v[i]
    BY <2>1, AGCIs, ZenonT(40)
  <2>3. v[i] = (IF i = k THEN y ELSE 210)
    BY <1>5, <2>1 DEF Pulsed, Standard
  <2>4. PICK z \in Int : z = a[i]
    BY <2>2, <2>3
  <2>5. z \div 2 = (IF i = k THEN (y \div 2) ELSE 105)
    BY <2>2, <2>3, <2>4
  <2> QED BY <2>4, <2>5, SMTT(40)
<1> HIDE DEF WrongPulse, Pulsed
<1>10. /\ SumHeard(k, y, 4, p + q)
       /\ k # 7 => SumHeard(k, y, 6, q + 105)
       /\ k = 7 => SumHeard(k, y, 6, q + (y \div 2))
  <2>1. Corrected(k, y, p, q)
    BY <1>2, Zenon
  <2>2. k = 7 => y = 20000 \/ y = 347
    BY <1>4
  <2>3. Possible(k, y)
    BY <1>3, <2>2 DEF Possible
  <2>4. FirstHeard(k, y, p, q)
    BY <2>1, <2>3, FirstSums, Zenon
  <2> QED BY <2>4, Zenon DEF FirstHeard
<1>6. CASE j = 4
  <2>1. PICK s \in Int : s = p + q
    OBVIOUS
  <2>2. s = PulseSum(a, j)
    BY <1>2, <1>6, <2>1 DEF PulseSum
  <2>3. SumHeard(k, y, j, s)
    <3>1. SumHeard(k, y, 4, p + q)
      BY <1>10, Zenon
    <3> QED BY <1>6, <2>1, <3>1, Zenon
  <2> QED BY <2>2, <2>3
<1>7. CASE j = 6
  <2>1. PICK r \in Int : r = a[7] \div 2 /\ r = (IF 7 = k THEN (y \div 2) ELSE 105)
    BY <1>1, <1>5
  <2>2. PICK s \in Int : s = q + r
    OBVIOUS
  <2>3. s = PulseSum(a, j)
    <3>1. j - 1 = 5 /\ j + 1 = 7
      BY <1>7
    <3>2. PulseSum(a, j) = (a[5] \div 2) + (a[7] \div 2)
      BY <3>1, Zenon DEF PulseSum
    <3> QED BY <1>2, <2>1, <2>2, <3>2
  <2>4. SumHeard(k, y, j, s)
    <3>1. CASE k = 7
      <4>1. s = q + (y \div 2)
        BY <2>1, <2>2, <3>1
      <4>2. SumHeard(k, y, 6, q + (y \div 2))
        BY <1>10, <3>1, Zenon
      <4> QED BY <1>7, <4>1, <4>2, Zenon
    <3>2. CASE k # 7
      <4>1. s = q + 105
        BY <2>1, <2>2, <3>2
      <4>2. SumHeard(k, y, 6, q + 105)
        BY <1>10, <3>2, Zenon
      <4> QED BY <1>7, <4>1, <4>2, Zenon
    <3> QED BY <3>1, <3>2
  <2> QED BY <2>3, <2>4
<1>8. CASE j >= 8
  <2>1. /\ j - 1 \in 7..L /\ j + 1 \in 7..L /\ (j - 1) % 2 = 1 /\ (j + 1) % 2 = 1
        /\ j - 1 # j + 1
    BY <1>1, <1>8
  <2>2. PICK r \in Int : r = a[j - 1] \div 2 /\ r = (IF j - 1 = k THEN (y \div 2) ELSE 105)
    BY <1>5, <2>1
  <2>3. PICK t \in Int : t = a[j + 1] \div 2 /\ t = (IF j + 1 = k THEN (y \div 2) ELSE 105)
    BY <1>5, <2>1
  <2>4. PICK s \in Int : s = r + t
    OBVIOUS
  <2>5. s = PulseSum(a, j)
    BY <2>2, <2>3, <2>4 DEF PulseSum
  <2>6. SumHeard(k, y, j, s)
    <3>1. ~Raised(k, j)
      BY <1>8 DEF Raised
    <3>2. CASE k = j - 1
      <4>1. (y = 20000 \/ y = 347) /\ k > 1
        BY <1>4, <2>1, <3>2
      <4>2. s = (y \div 2) + 105
        BY <2>1, <2>2, <2>3, <2>4, <3>2
      <4> QED BY <3>1, <4>1, <4>2 DEF Normal, Big, SumHeard
    <3>3. CASE k = j + 1
      <4>1. (y = 20000 \/ y = 347) /\ k > 1
        BY <1>4, <2>1, <3>3
      <4>2. s = (y \div 2) + 105
        BY <2>1, <2>2, <2>3, <2>4, <3>3
      <4> QED BY <3>1, <4>1, <4>2 DEF Normal, Big, SumHeard
    <3>4. CASE k # j - 1 /\ k # j + 1
      <4>1. s = 210
        BY <2>2, <2>3, <2>4, <3>4
      <4> QED BY <3>1, <4>1 DEF Normal, SumHeard
    <3> QED BY <3>2, <3>3, <3>4
  <2> QED BY <2>5, <2>6
<1>9. j = 4 \/ j = 6 \/ j >= 8
  BY <1>1
<1> QED BY <1>6, <1>7, <1>8, <1>9

(* How a half is read whose gaps are well, and whose pulses are but one.   *)
Gap(h, n) == 773 + 137 * h[n]
GapsAt(v, b, h) == \A n \in 1..NIBBLES : v[b + 2 * n] = Gap(h, n)
Groups(a, b) == [n \in 1..NIBBLES |-> Group(a, b + 2 * n)]

LEMMA PlacesOfHalves ==
  ASSUME NEW b \in {2, 2 * NIBBLES + 4}, NEW n \in 1..NIBBLES
  PROVE  /\ b + 2 * n \in 4..(XmpLen - 1) /\ (b + 2 * n) % 2 = 0
         /\ b + 2 * n \in 1..XmpLen /\ b + 2 * n \notin {3, 5}
         /\ b + 2 * n = 4 => b = 2 /\ n = 1
         /\ b + 2 * n = 6 => b = 2 /\ n = 2
<1>1. NIBBLES \in Nat \ {0} /\ XmpLen = 4 * NIBBLES + 5
  BY Numbers DEF XmpLen
<1>2. CASE b = 2
  BY <1>1, <1>2
<1>3. CASE b = 2 * NIBBLES + 4
  BY <1>1, <1>3
<1> QED BY <1>2, <1>3

(* What is read of a gap that stands for h, by the sum of its pulses.      *)
GroupHeard(k, y, j, gap, h, r) ==
  /\ r \in Int
  /\ gap = 773 + 137 * h => \/ r = h /\ (y # 20000 => ~Raised(k, j))
                            \/ k > 1 /\ y = 20000 /\ r > 15
                            \/ k > 1 /\ y # 20000 /\ Raised(k, j) /\ r = h + 1
  /\ k = 0 /\ gap = 773 + 137 * h + 137 => r = h + 1
  /\ k = 0 /\ gap = 20000 => r > 15

LEMMA GroupHeardIs ==
  ASSUME NEW k \in Nat, NEW y \in Int, NEW j \in Nat, NEW gap \in Int, NEW s \in Int,
         NEW h \in 0..15, NEW r, GroupRead(gap, s, h, r), SumHeard(k, y, j, s)
  PROVE  GroupHeard(k, y, j, gap, h, r)
BY DEF GroupHeard, GroupRead, SumHeard

LEMMA GroupsAre ==
  ASSUME NEW v \in Seq(Int), Len(v) = XmpLen, NEW a, a = CorrectAGC(v),
         NEW k \in Nat, NEW y \in Int, WrongPulse(k, y), Pulsed(v, k, y),
         NEW b \in {2, 2 * NIBBLES + 4}, NEW h \in [1..NIBBLES -> 0..15],
         NEW n \in 1..NIBBLES, NEW gap \in Int, v[b + 2 * n] = gap
  PROVE  GroupHeard(k, y, b + 2 * n, gap, h[n], Group(a, b + 2 * n))
<1>1. PICK j \in 4..(XmpLen - 1) : j = b + 2 * n /\ j % 2 = 0 /\ j \in 1..XmpLen /\ j \notin {3, 5}
  BY PlacesOfHalves
<1>2. PICK s \in Int : s = PulseSum(a, j) /\ SumHeard(k, y, j, s)
  BY <1>1, SumOfPulses, Zenon
<1>3. a[j] = gap
  BY <1>1, AGCIs, ZenonT(40)
<1>4. PICK x \in 0..15 : x = h[n]
  OBVIOUS
<1>5. PICK r : r = Group(a, j)
  OBVIOUS
<1>6. GroupRead(gap, s, x, r)
  BY <1>2, <1>3, <1>5, GroupIs, Zenon
<1>7. SumHeard(k, y, j, s)
  BY <1>2
<1>8. GroupHeard(k, y, j, gap, x, r)
  <2>1. j \in Nat
    OBVIOUS
  <2> QED BY <1>6, <1>7, <2>1, GroupHeardIs, Zenon
<1> QED BY <1>1, <1>4, <1>5, <1>8, Zenon

WhereRaised(k, b, S) ==
  /\ \/ S = {}
     \/ \E m \in 1..NIBBLES : S = {m}
     \/ NIBBLES >= 2 /\ S = {1, 2}
  /\ \A n \in 1..NIBBLES : Raised(k, b + 2 * n) <=> n \in S

LEMMA RaisedAt ==
  ASSUME NEW k \in Nat, NEW b \in {2, 2 * NIBBLES + 4}
  PROVE  \E S : WhereRaised(k, b, S)
<1>1. NIBBLES \in Nat \ {0} /\ 1 \in 1..NIBBLES
  BY Numbers
<1>2. \A n \in 1..NIBBLES : /\ b + 2 * n = 4 => b = 2 /\ n = 1
                            /\ b + 2 * n = 6 => b = 2 /\ n = 2
  BY PlacesOfHalves
<1>3. CASE b # 2 \/ ~(k \in {3, 5, 7})
  <2>1. \A n \in 1..NIBBLES : ~Raised(k, b + 2 * n)
    BY <1>2, <1>3 DEF Raised
  <2>2. WhereRaised(k, b, {})
    BY <2>1, Zenon DEF WhereRaised
  <2> QED BY <2>2, Zenon
<1>4. CASE b = 2 /\ (k \in {3, 5} \/ (k = 7 /\ NIBBLES = 1))
  <2>1. \A n \in 1..NIBBLES : Raised(k, b + 2 * n) <=> n \in {1}
    BY <1>1, <1>4 DEF Raised
  <2>2. WhereRaised(k, b, {1})
    BY <1>1, <2>1, Zenon DEF WhereRaised
  <2> QED BY <2>2, Zenon
<1>5. CASE b = 2 /\ k = 7 /\ NIBBLES >= 2
  <2>1. \A n \in 1..NIBBLES : Raised(k, b + 2 * n) <=> n \in {1, 2}
    BY <1>1, <1>5 DEF Raised
  <2>2. WhereRaised(k, b, {1, 2})
    BY <1>5, <2>1, Zenon DEF WhereRaised
  <2> QED BY <2>2, Zenon
<1>6. NIBBLES = 1 \/ NIBBLES >= 2
  BY <1>1
<1>7. k \in {3, 5, 7} <=> k \in {3, 5} \/ k = 7
  OBVIOUS
<1> QED BY <1>3, <1>4, <1>5, <1>6, <1>7, Zenon

GroupReads(k, y, j, h, r) ==
  /\ r \in Int
  /\ \/ r = h /\ (y # 20000 => ~Raised(k, j))
     \/ k > 1 /\ y = 20000 /\ r > 15
     \/ k > 1 /\ y # 20000 /\ Raised(k, j) /\ r = h + 1

LEMMA HeardReads ==
  ASSUME NEW k, NEW y, NEW j, NEW h, NEW r, GroupHeard(k, y, j, 773 + 137 * h, h, r)
  PROVE  GroupReads(k, y, j, h, r)
BY DEF GroupHeard, GroupReads

LEMMA ReadsIs ==
  ASSUME NEW k \in Nat, NEW y \in Int, NEW b \in {2, 2 * NIBBLES + 4},
         NEW h \in [1..NIBBLES -> 0..15], NEW g \in [1..NIBBLES -> Int],
         \A n \in 1..NIBBLES : GroupReads(k, y, b + 2 * n, h[n], g[n])
  PROVE  /\ Reads(h, g)
         /\ k \in {0, 1} => MoreAt(h, g, {})
<1>4. ASSUME k \in {0, 1} PROVE MoreAt(h, g, {})
  <2>1. ~(k > 1)
    BY <1>4
  <2>2. \A n \in 1..NIBBLES : g[n] = h[n]
    BY <2>1 DEF GroupReads
  <2> QED BY <2>2, Zenon DEF MoreAt
<1>5. Reads(h, g)
  <2>1. CASE \E n \in 1..NIBBLES : g[n] > 15
    BY <2>1, Zenon DEF Reads
  <2>2. CASE y = 20000 /\ ~\E n \in 1..NIBBLES : g[n] > 15
    <3>1. \A n \in 1..NIBBLES : g[n] = h[n]
      BY <2>2 DEF GroupReads
    <3>2. MoreAt(h, g, {})
      BY <3>1, Zenon DEF MoreAt
    <3> QED BY <3>2, Zenon DEF Reads
  <2>3. CASE y # 20000
    <3>1. \A n \in 1..NIBBLES : g[n] = (IF Raised(k, b + 2 * n) THEN h[n] + 1 ELSE h[n])
      BY <2>3 DEF GroupReads
    <3>2. PICK S : WhereRaised(k, b, S)
      BY RaisedAt, Zenon
    <3>3. MoreAt(h, g, S)
      BY <3>1, <3>2, Zenon DEF MoreAt, WhereRaised
    <3> QED BY <3>2, <3>3, Zenon DEF Reads, WhereRaised
  <2> QED BY <2>1, <2>2, <2>3
<1> QED BY <1>4, <1>5

LEMMA ReadWithPulse ==
  ASSUME NEW v \in Seq(Int), Len(v) = XmpLen, NEW a, a = CorrectAGC(v),
         NEW k \in Nat, NEW y \in Int, WrongPulse(k, y), Pulsed(v, k, y),
         NEW b \in {2, 2 * NIBBLES + 4}, NEW h \in [1..NIBBLES -> 0..15], GapsAt(v, b, h)
  PROVE  /\ Groups(a, b) \in [1..NIBBLES -> Int] /\ Reads(h, Groups(a, b))
         /\ k \in {0, 1} => MoreAt(h, Groups(a, b), {})
<1>1. ASSUME NEW n \in 1..NIBBLES
      PROVE  GroupReads(k, y, b + 2 * n, h[n], Groups(a, b)[n])
  <2>1. PICK gap \in Int : gap = 773 + 137 * h[n]
    <3>1. PICK x \in 0..15 : x = h[n]
      OBVIOUS
    <3>2. PICK gap \in Int : gap = 773 + 137 * x
      OBVIOUS
    <3> QED BY <3>1, <3>2
  <2>2. v[b + 2 * n] = gap
    <3>1. v[b + 2 * n] = Gap(h, n)
      BY Zenon DEF GapsAt
    <3> QED BY <2>1, <3>1, Zenon DEF Gap
  <2>3. GroupHeard(k, y, b + 2 * n, gap, h[n], Group(a, b + 2 * n))
    BY <2>2, GroupsAre, Zenon
  <2>4. Groups(a, b)[n] = Group(a, b + 2 * n)
    BY Zenon DEF Groups
  <2>5. GroupHeard(k, y, b + 2 * n, 773 + 137 * h[n], h[n], Groups(a, b)[n])
    BY <2>1, <2>3, <2>4, ZenonT(40)
  <2> QED BY <2>5, HeardReads, Zenon
<1>2. Groups(a, b) \in [1..NIBBLES -> Int]
  <2>1. ASSUME NEW n \in 1..NIBBLES PROVE Group(a, b + 2 * n) \in Int
    <3>1. Groups(a, b)[n] \in Int
      BY <1>1 DEF GroupReads
    <3> QED BY <3>1, Zenon DEF Groups
  <2> QED BY <2>1, Zenon DEF Groups
<1> QED BY <1>1, <1>2, ReadsIs, Zenon

LEMMA GapLength ==
  ASSUME NEW h \in [1..NIBBLES -> 0..15], NEW n \in 1..NIBBLES
  PROVE  Gap(h, n) \in Int /\ Gap(h, n) + 137 \in Int
<1>1. PICK x \in 0..15 : x = h[n]
  OBVIOUS
<1>2. PICK y \in Int : y = 773 + 137 * x
  OBVIOUS
<1>3. Gap(h, n) = y
  BY <1>1, <1>2 DEF Gap
<1>4. Gap(h, n) + 137 = y + 137
  BY <1>3
<1>5. PICK z \in Int : z = y + 137
  OBVIOUS
<1> QED BY <1>2, <1>3, <1>4, <1>5

WrongGap(v, b, h, m) ==
  /\ v[b + 2 * m] = 20000 \/ v[b + 2 * m] = Gap(h, m) + 137
  /\ \A n \in 1..NIBBLES : n # m => v[b + 2 * n] = Gap(h, n)

LEMMA ReadWithGap ==
  ASSUME NEW v \in Seq(Int), Len(v) = XmpLen, NEW a, a = CorrectAGC(v), Pulsed(v, 0, 0),
         NEW b \in {2, 2 * NIBBLES + 4}, NEW h \in [1..NIBBLES -> 0..15],
         NEW m \in 1..NIBBLES, WrongGap(v, b, h, m)
  PROVE  Groups(a, b) \in [1..NIBBLES -> Int] /\ Reads(h, Groups(a, b))
<1>1. WrongPulse(0, 0)
  BY DEF WrongPulse
<1>2. ASSUME NEW n \in 1..NIBBLES, NEW gap \in Int, v[b + 2 * n] = gap
      PROVE  GroupHeard(0, 0, b + 2 * n, gap, h[n], Groups(a, b)[n])
  <2>1. GroupHeard(0, 0, b + 2 * n, gap, h[n], Group(a, b + 2 * n))
    <3>1. 0 \in Nat /\ 0 \in Int
      OBVIOUS
    <3> QED BY <1>1, <1>2, <3>1, GroupsAre, Zenon
  <2>2. Groups(a, b)[n] = Group(a, b + 2 * n)
    BY Zenon DEF Groups
  <2> QED BY <2>1, <2>2, Zenon
<1>3. ASSUME NEW n \in 1..NIBBLES
      PROVE  Gap(h, n) \in Int /\ Gap(h, n) + 137 \in Int
  BY GapLength, Zenon
<1>8. /\ v[b + 2 * m] = 20000 \/ v[b + 2 * m] = Gap(h, m) + 137
      /\ \A n \in 1..NIBBLES : n # m => v[b + 2 * n] = Gap(h, n)
  BY DEF WrongGap
<1>4. ASSUME NEW n \in 1..NIBBLES, n # m PROVE Groups(a, b)[n] = h[n]
  <2>1. PICK gap \in Int : gap = Gap(h, n)
    BY <1>3
  <2>2. v[b + 2 * n] = gap
    <3>1. v[b + 2 * n] = Gap(h, n)
      BY <1>4, <1>8
    <3> QED BY <2>1, <3>1, Zenon
  <2>3. GroupHeard(0, 0, b + 2 * n, gap, h[n], Groups(a, b)[n])
    BY <1>2, <2>2, Zenon
  <2>4. gap = 773 + 137 * h[n]
    BY <2>1, Zenon DEF Gap
  <2>5. GroupHeard(0, 0, b + 2 * n, 773 + 137 * h[n], h[n], Groups(a, b)[n])
    BY <2>3, <2>4, Zenon
  <2>6. GroupReads(0, 0, b + 2 * n, h[n], Groups(a, b)[n])
    BY <2>5, HeardReads, Zenon
  <2> QED BY <2>6 DEF GroupReads
<1>5. Groups(a, b)[m] \in Int /\ (Groups(a, b)[m] > 15 \/ Groups(a, b)[m] = h[m] + 1)
  <2>1. PICK x, y : x = h[m] /\ y = Groups(a, b)[m]
    OBVIOUS
  <2>2. CASE v[b + 2 * m] = 20000
    <3>1. GroupHeard(0, 0, b + 2 * m, 20000, x, y)
      <4>1. 20000 \in Int
        OBVIOUS
      <4>2. GroupHeard(0, 0, b + 2 * m, 20000, h[m], Groups(a, b)[m])
        BY <1>2, <2>2
      <4> QED BY <2>1, <4>2
    <3>2. y \in Int /\ y > 15
      BY <3>1 DEF GroupHeard
    <3> QED BY <2>1, <3>2, Zenon
  <2>3. CASE v[b + 2 * m] = Gap(h, m) + 137
    <3>1. PICK gap \in Int : gap = Gap(h, m) + 137
      BY <1>3
    <3>2. GroupHeard(0, 0, b + 2 * m, gap, x, y)
      BY <1>2, <2>1, <2>3, <3>1, Zenon
    <3>3. gap = 773 + 137 * x + 137
      BY <2>1, <3>1 DEF Gap
    <3>4. y \in Int /\ y = x + 1
      BY <3>2, <3>3 DEF GroupHeard
    <3> QED BY <2>1, <3>4, Zenon
  <2> QED BY <1>8, <2>2, <2>3
<1>6. Groups(a, b) \in [1..NIBBLES -> Int]
  <2>1. ASSUME NEW n \in 1..NIBBLES PROVE Group(a, b + 2 * n) \in Int
    <3>1. Groups(a, b)[n] \in Int
      BY <1>4, <1>5
    <3> QED BY <3>1, Zenon DEF Groups
  <2> QED BY <2>1, Zenon DEF Groups
<1>7. Reads(h, Groups(a, b))
  <2>1. CASE Groups(a, b)[m] > 15
    BY <2>1, Zenon DEF Reads
  <2>2. CASE Groups(a, b)[m] = h[m] + 1
    <3>1. \A n \in 1..NIBBLES : Groups(a, b)[n] = (IF n \in {m} THEN h[n] + 1 ELSE h[n])
      BY <1>4, <2>2
    <3>2. MoreAt(h, Groups(a, b), {m})
      BY <3>1, Zenon DEF MoreAt
    <3> QED BY <3>2, Zenon DEF Reads
  <2> QED BY <1>5, <2>1, <2>2
<1> QED BY <1>6, <1>7

(* What is heard of an XMP code: at most one of its lengths is wrong.      *)
(* What is read of the half whose first gap is behind place b.             *)
WellOfHalf(v, a, b, h, well) ==
  /\ Groups(a, b) \in [1..NIBBLES -> Int] /\ Reads(h, Groups(a, b))
  /\ well => MoreAt(h, Groups(a, b), {})

LongGaps(x) == \A k \in 1..XmpLen : k % 2 = 0 => x[k] >= 773

LEMMA XmpSent ==
  ASSUME NEW h1 \in [1..NIBBLES -> 0..15], NEW h2 \in [1..NIBBLES -> 0..15],
         NEW x, x = Xmp(h1, h2)
  PROVE  /\ x \in Seq(Int) /\ Len(x) = XmpLen /\ Pulsed(x, 0, 0)
         /\ GapsAt(x, 2, h1) /\ GapsAt(x, 2 * NIBBLES + 4, h2)
         /\ LongGaps(x)
<1>1. x \in Seq(Int) /\ Len(x) = XmpLen /\ XmpLengths(x, h1, h2)
  BY XmpIs
<1>2. Pulsed(x, 0, 0)
  BY <1>1 DEF Pulsed, Standard, XmpLengths
<1>3. GapsAt(x, 2, h1)
  BY <1>1 DEF GapsAt, Gap, XmpLengths
<1>4. ASSUME NEW n \in 1..NIBBLES PROVE x[2 * NIBBLES + 4 + 2 * n] = 773 + 137 * h2[n]
  <2>1. 2 * NIBBLES + 4 + 2 * n = 4 + 2 * (NIBBLES + n)
    BY Numbers
  <2>2. x[4 + 2 * (NIBBLES + n)] = 773 + 137 * h2[n]
    BY <1>1 DEF XmpLengths
  <2> QED BY <2>1, <2>2
<1>5. GapsAt(x, 2 * NIBBLES + 4, h2)
  BY <1>4, Zenon DEF GapsAt, Gap
<1>6. LongGaps(x)
  BY <1>1 DEF XmpLengths, LongGaps
<1> QED BY <1>1, <1>2, <1>3, <1>5, <1>6

LEMMA OnePulseWrong ==
  ASSUME NEW x \in Seq(Int), Len(x) = XmpLen, Pulsed(x, 0, 0),
         NEW v, NEW k, OneWrong(x, v, k), k % 2 = 1
  PROVE  /\ k \in Nat /\ v[k] \in Int
         /\ WrongPulse(k, v[k]) /\ Pulsed(v, k, v[k])
<1>3. /\ k \in 1..XmpLen /\ v \in Seq(Int) /\ Len(v) = XmpLen
      /\ \A j \in 1..XmpLen : j # k => v[j] = x[j]
  BY DEF OneWrong
<1>4. v[k] = 20000 \/ v[k] = x[k] + 137
  BY DEF OneWrong
<1>5. XmpLen \in Nat /\ NIBBLES \in Nat
  BY Numbers DEF XmpLen
<1>6. k \in Nat /\ v[k] \in Int
  BY <1>3, <1>5
<1>1. \A j \in 1..XmpLen : j % 2 = 1 => x[j] = Standard(j)
  BY DEF Pulsed
<1>7. Pulsed(v, k, v[k])
  BY <1>1, <1>3 DEF Pulsed
<1>8. WrongPulse(k, v[k])
  <2>1. x[k] = Standard(k)
    BY <1>1, <1>3
  <2>2. PICK y : y = v[k]
    OBVIOUS
  <2>3. y \in Int /\ (y = 20000 \/ y = Standard(k) + 137)
    BY <1>4, <1>6, <2>1, <2>2
  <2>4. WrongPulse(k, y)
    BY <1>6, <2>3 DEF WrongPulse
  <2> QED BY <2>2, <2>4, Zenon
<1> QED BY <1>6, <1>7, <1>8

(* The gaps of a half, of which one may be wrong.                          *)
LEMMA OneGapWrong ==
  ASSUME NEW x \in Seq(Int), Len(x) = XmpLen, NEW v, NEW k, OneWrong(x, v, k),
         NEW b \in {2, 2 * NIBBLES + 4}, NEW h \in [1..NIBBLES -> 0..15], GapsAt(x, b, h)
  PROVE  GapsAt(v, b, h) \/ (k % 2 = 0 /\ \E m \in 1..NIBBLES : WrongGap(v, b, h, m))
<1>3. /\ k \in 1..XmpLen /\ v \in Seq(Int) /\ Len(v) = XmpLen
      /\ \A j \in 1..XmpLen : j # k => v[j] = x[j]
  BY DEF OneWrong
<1>4. v[k] = 20000 \/ v[k] = x[k] + 137
  BY DEF OneWrong
<1>1. ASSUME NEW n \in 1..NIBBLES, b + 2 * n # k PROVE v[b + 2 * n] = Gap(h, n)
  <2>1. x[b + 2 * n] = Gap(h, n)
    BY Zenon DEF GapsAt
  <2>2. b + 2 * n \in 1..XmpLen
    BY PlacesOfHalves
  <2>3. v[b + 2 * n] = x[b + 2 * n]
    BY <1>1, <1>3, <2>2, Zenon
  <2> QED BY <2>1, <2>3, Zenon
<1>2. CASE \A n \in 1..NIBBLES : b + 2 * n # k
  <2>1. GapsAt(v, b, h)
    BY <1>1, <1>2, Zenon DEF GapsAt
  <2> QED BY <2>1
<1>5. CASE \E m \in 1..NIBBLES : b + 2 * m = k
  <2>1. PICK m \in 1..NIBBLES : b + 2 * m = k
    BY <1>5
  <2>2. ASSUME NEW n \in 1..NIBBLES, n # m PROVE b + 2 * n # k
    BY <2>1, <2>2, Numbers
  <2>3. x[k] = Gap(h, m)
    BY <2>1, Zenon DEF GapsAt
  <2>4. v[b + 2 * m] = 20000 \/ v[b + 2 * m] = Gap(h, m) + 137
    BY <1>4, <2>1, <2>3
  <2>5. WrongGap(v, b, h, m)
    BY <1>1, <2>2, <2>4 DEF WrongGap
  <2>6. k % 2 = 0
    BY <2>1, PlacesOfHalves
  <2> QED BY <2>5, <2>6
<1> QED BY <1>2, <1>5

LEMMA HalfHeard ==
  ASSUME NEW x \in Seq(Int), Len(x) = XmpLen, Pulsed(x, 0, 0),
         NEW b \in {2, 2 * NIBBLES + 4}, NEW h \in [1..NIBBLES -> 0..15], GapsAt(x, b, h),
         NEW v, v = x \/ v \in Wrong(x), NEW a, a = CorrectAGC(v)
  PROVE  /\ Groups(a, b) \in [1..NIBBLES -> Int] /\ Reads(h, Groups(a, b))
         /\ v = x => MoreAt(h, Groups(a, b), {})
<1>1. WrongPulse(0, 0) /\ 0 \in Nat /\ 0 \in Int /\ 0 \in {0, 1}
  BY DEF WrongPulse
<1>2. CASE v = x
  BY <1>1, <1>2, ReadWithPulse, Zenon
<1>3. CASE v # x
  <2>1. PICK k : OneWrong(x, v, k)
    BY <1>3, WrongIs, Zenon
  <2>2. k \in Nat /\ v \in Seq(Int) /\ Len(v) = XmpLen
    BY <2>1 DEF OneWrong
  <2>3. CASE k % 2 = 1
    <3>1. /\ k \in Nat /\ v[k] \in Int
          /\ WrongPulse(k, v[k]) /\ Pulsed(v, k, v[k])
      BY <2>1, <2>3, OnePulseWrong, Zenon
    <3>2. k % 2 # 0
      BY <2>2, <2>3
    <3>3. GapsAt(v, b, h)
      <4>1. ~(k % 2 = 0)
        BY <3>2
      <4>2. GapsAt(v, b, h) \/ (k % 2 = 0 /\ \E m \in 1..NIBBLES : WrongGap(v, b, h, m))
        BY <2>1, OneGapWrong, Zenon
      <4> QED BY <4>1, <4>2, Zenon
    <3> QED BY <1>3, <2>2, <3>1, <3>3, ReadWithPulse, Zenon
  <2>4. CASE k % 2 # 1
    <3>1. Pulsed(v, 0, 0)
      <4>1. \A j \in 1..XmpLen : j # k => v[j] = x[j]
        BY <2>1 DEF OneWrong
      <4> QED BY <2>2, <2>4, <4>1 DEF Pulsed
    <3>2. CASE GapsAt(v, b, h)
      BY <1>1, <1>3, <2>2, <3>1, <3>2, ReadWithPulse, Zenon
    <3>3. CASE ~GapsAt(v, b, h)
      <4>1. PICK m \in 1..NIBBLES : WrongGap(v, b, h, m)
        BY <2>1, <3>3, OneGapWrong, Zenon
      <4> QED BY <1>3, <2>2, <3>1, <4>1, ReadWithGap, Zenon
    <3> QED BY <3>2, <3>3
  <2> QED BY <2>3, <2>4
<1> QED BY <1>2, <1>3

LEMMA XmpPulses ==
  ASSUME NEW x \in Seq(Int), Len(x) = XmpLen, Pulsed(x, 0, 0),
         LongGaps(x),
         NEW v, v = x \/ v \in Wrong(x)
  PROVE  v \in Seq(Int) /\ Len(v) = XmpLen /\ PulsesAndGaps(v)
<1>1. XmpLen \in Nat
  BY Numbers DEF XmpLen
<1>2. \A j \in 1..XmpLen : IF j % 2 = 1 THEN x[j] \in {210, 330} ELSE x[j] >= 773
  BY <1>1 DEF Pulsed, Standard, LongGaps
<1>3. /\ v \in Seq(Int) /\ Len(v) = XmpLen
      /\ \A j \in 1..XmpLen : v[j] = x[j] \/ v[j] = 20000 \/ v[j] = x[j] + 137
  <2>1. CASE v = x
    BY <2>1
  <2>2. CASE v # x
    <3>1. PICK k : OneWrong(x, v, k)
      BY <2>2, WrongIs, Zenon
    <3> QED BY <3>1 DEF OneWrong
  <2> QED BY <2>1, <2>2
<1>4. ASSUME NEW j \in 1..XmpLen
      PROVE  IF j % 2 = 1 THEN ~Long(v[j]) ELSE ~Short(v[j])
  <2>1. PICK y \in Int : y = x[j]
    BY <1>1
  <2>2. PICK z \in Int : z = v[j]
    BY <1>1, <1>3
  <2>3. z = y \/ z = 20000 \/ z = y + 137
    BY <1>3, <2>1, <2>2
  <2>4. IF j % 2 = 1 THEN y \in {210, 330} ELSE y >= 773
    BY <1>2, <2>1
  <2>5. IF j % 2 = 1 THEN ~Long(z) ELSE ~Short(z)
    BY <2>3, <2>4 DEF Long, Short
  <2> QED BY <2>2, <2>5, Zenon
<1>5. PulsesAndGaps(v)
  <2>1. \A j \in 1..Len(v) : IF j % 2 = 1 THEN ~Long(v[j]) ELSE ~Short(v[j])
    BY <1>3, <1>4
  <2> QED BY <2>1, Zenon DEF PulsesAndGaps
<1> QED BY <1>3, <1>5

(* Of an XMP code with at most one wrong length each half is read as it was*)
(* sent or not at all, and decode_rstep finds nothing in it.               *)
LEMMA XmpHeard ==
  ASSUME NEW h1 \in Halves, NEW h2 \in Halves, NEW x, x = Xmp(h1, h2),
         NEW v, v = x \/ v \in Wrong(x)
  PROVE  /\ Len(v) = XmpLen /\ decode_rstep(v) = NoCode
         /\ decode_xmp(v)[1] \in {h1, NoCode} /\ decode_xmp(v)[2] \in {h2, NoCode}
         /\ v = x => decode_xmp(v)[1] = h1 /\ decode_xmp(v)[2] = h2
<1>1. /\ h1 \in [1..NIBBLES -> 0..15] /\ h2 \in [1..NIBBLES -> 0..15]
      /\ Sum(h1) % 16 = 0 /\ Sum(h2) % 16 = 0
  BY HalvesAre
<1>2. /\ x \in Seq(Int) /\ Len(x) = XmpLen /\ Pulsed(x, 0, 0)
      /\ GapsAt(x, 2, h1) /\ GapsAt(x, 2 * NIBBLES + 4, h2)
      /\ LongGaps(x)
  BY <1>1, XmpSent
<1>3. v \in Seq(Int) /\ Len(v) = XmpLen /\ PulsesAndGaps(v)
  BY <1>2, XmpPulses
<1>4. PICK a : a = CorrectAGC(v)
  OBVIOUS
<1>5. a \in Seq(Int) /\ Len(a) = XmpLen
  BY <1>3, <1>4, AGCIs
<1>6. /\ Half(a, 0) = Checked(Groups(a, 2))
      /\ Half(a, NIBBLES + 1) = Checked(Groups(a, 2 * NIBBLES + 4))
  <2>1. 2 = 2 + 2 * 0 /\ 2 * NIBBLES + 4 = 2 + 2 * (NIBBLES + 1)
        /\ 0 \in {0, NIBBLES + 1} /\ NIBBLES + 1 \in {0, NIBBLES + 1}
    BY Numbers
  <2>2. Half(a, 0) = Checked([n \in 1..NIBBLES |-> Group(a, 2 + 2 * n)])
    BY <1>5, <2>1, HalfIs, Zenon
  <2>3. Half(a, NIBBLES + 1) = Checked([n \in 1..NIBBLES |-> Group(a, (2 * NIBBLES + 4) + 2 * n)])
    BY <1>5, <2>1, HalfIs, Zenon
  <2> QED BY <2>2, <2>3, Zenon DEF Groups
<1>7. ASSUME NEW b \in {2, 2 * NIBBLES + 4}, NEW h \in [1..NIBBLES -> 0..15],
             Sum(h) % 16 = 0, GapsAt(x, b, h)
      PROVE  /\ Checked(Groups(a, b)) \in {h, NoCode}
             /\ v = x => Checked(Groups(a, b)) = h
  <2>1. /\ Groups(a, b) \in [1..NIBBLES -> Int] /\ Reads(h, Groups(a, b))
        /\ v = x => MoreAt(h, Groups(a, b), {})
    BY <1>2, <1>4, <1>7, HalfHeard, Zenon
  <2>2. h \in [1..NIBBLES -> Int]
    OBVIOUS
  <2> QED BY <1>7, <2>1, <2>2, CheckedIs, Zenon
<1>8. decode_xmp(v)[1] = Half(a, 0) /\ decode_xmp(v)[2] = Half(a, NIBBLES + 1)
  BY <1>4 DEF decode_xmp
<1>9. decode_rstep(v) = NoCode
  BY <1>3, NoWord
<1>10. /\ Half(a, 0) \in {h1, NoCode} /\ (v = x => Half(a, 0) = h1)
       /\ Half(a, NIBBLES + 1) \in {h2, NoCode} /\ (v = x => Half(a, NIBBLES + 1) = h2)
  <2>1. 2 \in {2, 2 * NIBBLES + 4} /\ 2 * NIBBLES + 4 \in {2, 2 * NIBBLES + 4}
    OBVIOUS
  <2>2. Checked(Groups(a, 2)) \in {h1, NoCode} /\ (v = x => Checked(Groups(a, 2)) = h1)
    BY <1>1, <1>2, <1>7, <2>1, Zenon
  <2>3. /\ Checked(Groups(a, 2 * NIBBLES + 4)) \in {h2, NoCode}
        /\ v = x => Checked(Groups(a, 2 * NIBBLES + 4)) = h2
    BY <1>1, <1>2, <1>7, <2>1, Zenon
  <2> QED BY <1>6, <2>2, <2>3, Zenon
<1> QED BY <1>3, <1>8, <1>9, <1>10, Zenon

-----------------------------------------------------------------------------
(* Infrared codes: whatever is read is a code or none.                     *)

IrCodes == [1..BITS -> {0, 1}] \cup [1..NIBBLES -> 0..15]
Frames == {<<w>> : w \in Words} \cup {<<h1, h2>> : h1, h2 \in Halves}

(* There are at least as many bits as the decoder has counted.             *)
LEMMA BitsKept ==
  ASSUME NEW v, Len(v) \in Nat
  PROVE  \A j \in 0..Len(v) : Decoder(v)[j].state <= Len(Decoder(v)[j].data)
<1> PICK L \in Nat : L = Len(v)
  OBVIOUS
<1> DEFINE P == {j \in 0..L : Decoder(v)[j].state <= Len(Decoder(v)[j].data)}
<1>1. 0 \in P
  BY DecoderIs DEF Fresh
<1>2. ASSUME NEW j \in 0..(L - 1), j \in P PROVE j + 1 \in P
  <2>1. j + 1 \in 1..L /\ (j + 1) - 1 = j /\ j \in 0..L /\ j + 1 \in 0..L /\ j \in Nat
    OBVIOUS
  <2>2. PICK s \in States : s = Decoder(v)[j] /\ s.state <= Len(s.data)
    BY <1>2, <2>1, DecoderIs
  <2>3. PICK falling \in BOOLEAN : falling <=> (j + 1) % 2 = 1
    OBVIOUS
  <2>4. Decoder(v)[j + 1] = Length(s, falling, v[j + 1])
    <3>1. Decoder(v)[j + 1] = Length(Decoder(v)[(j + 1) - 1], (j + 1) % 2 = 1, v[j + 1])
      BY <2>1, DecoderIs
    <3>2. falling = ((j + 1) % 2 = 1)
      BY <2>3
    <3> QED BY <2>1, <2>2, <3>1, <3>2, Zenon
  <2>5. s.state \in Nat /\ s.data \in Seq(Bits) /\ Len(s.data) \in Nat /\ 0 \in Bits /\ 1 \in Bits
    BY DEF States, Bits
  <2>6. ASSUME NEW rbit \in Bits
        PROVE  Edge(s, falling, rbit).state <= Len(Edge(s, falling, rbit).data)
    <3>1. ASSUME NEW b \in Bits PROVE s.state + 1 <= Len(Append(s.data, b))
      <4>1. Len(Append(s.data, b)) = Len(s.data) + 1
        BY <2>5
      <4>2. PICK p, q \in Nat : p = s.state /\ q = Len(s.data) /\ p <= q
        BY <2>2, <2>5
      <4>3. PICK e : e = Len(Append(s.data, b)) /\ e = q + 1
        BY <4>1, <4>2
      <4>4. p + 1 <= e
        BY <4>2, <4>3
      <4> QED BY <4>2, <4>3, <4>4, Zenon
    <3>2. (IF falling THEN 1 ELSE 0) \in Bits
      BY <2>5
    <3>3. PICK t : t = Edge(s, falling, rbit)
      OBVIOUS
    <3>4. IsReset(s, t) \/ IsMoved(s, t, falling, rbit) \/ IsKept(s, t, rbit)
      BY <3>3, EdgeIs, Zenon
    <3>5. CASE IsReset(s, t)
      BY <2>5, <3>3, <3>5 DEF IsReset
    <3>6. CASE IsMoved(s, t, falling, rbit)
      BY <3>1, <3>2, <3>3, <3>6 DEF IsMoved
    <3>7. CASE IsKept(s, t, rbit)
      BY <2>2, <3>3, <3>7 DEF IsKept
    <3> QED BY <3>4, <3>5, <3>6, <3>7
  <2>7. Reset(s).state <= Len(Reset(s).data)
    BY <2>5, ResetIs
  <2>8. Length(s, falling, v[j + 1]).state <= Len(Length(s, falling, v[j + 1]).data)
    BY <2>2, <2>5, <2>6, <2>7 DEF Length
  <2> QED BY <2>1, <2>4, <2>8
<1> HIDE DEF P
<1>3. \A j \in 0..L : j \in P
  BY <1>1, <1>2, UpTo
<1> QED BY <1>3 DEF P

LEMMA LastBits ==
  ASSUME NEW d \in Seq(Bits), BITS <= Len(d)
  PROVE  SubSeq(d, Len(d) - BITS + 1, Len(d)) \in [1..BITS -> {0, 1}]
<1>1. BITS \in Nat \ {0} /\ Len(d) \in Nat
  BY Numbers
<1> DEFINE x == SubSeq(d, Len(d) - BITS + 1, Len(d))
<1>2. x \in Seq(Bits) /\ Len(x) = BITS
  BY <1>1
<1> HIDE DEF x
<1>3. x \in [1..BITS -> {0, 1}]
  BY <1>2 DEF Bits
<1> QED BY <1>3 DEF x

LEMMA WordTyped ==
  ASSUME NEW v, Len(v) \in Nat
  PROVE  decode_rstep(v) \in IrCodes \cup {NoCode}
<1>1. PICK end \in States : end = Decoder(v)[Len(v)]
  BY DecoderIs
<1>2. end.state <= Len(end.data)
  BY <1>1, BitsKept
<1>3. CASE end.state = BITS
  <2>1. decode_rstep(v) = SubSeq(end.data, Len(end.data) - BITS + 1, Len(end.data))
    BY <1>1, <1>3, Zenon DEF decode_rstep
  <2>2. end.data \in Seq(Bits) /\ BITS <= Len(end.data)
    BY <1>2, <1>3 DEF States
  <2>3. PICK d \in Seq(Bits) : d = end.data /\ BITS <= Len(d)
    BY <2>2
  <2>4. SubSeq(d, Len(d) - BITS + 1, Len(d)) \in [1..BITS -> {0, 1}]
    BY <2>3, LastBits
  <2> QED BY <2>1, <2>3, <2>4, Zenon DEF IrCodes
<1>4. CASE end.state # BITS
  BY <1>1, <1>4, Zenon DEF decode_rstep
<1> QED BY <1>3, <1>4

LEMMA HalfTyped ==
  ASSUME NEW v, NEW from
  PROVE  Half(v, from) \in IrCodes \cup {NoCode}
<1> DEFINE e(n) == Nibble(v, from + n - 1)
           h == [n \in 1..NIBBLES |-> e(n)]
           sum == Sum(h)
<1> HIDE DEF e, sum
<1>1. Half(v, from) = IF (\A n \in 1..NIBBLES : h[n] \in 0..15) /\ sum % 16 = 0
                      THEN h ELSE NoCode
  BY Zenon DEF Half, e, sum
<1>2. (\A n \in 1..NIBBLES : h[n] \in 0..15) => h \in [1..NIBBLES -> 0..15]
  OBVIOUS
<1> HIDE DEF h
<1> QED BY <1>1, <1>2, Zenon DEF IrCodes

LEMMA ReadTyped ==
  ASSUME NEW v, Len(v) \in Nat
  PROVE  FirstCode(v) \in IrCodes \cup {NoCode} /\ SecondCode(v) \in IrCodes \cup {NoCode}
<1>1. /\ decode_xmp(v)[1] \in IrCodes \cup {NoCode}
      /\ decode_xmp(v)[2] \in IrCodes \cup {NoCode}
  <2>1. /\ decode_xmp(v)[1] = Half(CorrectAGC(v), 0)
        /\ decode_xmp(v)[2] = Half(CorrectAGC(v), NIBBLES + 1)
    BY DEF decode_xmp
  <2> QED BY <2>1, HalfTyped, Zenon
<1> QED BY <1>1, WordTyped, Zenon DEF FirstCode, SecondCode

-----------------------------------------------------------------------------
(* Infrared codes: what an old display sends.                              *)
LEMMA FixedIs ==
  ASSUME NEW us \in Seq(Int)
  PROVE  /\ Fixed(us) \in Seq(Int) /\ Len(Fixed(us)) = XmpLen
         /\ \A k \in 1..XmpLen : Fixed(us)[k] = IF k <= Len(us) THEN us[k] ELSE 0
<1>1. XmpLen \in Nat
  BY Numbers DEF XmpLen
<1>2. DOMAIN us = 1..Len(us) /\ Len(us) \in Nat
  OBVIOUS
<1>3. \A k \in 1..XmpLen : k \in DOMAIN us <=> k <= Len(us)
  BY <1>1, <1>2
<1>4. Fixed(us) = [k \in 1..XmpLen |-> IF k <= Len(us) THEN us[k] ELSE 0]
  BY <1>3 DEF Fixed
<1>5. \A k \in 1..XmpLen : (IF k <= Len(us) THEN us[k] ELSE 0) \in Int
  BY <1>1, <1>2
<1>6. Fixed(us) \in [1..XmpLen -> Int]
  BY <1>4, <1>5
<1> QED BY <1>1, <1>4, <1>6

(* A record of an XMP code's length is as it was.                          *)
LEMMA FixedWhole ==
  ASSUME NEW us \in Seq(Int), Len(us) = XmpLen
  PROVE  Fixed(us) = us
<1>1. Fixed(us) \in Seq(Int) /\ Len(Fixed(us)) = Len(us)
      /\ \A k \in 1..Len(us) : Fixed(us)[k] = us[k]
  BY FixedIs
<1> QED BY <1>1

LEMMA ReadLen ==
  ASSUME NEW us \in Seq(Int), NEW d
  PROVE  AsRead(d, us) \in Seq(Int) /\ Len(AsRead(d, us)) \in Nat
BY FixedIs DEF AsRead

LEMMA StaysFrom ==
  ASSUME NEW L \in Nat, NEW N \in Nat, L <= N, NEW g,
         \A m \in (L + 1)..N : g[m - 1] = g[L] => g[m] = g[L]
  PROVE  g[N] = g[L]
<1> DEFINE P == {j \in 0..(N - L) : g[L + j] = g[L]}
<1>1. N - L \in Nat /\ L + (N - L) = N
  OBVIOUS
<1>2. 0 \in P
  OBVIOUS
<1>3. ASSUME NEW j \in 0..((N - L) - 1), j \in P PROVE j + 1 \in P
  <2>1. PICK m \in (L + 1)..N : m = L + (j + 1) /\ m - 1 = L + j
    OBVIOUS
  <2> QED BY <1>3, <2>1
<1> HIDE DEF P
<1>4. \A j \in 0..(N - L) : j \in P
  BY <1>1, <1>2, <1>3, UpTo
<1>5. (N - L) \in P
  BY <1>1, <1>4
<1> QED BY <1>1, <1>5 DEF P

(* The decoder finds the same code when zeros follow.                      *)
LEMMA SameWord ==
  ASSUME NEW us \in Seq(Int), Len(us) <= XmpLen, decode_rstep(us) # NoCode
  PROVE  decode_rstep(Fixed(us)) = decode_rstep(us)
<1> PICK L \in Nat : L = Len(us)
  OBVIOUS
<1> PICK N \in Nat : N = XmpLen
  BY Numbers DEF XmpLen
<1> PICK v \in Seq(Int) : v = Fixed(us)
  BY FixedIs
<1>0. L <= N
  OBVIOUS
<1>1. Len(v) = N /\ L <= N /\ \A k \in 1..L : v[k] = us[k]
  <2>1. /\ Len(v) = N /\ L <= N
        /\ \A k \in 1..N : v[k] = IF k <= L THEN us[k] ELSE 0
    BY FixedIs, Zenon
  <2> QED BY <2>1
<1>2. PICK f : f = Decoder(us)
  OBVIOUS
<1>3. PICK g : g = Decoder(v)
  OBVIOUS
<1>4. /\ f[0] = Fresh /\ \A n \in 1..L : f[n] = Length(f[n - 1], n % 2 = 1, us[n])
      /\ g[0] = Fresh /\ \A n \in 1..N : g[n] = Length(g[n - 1], n % 2 = 1, v[n])
  BY <1>1, <1>2, <1>3, DecoderIs
<1>5. f[L] = g[L]
  <2> DEFINE P == {j \in 0..L : f[j] = g[j]}
  <2>1. 0 \in P
    BY <1>4
  <2>2. ASSUME NEW j \in 0..(L - 1), j \in P PROVE j + 1 \in P
    <3>1. PICK m \in 1..L : m = j + 1 /\ m - 1 = j /\ m \in 1..N /\ m \in 0..L
      BY <1>1
    <3>2. f[m] = Length(f[j], m % 2 = 1, us[m]) /\ g[m] = Length(g[j], m % 2 = 1, v[m])
      BY <1>4, <3>1
    <3>3. f[j] = g[j] /\ us[m] = v[m]
      BY <1>1, <2>2, <3>1
    <3>4. f[m] = g[m]
      BY <3>2, <3>3, Zenon
    <3> QED BY <3>1, <3>4
  <2> HIDE DEF P
  <2>3. \A j \in 0..L : j \in P
    BY <2>1, <2>2, UpTo
  <2> QED BY <2>3 DEF P
<1>6. f[L].state = BITS
  BY <1>2, Zenon DEF decode_rstep
<1>7. g[N] = g[L]
  <2>1. ASSUME NEW m \in (L + 1)..N, g[m - 1] = g[L] PROVE g[m] = g[L]
    <3>1. m \in 1..N
      OBVIOUS
    <3>2. g[m] = Length(g[m - 1], m % 2 = 1, v[m])
      BY <1>4, <3>1, Zenon
    <3>3. g[m - 1].state = BITS
      BY <1>5, <1>6, <2>1, Zenon
    <3>4. Length(g[m - 1], m % 2 = 1, v[m]) = g[m - 1]
      BY <3>3, LengthFrozen
    <3> QED BY <2>1, <3>2, <3>4, Zenon
  <2> QED BY <1>0, <2>1, StaysFrom
<1>8. Decoder(us)[Len(us)] = f[L] /\ Decoder(v)[Len(v)] = f[L]
  BY <1>1, <1>2, <1>3, <1>5, <1>7
<1>9. decode_rstep(v) = decode_rstep(us)
  BY <1>8, Zenon DEF decode_rstep
<1> QED BY <1>9

(* There is nothing in a record of zeros.                                  *)
LEMMA NothingIn ==
  ASSUME NEW v \in Seq(Int), Len(v) = 0 \/ Len(v) = XmpLen, \A k \in 1..Len(v) : v[k] = 0
  PROVE  FirstCode(v) = NoCode /\ SecondCode(v) = NoCode
<1>1. XmpLen \in Nat /\ XmpLen = 4 * NIBBLES + 5 /\ NIBBLES \in Nat \ {0}
  BY Numbers DEF XmpLen
<1>2. decode_rstep(v) = NoCode
  <2>1. ~Long(0) /\ ~Short(0)
    BY DEF Long, Short
  <2>2. PulsesAndGaps(v)
    BY <2>1 DEF PulsesAndGaps
  <2> QED BY <2>2, NoWord
<1>3. ASSUME Len(v) = XmpLen
      PROVE  decode_xmp(v)[1] = NoCode /\ decode_xmp(v)[2] = NoCode
  <2>1. PICK a : a = CorrectAGC(v)
    OBVIOUS
  <2>2. \A k \in 1..XmpLen : a[k] = 0
    <3>1. /\ a[5] = (v[5] + 2 * v[7]) \div 3 /\ a[3] = (v[3] + 2 * a[5]) \div 3
          /\ \A k \in 1..XmpLen : k \notin {3, 5} => a[k] = v[k]
      <4>1. Len(v) = XmpLen /\ a = CorrectAGC(v)
        BY <1>3, <2>1
      <4> QED BY <4>1, AGCIs, ZenonT(60)
    <3>2. v[3] = 0 /\ v[5] = 0 /\ v[7] = 0
      BY <1>1, <1>3
    <3>3. a[5] = 0
      BY <3>1, <3>2
    <3>4. a[3] = 0
      BY <3>1, <3>2, <3>3
    <3> QED BY <1>3, <3>1, <3>3, <3>4
  <2>3. ASSUME NEW i \in Nat, 5 + 2 * i <= XmpLen PROVE Nibble(a, i) = -6
    <3>1. a[3 + 2 * i] = 0 /\ a[4 + 2 * i] = 0 /\ a[5 + 2 * i] = 0
      <4>1. \A k \in {3 + 2 * i, 4 + 2 * i, 5 + 2 * i} : k \in 1..XmpLen
        BY <1>1, <2>3
      <4> QED BY <2>2, <4>1, Zenon
    <3>2. Nibble(a, i) = Quotient((0 \div 2) + 0 + (0 \div 2) - 915, 137)
      BY <3>1 DEF Nibble
    <3>3. (0 \div 2) + 0 + (0 \div 2) - 915 = -915
      OBVIOUS
    <3>4. Quotient(-915, 137) = -6
      BY DEF Quotient
    <3> QED BY <3>2, <3>3, <3>4
  <2>4. ASSUME NEW from \in {0, NIBBLES + 1} PROVE Half(a, from) = NoCode
    <3>1. PICK i \in Nat : i = from + 1 - 1 /\ 5 + 2 * i <= XmpLen
      BY <1>1
    <3>2. Nibble(a, i) \notin 0..15
      <4>1. Nibble(a, i) = -6
        BY <2>3, <3>1, Zenon
      <4> QED BY <4>1
    <3>3. 1 \in 1..NIBBLES
      BY <1>1
    <3> DEFINE e(n) == Nibble(a, from + n - 1)
               h == [n \in 1..NIBBLES |-> e(n)]
               sum == Sum(h)
    <3>4. e(1) \notin 0..15
      BY <3>1, <3>2, Zenon
    <3> HIDE DEF e, sum
    <3>5. h[1] = e(1)
      BY <3>3
    <3>6. Half(a, from) = IF (\A n \in 1..NIBBLES : h[n] \in 0..15) /\ sum % 16 = 0
                          THEN h ELSE NoCode
      BY Zenon DEF Half, e, sum
    <3> HIDE DEF h
    <3> QED BY <3>3, <3>4, <3>5, <3>6, Zenon
  <2>5. decode_xmp(v)[1] = Half(a, 0) /\ decode_xmp(v)[2] = Half(a, NIBBLES + 1)
    BY <2>1 DEF decode_xmp
  <2> QED BY <2>4, <2>5
<1>4. Len(v) = 0 => Len(v) # XmpLen
  BY <1>1
<1> QED BY <1>2, <1>3, <1>4, Zenon DEF FirstCode, SecondCode

LEMMA SilentRead ==
  ASSUME NEW d
  PROVE  /\ FirstCode(AsRead(d, Silent.us)) = NoCode
         /\ SecondCode(AsRead(d, Silent.us)) = NoCode
         /\ ~Doubtful(d, Silent) /\ Silent.heard # "well"
<1>1. Silent.us = << >> /\ Silent.heard = "not"
  BY DEF Silent
<1>2. << >> \in Seq(Int) /\ Len(<< >>) = 0
  OBVIOUS
<1>3. /\ Fixed(<< >>) \in Seq(Int) /\ Len(Fixed(<< >>)) = XmpLen
      /\ \A k \in 1..XmpLen : Fixed(<< >>)[k] = 0
  <2>1. \A k \in 1..XmpLen : ~(k <= 0)
    BY Numbers DEF XmpLen
  <2>2. PICK z \in Seq(Int) : z = << >> /\ Len(z) = 0
    BY <1>2
  <2>3. /\ Fixed(z) \in Seq(Int) /\ Len(Fixed(z)) = XmpLen
        /\ \A k \in 1..XmpLen : Fixed(z)[k] = IF k <= Len(z) THEN z[k] ELSE 0
    BY FixedIs
  <2>4. \A k \in 1..XmpLen : Fixed(z)[k] = 0
    BY <2>1, <2>2, <2>3
  <2> QED BY <2>2, <2>3, <2>4, Zenon
<1>4. PICK v \in Seq(Int) : v = AsRead(d, << >>)
  BY <1>2, ReadLen
<1>5. /\ Len(v) = 0 \/ Len(v) = XmpLen
      /\ \A k \in 1..Len(v) : v[k] = 0
  <2>1. v = << >> \/ v = Fixed(<< >>)
    BY <1>4 DEF AsRead
  <2> QED BY <1>2, <1>3, <2>1
<1>6. FirstCode(v) = NoCode /\ SecondCode(v) = NoCode
  BY <1>5, NothingIn
<1> QED BY <1>1, <1>4, <1>6 DEF Doubtful

-----------------------------------------------------------------------------
(* Infrared codes: what the thread finds in a record.                      *)

(* What a frame leaves of a record that the thread asks for.               *)
Finds(d, r, codes) ==
  /\ Len(AsRead(d, r.us)) \in Nat
  /\ Doubtful(d, r) => Len(codes) = 1
  /\ ~Doubtful(d, r) =>
       /\ FirstCode(AsRead(d, r.us)) \in {NoCode, codes[1]}
       /\ \/ SecondCode(AsRead(d, r.us)) = NoCode
          \/ Len(codes) > 1 /\ SecondCode(AsRead(d, r.us)) = codes[2]
       /\ r.heard = "well" =>
            /\ r.holds = codes /\ FirstCode(AsRead(d, r.us)) = codes[1]
            /\ Len(codes) > 1 => SecondCode(AsRead(d, r.us)) = codes[2]

LEMMA CodesAre ==
  /\ \A w \in Words : w # NoCode /\ w \in IrCodes
  /\ \A h \in Halves : h # NoCode /\ h \in IrCodes
  /\ NoCode \notin IrCodes
<1>1. BITS \in Nat \ {0} /\ NIBBLES \in Nat \ {0}
  BY Numbers
<1>2. ASSUME NEW n \in Nat \ {0}, NEW S, NEW f \in [1..n -> S] PROVE f # << >>
  <2>1. 1 \in DOMAIN f
    OBVIOUS
  <2>2. 1 \notin DOMAIN << >>
    OBVIOUS
  <2> QED BY <2>1, <2>2, Zenon
<1>3. \A c \in IrCodes : c # NoCode
  BY <1>1, <1>2, Zenon DEF IrCodes, NoCode
<1>4. \A w \in Words : w \in IrCodes
  BY Zenon DEF IrCodes, Words
<1>5. \A h \in Halves : h \in IrCodes
  BY HalvesAre, Zenon DEF IrCodes
<1> QED BY <1>3, <1>4, <1>5, Zenon

LEMMA FlippedIs ==
  ASSUME NEW us \in Seq(Int), NEW v \in Flipped(us)
  PROVE  v \in Seq(Int)
<1>1. PICK k \in DOMAIN us : v = [us EXCEPT ![k] = IF us[k] = 360 THEN 720 ELSE 360]
  BY DEF Flipped
<1> QED BY <1>1

(* What the thread finds in a record is what was sent, or nothing; all that*)
(* was sent if it was heard well; but for a doubtful record.               *)
LEMMA RstepFinds ==
  ASSUME NEW w \in Words, NEW n \in Noises \cup {<< >>}, NEW d,
         NEW r \in Heard(Noisy(n, w), <<w>>, Len(n) >= BITS)
  PROVE  r = Silent \/ Finds(d, r, <<w>>)
<1>1. PICK us : us = Noisy(n, w)
  OBVIOUS
<1>2. PICK off : Behind0(us, off, Encode(w)) /\ (Len(n) < BITS => off <= BITS)
  <2>1. \E off : NoisyAt(n, w, off)
    BY NoisyIs
  <2> QED BY <1>1, <2>1, Zenon DEF NoisyAt
<1>3. w # NoCode
  BY CodesAre
<1>4. PICK codes : codes = <<w>> /\ codes[1] = w /\ Len(codes) = 1
  OBVIOUS
<1>5. us \in Seq(Int)
  BY <1>2 DEF Behind0
<1>6. PICK odd \in BOOLEAN : odd <=> Len(n) >= BITS
  OBVIOUS
<1>7. ~odd => off <= BITS
  <2>1. Len(n) \in Nat
    BY IrAssumption
  <2> QED BY <1>2, <1>6, <2>1, Numbers
<1>8. r \in Heard(us, codes, odd)
  <2>1. odd = (Len(n) >= BITS)
    BY <1>6
  <2> QED BY <1>1, <1>4, <2>1, Zenon
<1>9. \/ r = Silent
      \/ r = [us |-> us, holds |-> codes, heard |-> IF odd THEN "oddly" ELSE "well"]
      \/ \E v \in Wrong(us) :
           r = [us |-> v, holds |-> codes, heard |-> IF odd THEN "oddly" ELSE "badly"]
      \/ \E v \in Flipped(us) : r = [us |-> v, holds |-> codes, heard |-> "oddly"]
  BY <1>4, <1>8 DEF Heard
<1>10. ASSUME NEW v \in Seq(Int), r.us = v, Doubtful(d, r) PROVE Finds(d, r, codes)
  <2>1. Len(AsRead(d, r.us)) \in Nat
    BY <1>10, ReadLen
  <2> QED BY <1>4, <1>10, <2>1, Zenon DEF Finds
<1>11. ASSUME NEW v \in Seq(Int), r.us = v, ~Doubtful(d, r), ~odd,
              v = us \/ v \in Wrong(us), r.holds = codes,
              r.heard = "well" \/ r.heard = "badly", r.heard = "well" => v = us
       PROVE  Finds(d, r, codes)
  <2>1. PICK x : x = AsRead(d, v)
    OBVIOUS
  <2>2. x \in Seq(Int) /\ Len(x) \in Nat
    BY <2>1, ReadLen
  <2>3. decode_rstep(v) \in {w, NoCode} /\ (v = us => decode_rstep(v) = w)
    BY <1>2, <1>7, <1>11, NoisyHeard
  <2>4. CASE r.heard = "well"
    <3>1. v = us /\ ~CutOff(d, v)
      BY <1>11, <2>4 DEF Doubtful
    <3>2. decode_rstep(x) = w
      <4>1. CASE d \in OldFirmware
        <5>1. Len(v) <= XmpLen
          BY <3>1, <4>1, Numbers DEF CutOff, XmpLen
        <5> QED BY <1>3, <2>1, <2>3, <3>1, <4>1, <5>1, SameWord DEF AsRead
      <4>2. CASE d \notin OldFirmware
        BY <2>1, <2>3, <3>1, <4>2 DEF AsRead
      <4> QED BY <4>1, <4>2
    <3>3. FirstCode(x) = w /\ SecondCode(x) = NoCode
      BY <1>3, <3>2, Zenon DEF FirstCode, SecondCode
    <3> QED BY <1>4, <1>11, <2>1, <2>2, <3>3 DEF Finds
  <2>5. CASE r.heard = "badly"
    <3>2. Len(x) # XmpLen
      BY <1>4, <1>11, <2>1, <2>5 DEF Doubtful
    <3>3. d \notin OldFirmware
      BY <2>1, <3>2, FixedIs DEF AsRead
    <3>4. x = v
      BY <2>1, <3>3 DEF AsRead
    <3>5. FirstCode(x) \in {NoCode, w} /\ SecondCode(x) = NoCode
      BY <2>3, <3>2, <3>4, Zenon DEF FirstCode, SecondCode
    <3> QED BY <1>4, <1>11, <2>1, <2>2, <2>5, <3>5 DEF Finds
  <2> QED BY <1>11, <2>4, <2>5
<1>12. CASE r = [us |-> us, holds |-> codes, heard |-> IF odd THEN "oddly" ELSE "well"]
  <2>1. r.us = us /\ r.holds = codes /\ r.heard = IF odd THEN "oddly" ELSE "well"
    BY <1>12
  <2>2. odd => Doubtful(d, r)
    BY <2>1 DEF Doubtful
  <2> QED BY <1>4, <1>5, <1>10, <1>11, <2>1, <2>2, Zenon
<1>13. CASE \E v \in Wrong(us) :
              r = [us |-> v, holds |-> codes, heard |-> IF odd THEN "oddly" ELSE "badly"]
  <2>1. PICK v \in Wrong(us) :
              r = [us |-> v, holds |-> codes, heard |-> IF odd THEN "oddly" ELSE "badly"]
    BY <1>13
  <2>2. r.us = v /\ r.holds = codes /\ r.heard = IF odd THEN "oddly" ELSE "badly"
    BY <2>1
  <2>3. v \in Seq(Int)
    BY <1>5, WrongIs DEF OneWrong
  <2>4. odd => Doubtful(d, r)
    BY <2>2 DEF Doubtful
  <2> QED BY <1>4, <1>10, <1>11, <2>2, <2>3, <2>4, Zenon
<1>14. CASE \E v \in Flipped(us) : r = [us |-> v, holds |-> codes, heard |-> "oddly"]
  <2>1. PICK v \in Flipped(us) : r = [us |-> v, holds |-> codes, heard |-> "oddly"]
    BY <1>14
  <2>2. r.us = v /\ r.heard = "oddly" /\ v \in Seq(Int)
    BY <1>5, <2>1, FlippedIs
  <2>3. Doubtful(d, r)
    BY <2>2 DEF Doubtful
  <2> QED BY <1>4, <1>10, <2>2, <2>3
<1> QED BY <1>4, <1>9, <1>12, <1>13, <1>14, Zenon

RecordOf(r, v, us, codes) ==
  /\ v = us \/ v \in Wrong(us)
  /\ r.us = v /\ r.holds = codes /\ r.heard \in {"well", "badly"}
  /\ r.heard = "well" => v = us

LEMMA XmpFinds ==
  ASSUME NEW h1 \in Halves, NEW h2 \in Halves, NEW d,
         NEW r \in Heard(Xmp(h1, h2), <<h1, h2>>, FALSE)
  PROVE  r = Silent \/ Finds(d, r, <<h1, h2>>)
<1>1. PICK x : x = Xmp(h1, h2)
  OBVIOUS
<1>2. PICK codes : codes = <<h1, h2>> /\ codes[1] = h1 /\ codes[2] = h2 /\ Len(codes) = 2
  OBVIOUS
<1>3. h1 # NoCode /\ h2 # NoCode
  BY CodesAre
<1>4. \/ r = Silent \/ r = [us |-> x, holds |-> codes, heard |-> "well"]
      \/ \E v \in Wrong(x) : r = [us |-> v, holds |-> codes, heard |-> "badly"]
  BY <1>1, <1>2 DEF Heard
<1>5. x \in Seq(Int) /\ Len(x) = XmpLen
  BY <1>1, HalvesAre, XmpIs
<1>6. ASSUME NEW v, RecordOf(r, v, x, codes) PROVE Finds(d, r, codes)
  <2>1. v \in Seq(Int)
    <3>1. v = x \/ v \in Wrong(x)
      BY <1>6, Zenon DEF RecordOf
    <3> QED BY <1>5, <3>1, WrongIs DEF OneWrong
  <2>2. /\ Len(v) = XmpLen /\ decode_rstep(v) = NoCode
        /\ decode_xmp(v)[1] \in {h1, NoCode} /\ decode_xmp(v)[2] \in {h2, NoCode}
        /\ v = x => decode_xmp(v)[1] = h1 /\ decode_xmp(v)[2] = h2
    <3>1. v = x \/ v \in Wrong(x)
      BY <1>6, Zenon DEF RecordOf
    <3> QED BY <1>1, <3>1, XmpHeard
  <2>3. AsRead(d, r.us) = v
    BY <1>6, <2>1, <2>2, FixedWhole DEF AsRead, RecordOf
  <2>4. FirstCode(v) = decode_xmp(v)[1] /\ SecondCode(v) = decode_xmp(v)[2]
    BY <2>2, Zenon DEF FirstCode, SecondCode
  <2>5. ~Doubtful(d, r)
    <3>1. ~CutOff(d, v)
      BY <2>2, Numbers DEF CutOff, XmpLen
    <3> QED BY <1>2, <1>6, <3>1 DEF Doubtful, RecordOf
  <2>6. Len(v) \in Nat
    BY <2>1
  <2> QED BY <1>2, <1>6, <2>2, <2>3, <2>4, <2>5, <2>6 DEF Finds, RecordOf
<1>7. CASE r = [us |-> x, holds |-> codes, heard |-> "well"]
  <2>1. RecordOf(r, x, x, codes)
    BY <1>7 DEF RecordOf
  <2> QED BY <1>2, <1>6, <2>1, Zenon
<1>8. CASE \E v \in Wrong(x) : r = [us |-> v, holds |-> codes, heard |-> "badly"]
  <2>1. PICK v \in Wrong(x) : r = [us |-> v, holds |-> codes, heard |-> "badly"]
    BY <1>8
  <2>2. RecordOf(r, v, x, codes)
    BY <2>1 DEF RecordOf
  <2> QED BY <1>2, <1>6, <2>2, Zenon
<1> QED BY <1>2, <1>4, <1>7, <1>8, Zenon

-----------------------------------------------------------------------------
(* Infrared codes: the passes and the ring.                                *)

LEMMA FramesAre ==
  ASSUME NEW f \in Frames
  PROVE  /\ f \in Seq(IrCodes) /\ Len(f) \in {1, 2}
         /\ f[1] \in IrCodes /\ (Len(f) > 1 => f[2] \in IrCodes)
<1>1. CASE \E w \in Words : f = <<w>>
  <2>1. PICK w \in IrCodes : f = <<w>>
    BY <1>1, CodesAre, Zenon
  <2> QED BY <2>1
<1>2. CASE \E h1, h2 \in Halves : f = <<h1, h2>>
  <2>1. PICK h1, h2 \in IrCodes : f = <<h1, h2>>
    BY <1>2, CodesAre, Zenon
  <2> QED BY <2>1
<1>3. (\E w \in Words : f = <<w>>) \/ (\E h1, h2 \in Halves : f = <<h1, h2>>)
  BY DEF Frames
<1> QED BY <1>1, <1>2, <1>3, Zenon

(* The codes in the ring, in the order in which they were sent, but for the*)
(* ones of doubtful records.                                               *)
InFrame(A, k, c) == \E n \in DOMAIN A[k] : A[k][n] = c
Stems(M, A, k, c) == c \in M \/ InFrame(A, k, c)
InOrderOf(q, low, A, f, M) ==
  /\ f \in [1..Len(q) -> low..Len(A)]
  /\ \A i \in 1..Len(q) : Stems(M, A, f[i], q[i])
  /\ \A i, j \in 1..Len(q) : i <= j => f[i] <= f[j]
Traced(q, low, A, M) == \E f : InOrderOf(q, low, A, f, M)

(* The ring keeps that order when it is empty, when the code sent last is  *)
(* put behind the others, when the first is taken, and when more is sent.  *)
LEMMA TracedEmpty ==
  ASSUME NEW q, q = << >>, NEW low \in Nat, NEW A, NEW M, Len(A) \in Nat
  PROVE  Traced(q, low, A, M)
<1> PICK L \in Nat : L = Len(A)
  OBVIOUS
<1> DEFINE f == [i \in 1..0 |-> low]
<1>1. Len(q) = 0 /\ 1..0 = {}
  OBVIOUS
<1>2. f \in [1..0 -> low..L]
  BY <1>1
<1> HIDE DEF f
<1>3. InOrderOf(q, low, A, f, M)
  BY <1>1, <1>2 DEF InOrderOf
<1> QED BY <1>3, Zenon DEF Traced

LEMMA TracedMore ==
  ASSUME NEW S, NEW q \in Seq(S), NEW c \in S, NEW low \in Nat, NEW A, NEW M,
         NEW L \in Nat, L = Len(A), low <= L, Stems(M, A, L, c), Traced(q, low, A, M)
  PROVE  Traced(Append(q, c), low, A, M)
<1>1. PICK f : InOrderOf(q, low, A, f, M)
  BY Zenon DEF Traced
<1> PICK N \in Nat : N = Len(q)
  OBVIOUS
<1>2. f \in [1..N -> low..L]
  BY <1>1 DEF InOrderOf
<1> DEFINE g == [i \in 1..(N + 1) |-> IF i = N + 1 THEN L ELSE f[i]]
<1>3. g \in [1..(N + 1) -> low..L]
  BY <1>2
<1>4. g[N + 1] = L /\ \A i \in 1..N : g[i] = f[i]
  OBVIOUS
<1> HIDE DEF g
<1>5. Len(Append(q, c)) = N + 1 /\ Append(q, c)[N + 1] = c
      /\ \A i \in 1..N : Append(q, c)[i] = q[i]
  OBVIOUS
<1>6. ASSUME NEW i \in 1..(N + 1) PROVE Stems(M, A, g[i], Append(q, c)[i])
  <2>1. CASE i = N + 1
    BY <1>4, <1>5, <2>1, Zenon
  <2>2. CASE i # N + 1
    <3>1. i \in 1..N
      BY <2>2
    <3>2. Stems(M, A, f[i], q[i])
      BY <1>1, <3>1 DEF InOrderOf
    <3> QED BY <1>4, <1>5, <3>1, <3>2, Zenon
  <2> QED BY <2>1, <2>2
<1>7. \A i, j \in 1..N : i <= j => f[i] <= f[j]
  BY <1>1 DEF InOrderOf
<1>8. ASSUME NEW i \in 1..(N + 1), NEW j \in 1..(N + 1), i <= j PROVE g[i] <= g[j]
  <2>1. CASE j = N + 1
    BY <1>3, <1>4, <2>1
  <2>2. CASE j # N + 1
    BY <1>4, <1>7, <1>8, <2>2
  <2> QED BY <2>1, <2>2
<1>9. InOrderOf(Append(q, c), low, A, g, M)
  BY <1>3, <1>5, <1>6, <1>8 DEF InOrderOf
<1> QED BY <1>9, Zenon DEF Traced

LEMMA TracedTail ==
  ASSUME NEW S, NEW q \in Seq(S), q # << >>, NEW low \in Nat, NEW A, NEW M,
         NEW L \in Nat, L = Len(A), Traced(q, low, A, M)
  PROVE  \E k \in low..L : /\ Stems(M, A, k, Head(q))
                           /\ \A l \in low..k : Traced(Tail(q), l, A, M)
<1>1. PICK f : InOrderOf(q, low, A, f, M)
  BY Zenon DEF Traced
<1> PICK N \in Nat \ {0} : N = Len(q)
  OBVIOUS
<1>2. f \in [1..N -> low..L] /\ \A i, j \in 1..N : i <= j => f[i] <= f[j]
  BY <1>1 DEF InOrderOf
<1>3. PICK k \in low..L : k = f[1]
  BY <1>2
<1>4. Stems(M, A, k, Head(q))
  <2>1. 1 \in 1..Len(q) /\ q[1] = Head(q)
    OBVIOUS
  <2>2. Stems(M, A, f[1], q[1])
    BY <1>1, <2>1, Zenon DEF InOrderOf
  <2> QED BY <1>3, <2>1, <2>2, Zenon
<1>5. ASSUME NEW l \in low..k PROVE Traced(Tail(q), l, A, M)
  <2> DEFINE g == [i \in 1..(N - 1) |-> f[i + 1]]
  <2>1. \A i \in 1..N : f[i] \in l..L
    BY <1>2, <1>3
  <2>2. g \in [1..(N - 1) -> l..L]
    BY <2>1
  <2>3. \A i \in 1..(N - 1) : g[i] = f[i + 1] /\ Tail(q)[i] = q[i + 1]
    OBVIOUS
  <2>4. Len(Tail(q)) = N - 1
    OBVIOUS
  <2> HIDE DEF g
  <2>5. ASSUME NEW i \in 1..(N - 1) PROVE Stems(M, A, g[i], Tail(q)[i])
    <3>1. i + 1 \in 1..Len(q)
      OBVIOUS
    <3>2. Stems(M, A, f[i + 1], q[i + 1])
      BY <1>1, <3>1, Zenon DEF InOrderOf
    <3> QED BY <2>3, <3>2, Zenon
  <2>6. \A i, j \in 1..(N - 1) : i <= j => g[i] <= g[j]
    BY <1>2, <2>3
  <2>7. InOrderOf(Tail(q), l, A, g, M)
    BY <2>2, <2>4, <2>5, <2>6 DEF InOrderOf
  <2> QED BY <2>7, Zenon DEF Traced
<1> QED BY <1>4, <1>5

LEMMA TracedLater ==
  ASSUME NEW S, NEW q \in Seq(S), NEW low \in Nat \ {0}, NEW F, NEW A \in Seq(F), NEW b \in F, NEW M,
         Traced(q, low, A, M)
  PROVE  Traced(q, low, Append(A, b), M)
<1>1. PICK f : InOrderOf(q, low, A, f, M)
  BY Zenon DEF Traced
<1> PICK N \in Nat : N = Len(q)
  OBVIOUS
<1> PICK L \in Nat : L = Len(A)
  OBVIOUS
<1> DEFINE B == Append(A, b)
<1>2. Len(B) = L + 1 /\ \A k \in 1..L : B[k] = A[k]
  OBVIOUS
<1> HIDE DEF B
<1>3. f \in [1..N -> low..L] /\ \A i, j \in 1..N : i <= j => f[i] <= f[j]
  BY <1>1 DEF InOrderOf
<1>4. f \in [1..N -> low..(L + 1)]
  BY <1>3
<1>5. ASSUME NEW i \in 1..N PROVE Stems(M, B, f[i], q[i])
  <2>1. Stems(M, A, f[i], q[i])
    BY <1>1 DEF InOrderOf
  <2>2. f[i] \in 1..L
    BY <1>3
  <2> QED BY <1>2, <2>1, <2>2 DEF Stems, InFrame
<1>6. InOrderOf(q, low, B, f, M)
  BY <1>2, <1>3, <1>4, <1>5 DEF InOrderOf
<1> QED BY <1>6, Zenon DEF Traced, B


LEMMA TracedMistaken ==
  ASSUME NEW q, NEW low, NEW A, NEW M, NEW N, M \subseteq N, Traced(q, low, A, M)
  PROVE  Traced(q, low, A, N)
<1>1. PICK f : InOrderOf(q, low, A, f, M)
  BY Zenon DEF Traced
<1>2. InOrderOf(q, low, A, f, N)
  BY <1>1 DEF InOrderOf, Stems
<1> QED BY <1>2, Zenon DEF Traced

-----------------------------------------------------------------------------
(* Infrared codes: the invariant.                                          *)

(* What one code left: until two passes have ended after it was sent.      *)
Last(A) == A[Len(A)]
Fed(A, wait) == wait > 0 /\ Len(A) > 0
RecordOK(r, d, A, wait, next) ==
  r = Silent \/ (Fed(A, wait) /\ (wait = 1 => d >= next) /\ Finds(d, r, Last(A)))
FoundOK(code1, code2, f, A, wait, M) ==
  /\ code1 = NoCode \/ (Fed(A, wait) /\ (code1 \in M \/ code1 = Last(A)[1]))
  /\ \/ code2 = NoCode
     \/ /\ Fed(A, wait)
        /\ code2 \in M \/ (Len(Last(A)) > 1 /\ code2 = Last(A)[2])
  /\ \/ f = << >>
     \/ /\ Fed(A, wait) /\ f = Last(A) /\ (code1 \in M \/ code1 = Last(A)[1])
        /\ Len(Last(A)) > 1 => code2 = Last(A)[2]

AiredOK == aired \in Seq(Frames) /\ Len(aired) <= MaxFrames
RecordsOK ==
  /\ DOMAIN record = 1..Receivers
  /\ \A d \in 1..Receivers : RecordOK(record[d], d, aired, rest, at_ir)
PassOK ==
  /\ at_ir \in 1..(Receivers + 1) /\ rest \in 0..2 /\ mistaken \subseteq IrCodes
  /\ FoundOK(c1, c2, found, aired, rest, mistaken)
RingOK ==
  /\ latest \in Nat \ {0} /\ (latest = 1 \/ latest <= Len(aired))
  /\ cmd \in Seq(IrCodes) /\ Len(cmd) < MAX_CMDS /\ Traced(cmd, latest, aired, mistaken)
  /\ astray = FALSE
IrInv == AiredOK /\ RecordsOK /\ PassOK /\ RingOK

LEMMA IrInitial == IrInit => IrInv
<1> SUFFICES ASSUME IrInit PROVE IrInv
  OBVIOUS
<1>1. AiredOK
  BY Numbers DEF IrInit, AiredOK
<1>2. RecordsOK
  <2>1. DOMAIN record = 1..Receivers /\ \A d \in 1..Receivers : record[d] = Silent
    BY Zenon DEF IrInit
  <2> QED BY <2>1, Zenon DEF RecordsOK, RecordOK
<1>3. PassOK
  BY Numbers DEF IrInit, PassOK, FoundOK
<1>4. RingOK
  <2>1. latest = 1 /\ cmd = << >> /\ aired = << >> /\ astray = FALSE
    BY DEF IrInit
  <2>2. Traced(cmd, latest, aired, mistaken)
    BY <2>1, TracedEmpty
  <2> QED BY <2>1, <2>2, Numbers DEF RingOK
<1> QED BY <1>1, <1>2, <1>3, <1>4 DEF IrInv

(* A code is sent when nothing is left of the one before.                  *)
LEMMA IrSent ==
  ASSUME IrInv, NEW us, NEW codes \in Frames, NEW odd, Send(us, codes, odd),
         \A d : \A r \in Heard(us, codes, odd) : r = Silent \/ Finds(d, r, codes)
  PROVE  IrInv'
<1> PICK L \in Nat : L = Len(aired)
  BY DEF IrInv, AiredOK
<1>1. /\ rest = 0 /\ rest' = 2 /\ L < MaxFrames /\ aired' = Append(aired, codes)
      /\ record' \in [1..Receivers -> Heard(us, codes, odd)]
      /\ UNCHANGED <<at_ir, c1, c2, cmd, found, mistaken, latest, astray>>
  BY DEF Send
<1>2. aired \in Seq(Frames)
  BY DEF IrInv, AiredOK
<1>3. aired' \in Seq(Frames) /\ Len(aired') = L + 1 /\ Last(aired') = codes
  BY <1>1, <1>2 DEF Last
<1>4. AiredOK'
  BY <1>1, <1>3, Numbers DEF AiredOK
<1>5. Fed(aired', rest') /\ rest' # 1
  BY <1>1, <1>3 DEF Fed
<1>6. RecordsOK'
  <2>1. \A d \in 1..Receivers : record'[d] = Silent \/ Finds(d, record'[d], codes)
    BY <1>1
  <2>2. DOMAIN record' = 1..Receivers
    BY <1>1
  <2>3. ASSUME NEW d \in 1..Receivers
        PROVE  RecordOK(record'[d], d, aired', rest', at_ir')
    BY <1>3, <1>5, <2>1, Zenon DEF RecordOK
  <2> QED BY <2>2, <2>3, Zenon DEF RecordsOK
<1>7. PassOK'
  <2>1. c1 = NoCode /\ c2 = NoCode /\ found = << >>
    BY <1>1 DEF IrInv, PassOK, FoundOK, Fed
  <2>2. FoundOK(c1', c2', found', aired', rest', mistaken')
    BY <1>1, <2>1, Zenon DEF FoundOK
  <2>3. at_ir' \in 1..(Receivers + 1) /\ rest' \in 0..2 /\ mistaken' \subseteq IrCodes
    BY <1>1 DEF IrInv, PassOK
  <2> QED BY <2>2, <2>3 DEF PassOK
<1>8. RingOK'
  <2>1. /\ latest \in Nat \ {0} /\ (latest = 1 \/ latest <= L)
        /\ cmd \in Seq(IrCodes) /\ Len(cmd) < MAX_CMDS /\ Traced(cmd, latest, aired, mistaken)
        /\ astray = FALSE
    BY DEF IrInv, RingOK
  <2>2. Traced(cmd, latest, aired', mistaken)
    BY <1>1, <1>2, <2>1, TracedLater
  <2>3. latest = 1 \/ latest <= L + 1
    BY <2>1
  <2>4. /\ latest' = latest /\ cmd' = cmd /\ astray' = astray /\ mistaken' = mistaken
    BY <1>1
  <2> QED BY <1>3, <2>1, <2>2, <2>3, <2>4 DEF RingOK
<1> QED BY <1>4, <1>6, <1>7, <1>8 DEF IrInv

(* A display is asked: what it finds is added to what the pass has found.  *)
LEMMA IrAsked == ASSUME IrInv, Ask_ir PROVE IrInv'
<1> DEFINE r == record[at_ir]
           us == AsRead(at_ir, r.us)
           first == FirstCode(us)
           second == SecondCode(us)
           odd == Doubtful(at_ir, r)
<1>1. /\ at_ir <= Receivers /\ at_ir' = at_ir + 1
      /\ record' = [record EXCEPT ![at_ir] = Silent]
      /\ UNCHANGED <<cmd, aired, latest, astray, rest>>
  BY DEF Ask_ir
<1>2. c1' = Else(first, c1) /\ c2' = Else(second, c2)
  BY Zenon DEF Ask_ir
<1>3. /\ found' = (IF r.heard = "well" /\ ~odd THEN r.holds ELSE found)
      /\ mistaken' = (IF odd THEN mistaken \cup ({first, second} \ {NoCode}) ELSE mistaken)
  BY Zenon DEF Ask_ir
<1>4. at_ir \in 1..Receivers /\ at_ir' \in 1..(Receivers + 1) /\ Receivers \in Nat
  BY <1>1, Numbers DEF IrInv, PassOK
<1>5. RecordOK(r, at_ir, aired, rest, at_ir)
  BY <1>4 DEF IrInv, RecordsOK
<1>10. r = Silent => first = NoCode /\ second = NoCode /\ ~odd /\ r.heard # "well"
  <2>1. ASSUME r = Silent PROVE us = AsRead(at_ir, Silent.us) /\ odd = Doubtful(at_ir, Silent)
    BY <2>1
  <2> QED BY <2>1, SilentRead, Zenon
<1>11. r # Silent => /\ Fed(aired, rest)
                     /\ Finds(at_ir, r, Last(aired))
  BY <1>5, Zenon DEF RecordOK
<1>12. r # Silent =>
         LET last == Last(aired) IN
         /\ Len(us) \in Nat
         /\ odd => Len(last) = 1
         /\ ~odd =>
              /\ first \in {NoCode, last[1]}
              /\ second = NoCode \/ (Len(last) > 1 /\ second = last[2])
              /\ r.heard = "well" =>
                   /\ r.holds = last /\ first = last[1]
                   /\ Len(last) > 1 => second = last[2]
  BY <1>11, Zenon DEF Finds
<1>13. r # Silent => first \in IrCodes \cup {NoCode} /\ second \in IrCodes \cup {NoCode}
  <2>1. ASSUME NEW v, Len(v) \in Nat
        PROVE  FirstCode(v) \in IrCodes \cup {NoCode} /\ SecondCode(v) \in IrCodes \cup {NoCode}
    BY <2>1, ReadTyped
  <2> QED BY <1>12, <2>1, Zenon
<1> HIDE DEF r, us, first, second, odd
<1>6. AiredOK'
  BY <1>1 DEF IrInv, AiredOK
<1>14. mistaken \subseteq mistaken' /\ mistaken' \subseteq IrCodes
  <2>1. mistaken \subseteq IrCodes
    BY DEF IrInv, PassOK
  <2>2. odd => first \in IrCodes \cup {NoCode} /\ second \in IrCodes \cup {NoCode}
    BY <1>10, <1>13
  <2> QED BY <1>3, <2>1, <2>2
<1>7. RingOK'
  <2>1. Traced(cmd, latest, aired, mistaken)
    BY DEF IrInv, RingOK
  <2>2. Traced(cmd, latest, aired, mistaken')
    BY <1>14, <2>1, TracedMistaken
  <2> QED BY <1>1, <2>2 DEF IrInv, RingOK
<1>8. RecordsOK'
  <2>1. DOMAIN record = 1..Receivers
    BY DEF IrInv, RecordsOK
  <2>2. DOMAIN record' = 1..Receivers
    BY <1>1, <2>1
  <2>3. ASSUME NEW d \in 1..Receivers
        PROVE  RecordOK(record'[d], d, aired', rest', at_ir')
    <3>1. CASE d = at_ir
      <4>1. record'[d] = Silent
        BY <1>1, <2>1, <3>1
      <4> QED BY <4>1, Zenon DEF RecordOK
    <3>2. CASE d # at_ir
      <4>1. record'[d] = record[d]
        BY <1>1, <2>1, <3>2
      <4>2. RecordOK(record[d], d, aired, rest, at_ir)
        BY DEF IrInv, RecordsOK
      <4>3. d >= at_ir => d >= at_ir'
        BY <1>1, <1>4, <3>2
      <4>4. aired' = aired /\ rest' = rest
        BY <1>1
      <4> QED BY <4>1, <4>2, <4>3, <4>4 DEF RecordOK
    <3> QED BY <3>1, <3>2
  <2> QED BY <2>2, <2>3, Zenon DEF RecordsOK
<1>9. PassOK'
  <2>1. FoundOK(c1, c2, found, aired, rest, mistaken) /\ rest \in 0..2
    BY DEF IrInv, PassOK
  <2>2. FoundOK(c1', c2', found', aired, rest, mistaken')
    <3>1. CASE r = Silent
      <4>1. c1' = c1 /\ c2' = c2 /\ found' = found /\ mistaken' = mistaken
        BY <1>2, <1>3, <1>10, <3>1 DEF Else
      <4> QED BY <2>1, <4>1, Zenon
    <3>2. CASE r # Silent
      <4>2. PICK last, one, two : last = Last(aired) /\ one = last[1] /\ two = last[2]
        OBVIOUS
      <4>1. Fed(aired, rest) /\ Len(last) \in {1, 2} /\ one # NoCode /\ (Len(last) > 1 => two # NoCode)
        <5>1. Fed(aired, rest) /\ Len(aired) > 0 /\ aired \in Seq(Frames)
          BY <1>11, <3>2 DEF Fed, IrInv, AiredOK
        <5>2. Last(aired) \in Frames
          BY <5>1 DEF Last
        <5> QED BY <4>2, <5>1, <5>2, FramesAre, CodesAre, Zenon
      <4>4. /\ c1 = NoCode \/ c1 \in mistaken \/ c1 = one
            /\ c2 = NoCode \/ c2 \in mistaken \/ (Len(last) > 1 /\ c2 = two)
            /\ \/ found = << >>
               \/ /\ found = last /\ (c1 \in mistaken \/ c1 = one)
                  /\ Len(last) > 1 => c2 = two
        BY <2>1, <4>2, Zenon DEF FoundOK
      <4>5. ASSUME odd
            PROVE  /\ c1' = NoCode \/ c1' \in mistaken' \/ c1' = one
                   /\ c2' = NoCode \/ c2' \in mistaken' \/ (Len(last) > 1 /\ c2' = two)
                   /\ \/ found' = << >>
                      \/ /\ found' = last /\ (c1' \in mistaken' \/ c1' = one)
                         /\ Len(last) > 1 => c2' = two
        <5>1. ~(Len(last) > 1)
          <6>1. Len(last) = 1
            BY <1>12, <3>2, <4>2, <4>5, Zenon
          <6> QED BY <6>1
        <5>2. found' = found
          BY <1>3, <4>5
        <5>3. /\ first = NoCode \/ first \in mistaken'
              /\ second = NoCode \/ second \in mistaken'
          BY <1>3, <4>5
        <5>4. /\ c1' = c1 \/ c1' \in mistaken'
              /\ c2' = c2 \/ c2' \in mistaken'
          BY <1>2, <5>3 DEF Else
        <5> QED BY <1>14, <4>4, <5>1, <5>2, <5>4
      <4>6. ASSUME ~odd
            PROVE  /\ c1' = NoCode \/ c1' \in mistaken' \/ c1' = one
                   /\ c2' = NoCode \/ c2' \in mistaken' \/ (Len(last) > 1 /\ c2' = two)
                   /\ \/ found' = << >>
                      \/ /\ found' = last /\ (c1' \in mistaken' \/ c1' = one)
                         /\ Len(last) > 1 => c2' = two
        <5>1. /\ first \in {NoCode, one}
              /\ second = NoCode \/ (Len(last) > 1 /\ second = two)
              /\ r.heard = "well" => /\ r.holds = last /\ first = one
                                     /\ Len(last) > 1 => second = two
          BY <1>12, <3>2, <4>2, <4>6, Zenon
        <5>2. mistaken' = mistaken
          BY <1>3, <4>6
        <5>3. CASE r.heard = "well"
          <6>1. found' = last /\ c1' = one /\ (Len(last) > 1 => c2' = two)
            BY <1>2, <1>3, <4>1, <4>6, <5>1, <5>3 DEF Else
          <6>2. c2' = NoCode \/ c2' \in mistaken' \/ (Len(last) > 1 /\ c2' = two)
            BY <1>2, <4>4, <5>1, <5>2 DEF Else
          <6> QED BY <6>1, <6>2
        <5>4. CASE r.heard # "well"
          <6>1. found' = found
            BY <1>3, <5>4
          <6>2. c1' = c1 \/ c1' = one
            BY <1>2, <5>1 DEF Else
          <6>3. c2' = c2 \/ (Len(last) > 1 /\ c2' = two)
            BY <1>2, <5>1 DEF Else
          <6> QED BY <4>4, <5>2, <6>1, <6>2, <6>3
        <5> QED BY <5>3, <5>4
      <4> QED BY <4>1, <4>2, <4>5, <4>6, Zenon DEF FoundOK
    <3> QED BY <3>1, <3>2
  <2> QED BY <1>1, <1>4, <1>14, <2>1, <2>2 DEF PassOK
<1> QED BY <1>6, <1>7, <1>8, <1>9 DEF IrInv

-----------------------------------------------------------------------------
(* Infrared codes: what is handed out.                                     *)

(* Put adds a code of the last frame at the end, or empties a full ring.   *)
LEMMA PutKeeps ==
  ASSUME NEW q \in Seq(IrCodes), Len(q) < MAX_CMDS, NEW c, NEW low \in Nat \ {0},
         NEW A, NEW M, NEW L \in Nat, L = Len(A), low = 1 \/ low <= L, Traced(q, low, A, M),
         c = NoCode \/ (L > 0 /\ c \in IrCodes /\ Stems(M, A, L, c))
  PROVE  /\ Put(q, c) \in Seq(IrCodes) /\ Len(Put(q, c)) < MAX_CMDS
         /\ Traced(Put(q, c), low, A, M)
<1>1. CASE ~IsCode(c)
  BY <1>1 DEF Put
<1>2. CASE IsCode(c) /\ Len(q) = MAX_CMDS - 1
  <2>1. Put(q, c) = << >>
    BY <1>2 DEF Put
  <2>2. << >> \in Seq(IrCodes) /\ Len(<< >>) < MAX_CMDS
    BY Numbers
  <2>3. Traced(Put(q, c), low, A, M)
    BY <2>1, TracedEmpty
  <2> QED BY <2>1, <2>2, <2>3
<1>3. CASE IsCode(c) /\ Len(q) # MAX_CMDS - 1
  <2>1. Put(q, c) = Append(q, c)
    BY <1>3 DEF Put
  <2>2. c # NoCode
    <3>1. DOMAIN NoCode = {}
      BY DEF NoCode
    <3> QED BY <1>3, <3>1 DEF IsCode
  <2>3. c \in IrCodes /\ Stems(M, A, L, c) /\ low <= L
    BY <2>2
  <2>4. Append(q, c) \in Seq(IrCodes) /\ Len(Append(q, c)) < MAX_CMDS
    BY <1>3, <2>3, Numbers
  <2>5. Traced(Append(q, c), low, A, M)
    BY <2>3, TracedMore
  <2> QED BY <2>1, <2>4, <2>5
<1> QED BY <1>1, <1>2, <1>3

(* A set of numbers has a least one, which is the one that is chosen.      *)
LEMMA LeastIs ==
  ASSUME NEW S \in SUBSET Nat, NEW k \in S
  PROVE  LET m == CHOOSE i \in S : \A j \in S : i <= j IN m \in S /\ m <= k
<1>1. PICK i \in S : \A j \in S : i <= j
  <2> DEFINE R == OpToRel(<, Nat)
  <2>1. \A i, j \in Nat : <<j, i>> \in R <=> j < i
    BY DEF OpToRel
  <2>2. IsWellFoundedOn(R, Nat)
    BY NatLessThanWellFounded, Zenon
  <2> HIDE DEF R
  <2>3. S \subseteq Nat /\ S # {}
    OBVIOUS
  <2>4. PICK i \in S : \A j \in S : ~(<<j, i>> \in R)
    BY <2>2, <2>3, WFMin, Zenon
  <2>5. ASSUME NEW j \in S PROVE i <= j
    <3>1. i \in Nat /\ j \in Nat /\ ~(<<j, i>> \in R)
      BY <2>3, <2>4
    <3>2. ~(j < i)
      BY <2>1, <3>1
    <3> QED BY <3>1, <3>2
  <2> QED BY <2>5
<1> QED BY <1>1

(* A pass ends: the first code of the ring is handed out.                  *)
LEMMA IrPassed == ASSUME IrInv, EndOfPass PROVE IrInv'
<1> DEFINE q == Put(Put(cmd, c1), c2)
<1>1. /\ at_ir > Receivers /\ at_ir' = 1
      /\ c1' = NoCode /\ c2' = NoCode /\ found' = << >>
      /\ rest' = (IF rest > 0 THEN rest - 1 ELSE 0)
      /\ UNCHANGED <<record, mistaken, aired>>
  BY DEF EndOfPass
<1>2. IF q = << >> THEN cmd' = q /\ UNCHANGED <<latest, astray>>
      ELSE /\ cmd' = Tail(q)
           /\ astray' = (astray \/ (Head(q) \notin mistaken /\ Place(Head(q)) = {}))
           /\ latest' = IF Head(q) \in mistaken \/ Place(Head(q)) = {} THEN latest
                     ELSE CHOOSE k \in Place(Head(q)) : \A j \in Place(Head(q)) : k <= j
  BY DEF EndOfPass
<1>3. aired \in Seq(Frames) /\ Len(aired) <= MaxFrames
  BY DEF IrInv, AiredOK
<1> PICK L \in Nat : L = Len(aired)
  BY <1>3
<1>4. /\ latest \in Nat \ {0} /\ (latest = 1 \/ latest <= L)
      /\ cmd \in Seq(IrCodes) /\ Len(cmd) < MAX_CMDS /\ Traced(cmd, latest, aired, mistaken)
      /\ astray = FALSE
  BY DEF IrInv, RingOK
<1>5. /\ c1 = NoCode \/ (L > 0 /\ c1 \in IrCodes /\ Stems(mistaken, aired, L, c1))
      /\ c2 = NoCode \/ (L > 0 /\ c2 \in IrCodes /\ Stems(mistaken, aired, L, c2))
  <2>1. /\ mistaken \subseteq IrCodes
        /\ c1 = NoCode \/ (L > 0 /\ (c1 \in mistaken \/ c1 = aired[L][1]))
        /\ \/ c2 = NoCode
           \/ L > 0 /\ (c2 \in mistaken \/ (Len(aired[L]) > 1 /\ c2 = aired[L][2]))
    BY DEF IrInv, PassOK, FoundOK, Fed, Last
  <2>2. CASE L = 0
    BY <2>1, <2>2
  <2>3. CASE L > 0
    <3>1. aired[L] \in Frames
      BY <1>3, <2>3
    <3>2. PICK f \in Frames : f = aired[L]
      BY <3>1
    <3>3. /\ f \in Seq(IrCodes) /\ Len(f) \in {1, 2}
          /\ f[1] \in IrCodes /\ (Len(f) > 1 => f[2] \in IrCodes)
      BY FramesAre
    <3>4. 1 \in DOMAIN f /\ (Len(f) > 1 => 2 \in DOMAIN f)
      BY <3>3
    <3>5. c1 = NoCode \/ (c1 \in IrCodes /\ Stems(mistaken, aired, L, c1))
      BY <2>1, <3>2, <3>3, <3>4, Zenon DEF Stems, InFrame
    <3>6. c2 = NoCode \/ (c2 \in IrCodes /\ Stems(mistaken, aired, L, c2))
      BY <2>1, <3>2, <3>3, <3>4, Zenon DEF Stems, InFrame
    <3> QED BY <2>3, <3>5, <3>6
  <2> QED BY <2>2, <2>3
<1>6. q \in Seq(IrCodes) /\ Len(q) < MAX_CMDS /\ Traced(q, latest, aired, mistaken)
  <2>1. PICK p : p = Put(cmd, c1)
    OBVIOUS
  <2>2. p \in Seq(IrCodes) /\ Len(p) < MAX_CMDS /\ Traced(p, latest, aired, mistaken)
    BY <1>4, <1>5, <2>1, PutKeeps
  <2>3. Put(p, c2) \in Seq(IrCodes) /\ Len(Put(p, c2)) < MAX_CMDS /\ Traced(Put(p, c2), latest, aired, mistaken)
    BY <1>4, <1>5, <2>2, PutKeeps
  <2> QED BY <2>1, <2>3
<1> HIDE DEF q
<1>7. RingOK'
  <2>1. CASE q = << >>
    <3>1. /\ cmd' = q /\ latest' = latest /\ astray' = astray
          /\ aired' = aired /\ mistaken' = mistaken
      BY <1>1, <1>2, <2>1
    <3> QED BY <1>4, <1>6, <3>1 DEF RingOK
  <2>2. CASE q # << >>
    <3>1. PICK k \in latest..L : /\ Stems(mistaken, aired, k, Head(q))
                                 /\ \A l \in latest..k : Traced(Tail(q), l, aired, mistaken)
      BY <1>4, <1>6, <2>2, TracedTail
    <3>2. Tail(q) \in Seq(IrCodes) /\ Len(Tail(q)) < MAX_CMDS
      BY <1>6, <2>2, Numbers
    <3>3. cmd' = Tail(q) /\ aired' = aired /\ mistaken' = mistaken
      BY <1>1, <1>2, <2>2
    <3>4. CASE Head(q) \in mistaken
      <4>1. astray' = astray /\ latest' = latest
        BY <1>2, <1>4, <2>2, <3>4
      <4>2. Traced(Tail(q), latest, aired, mistaken)
        BY <1>4, <3>1
      <4> QED BY <1>4, <3>2, <3>3, <4>1, <4>2 DEF RingOK
    <3>5. CASE Head(q) \notin mistaken
      <4> PICK S : S = Place(Head(q))
        OBVIOUS
      <4>2. k \in S /\ S \subseteq latest..L
        BY <3>1, <3>5 DEF Place, InFrame, Stems
      <4>3. S \in SUBSET Nat
        BY <1>4, <4>2
      <4>4. PICK m : m = CHOOSE i \in S : \A j \in S : i <= j
        OBVIOUS
      <4>5. m \in S /\ m <= k
        BY <4>2, <4>3, <4>4, LeastIs
      <4>6. m \in latest..k /\ m \in Nat \ {0} /\ m <= L
        BY <1>4, <3>1, <4>2, <4>5
      <4>7. astray' = astray /\ latest' = m
        BY <1>1, <1>2, <1>4, <2>2, <3>5, <4>2, <4>4
      <4>9. Traced(Tail(q), m, aired, mistaken)
        BY <3>1, <4>6
      <4> QED BY <1>4, <3>2, <3>3, <4>6, <4>7, <4>9 DEF RingOK
    <3> QED BY <3>4, <3>5
  <2> QED BY <2>1, <2>2
<1>8. AiredOK'
  BY <1>1, <1>3 DEF AiredOK
<1>9. rest \in 0..2 /\ Receivers \in Nat \ {0}
  BY Numbers DEF IrInv, PassOK
<1>10. RecordsOK'
  <2>1. ASSUME NEW d \in 1..Receivers
        PROVE  RecordOK(record'[d], d, aired', rest', at_ir')
    <3>1. RecordOK(record[d], d, aired, rest, at_ir)
      BY DEF IrInv, RecordsOK
    <3>2. record'[d] = record[d] /\ aired' = aired
      BY <1>1
    <3>3. ~(d >= at_ir) /\ d >= at_ir'
      BY <1>1, <1>9 DEF IrInv, PassOK
    <3>4. rest > 0 /\ rest # 1 => rest' > 0
      BY <1>1, <1>9
    <3> QED BY <3>1, <3>2, <3>3, <3>4 DEF RecordOK, Fed
  <2>2. DOMAIN record' = 1..Receivers
    BY <1>1 DEF IrInv, RecordsOK
  <2> QED BY <2>1, <2>2, Zenon DEF RecordsOK
<1>11. PassOK'
  <2>1. FoundOK(c1', c2', found', aired', rest', mistaken')
    BY <1>1, Zenon DEF FoundOK
  <2>2. at_ir' \in 1..(Receivers + 1) /\ rest' \in 0..2 /\ mistaken' \subseteq IrCodes
    BY <1>1, <1>9 DEF IrInv, PassOK
  <2> QED BY <2>1, <2>2 DEF PassOK
<1> QED BY <1>7, <1>8, <1>10, <1>11 DEF IrInv

LEMMA IrStep == IrInv /\ [IrNext]_irVars => IrInv'
<1> SUFFICES ASSUME IrInv, [IrNext]_irVars PROVE IrInv'
  OBVIOUS
<1>1. CASE SendRstep
  <2>1. PICK w \in Words, n \in Noises \cup {<< >>} : Send(Noisy(n, w), <<w>>, Len(n) >= BITS)
    BY <1>1, Zenon DEF SendRstep
  <2>2. <<w>> \in Frames
    BY DEF Frames
  <2>3. \A d : \A r \in Heard(Noisy(n, w), <<w>>, Len(n) >= BITS) :
          r = Silent \/ Finds(d, r, <<w>>)
    BY RstepFinds
  <2> QED BY <2>1, <2>2, <2>3, IrSent, Zenon
<1>2. CASE SendXmp
  <2>1. PICK h1, h2 \in Halves : Send(Xmp(h1, h2), <<h1, h2>>, FALSE)
    BY <1>2, Zenon DEF SendXmp
  <2>2. <<h1, h2>> \in Frames
    BY DEF Frames
  <2>3. \A d : \A r \in Heard(Xmp(h1, h2), <<h1, h2>>, FALSE) :
          r = Silent \/ Finds(d, r, <<h1, h2>>)
    BY XmpFinds
  <2> QED BY <2>1, <2>2, <2>3, IrSent, Zenon
<1>3. CASE Ask_ir
  BY <1>3, IrAsked
<1>4. CASE EndOfPass
  BY <1>4, IrPassed
<1>5. CASE UNCHANGED irVars
  BY <1>5 DEF irVars, IrInv, AiredOK, RecordsOK, PassOK, RingOK
<1> QED BY <1>1, <1>2, <1>3, <1>4, <1>5 DEF IrNext

(* The invariant holds: nothing is left of a code once it has been asked   *)
(* for twice.                                                              *)
LEMMA IrInvariance == IrSpec => []IrInv
BY IrInitial, IrStep, PTL DEF IrSpec

LEMMA IrInvType == IrInv => IrTypeOK
<1> SUFFICES ASSUME IrInv PROVE IrTypeOK
  OBVIOUS
<1> PICK L \in Nat : L = Len(aired)
  BY DEF IrInv, AiredOK
<1>1. aired \in Seq(Frames) /\ L <= MaxFrames
  BY DEF IrInv, AiredOK
<1>2. aired \in Seq(Seq(IrCodes))
  <2>1. Frames \subseteq Seq(IrCodes)
    BY FramesAre
  <2> QED BY <1>1, <2>1
<1>3. {c1, c2} \subseteq IrCodes \cup {NoCode}
  <2>1. /\ mistaken \subseteq IrCodes
        /\ c1 = NoCode \/ (L > 0 /\ (c1 \in mistaken \/ c1 = aired[L][1]))
        /\ \/ c2 = NoCode
           \/ L > 0 /\ (c2 \in mistaken \/ (Len(aired[L]) > 1 /\ c2 = aired[L][2]))
    BY DEF IrInv, PassOK, FoundOK, Fed, Last
  <2>2. CASE L = 0
    BY <2>1, <2>2
  <2>3. CASE L > 0
    <3>1. PICK f \in Frames : f = aired[L]
      BY <1>1, <2>3
    <3>2. f[1] \in IrCodes /\ (Len(f) > 1 => f[2] \in IrCodes)
      BY FramesAre
    <3>3. c1 \in IrCodes \cup {NoCode} /\ c2 \in IrCodes \cup {NoCode}
      BY <2>1, <3>1, <3>2
    <3> QED BY <3>3
  <2> QED BY <2>2, <2>3
<1>4. at_ir \in 1..(Receivers + 1) /\ rest \in 0..2 /\ mistaken \subseteq IrCodes
  BY DEF IrInv, PassOK
<1>5. /\ latest \in Nat \ {0} /\ (latest = 1 \/ latest <= L)
      /\ cmd \in Seq(IrCodes) /\ Len(cmd) < MAX_CMDS /\ astray = FALSE
  BY DEF IrInv, RingOK
<1>6. latest \in 1..(MaxFrames + 1)
  BY <1>1, <1>5, Numbers
<1> QED BY <1>2, <1>3, <1>4, <1>5, <1>6 DEF IrTypeOK, IrCodes

(* Everything has a value of its type: the code that the displays' thread  *)
(* finds, and the ring, which never has more codes than it has places for. *)
THEOREM IrTypeInvariance == IrSpec => []IrTypeOK
BY IrInvariance, IrInvType, PTL

LEMMA IrInvHeard == IrInv => HeardAsSent
<1> SUFFICES ASSUME IrInv PROVE HeardAsSent
  OBVIOUS
<1>1. FoundOK(c1, c2, found, aired, rest, mistaken) /\ astray = FALSE
  BY DEF IrInv, PassOK, RingOK
<1>2. CASE found = << >>
  <2>1. Len(found) = 0
    BY <1>2
  <2> QED BY <1>1, <2>1 DEF HeardAsSent
<1>3. CASE found # << >>
  <2>1. (c1 \in mistaken \/ c1 = found[1]) /\ (Len(found) > 1 => c2 = found[2])
    BY <1>1, <1>3, Zenon DEF FoundOK
  <2> QED BY <1>1, <2>1 DEF HeardAsSent
<1> QED BY <1>2, <1>3

(* Whatever the numbers of bits and groups, the codes, the noise before    *)
(* them and the places of wrong lengths, with any displays old: one that   *)
(* hears a code well is enough, and what the ring hands out was sent, in   *)
(* the order of sending it, but for what was read from a doubtful record.  *)
THEOREM IrHeard == IrSpec => []HeardAsSent
BY IrInvariance, IrInvHeard, PTL
=============================================================================
