------------------------------- MODULE RbFan -------------------------------
(***************************************************************************)
(* The fans of the box (fan_control.c): every twenty seconds the thread    *)
(* reads two temperatures, smooths them, computes a speed for each of the  *)
(* fans and sends it to the front panel.  A speed is the length of a tick: *)
(* the smaller the number the faster the fan, and 16#7ff is off.           *)
(*                                                                         *)
(* A smoothed temperature is a double; here it is a whole number, rounded  *)
(* up or down.  The kind of mainboard does not change, and one thread runs.*)
(***************************************************************************)
EXTENDS Integers

CONSTANTS MbTypes,      \* the kinds of mainboard: 0 Intel, 1 AMD, 2 AVG3, 3 NCL2
          BoardTemps, CpuTemps,   \* what the sensors may say, in degrees
          Minima,       \* what get_file_min may return; 0 for its -1
          Leftovers     \* what the array of the speeds may hold at first

NoFile == 0

ASSUME FanAssumption ==
  /\ MbTypes \subseteq 0..3
  /\ BoardTemps \subseteq Int /\ CpuTemps \subseteq Int
  /\ Minima \subseteq {NoFile} \cup 20..2047 /\ Leftovers \subseteq Int

VARIABLES mb_type, temp_avg, fan_set, last_fan,
          fan_step,     \* what the thread does next
          cooled        \* history: temp_avg when Intel's fan was switched off

fanVars == <<mb_type, temp_avg, fan_set, last_fan, fan_step, cooled>>

FanOff == 2047
DEFAULT_TEMP == 50
MIN_PS_FAN == 112
Sensors == {"board", "cpu"}

Least(a, b) == IF a > b THEN b ELSE a
Most(a, b) == IF a < b THEN b ELSE a

(* The temperatures above which a fan is needed.                           *)
mbtrip == CASE mb_type = 2 -> 70 [] mb_type = 3 -> 0 [] OTHER -> 45
cputrip == CASE mb_type = 0 -> 55 [] mb_type = 3 -> 68 [] OTHER -> 65

(* fan_control_thread begins; fan is not initialised, and calc_speed leaves*)
(* NCL2's as it is while the processor is cool.                            *)
FanInit ==
  /\ mb_type \in MbTypes
  /\ temp_avg = [n \in Sensors |-> 30]
  /\ last_fan = FanOff /\ fan_step = "read"
  /\ fan_set \in [Sensors -> Leftovers]
  /\ cooled = temp_avg

-----------------------------------------------------------------------------
(* get_temp: within 20 and 95 degrees, or a default without a sensor.      *)
get_temp(raw) == Most(20, Least(95, raw))

(* A new value counts a third.                                             *)
Smooth(n, temp) ==
  LET sum == 2 * temp_avg[n] + temp IN {sum \div 3, (sum + 2) \div 3}

(* Slip: the fan goes off at the temperature at which it went on.          *)
hystNone == 0

hyst == IF last_fan # FanOff /\ ~(mb_type = 3 /\ last_fan = 0) THEN 5 ELSE 0

(* calc_speed for NCL2: with a cool processor the fan keeps its speed.     *)
CpuFanNCL2(t) ==
  LET start == cputrip - hyst IN
  IF t <= start THEN fan_set["cpu"]
  ELSE IF t > 90 THEN 1
  ELSE Most(16, 224 - ((t - start) * 208 + 89 - start) \div (90 - start))

(* calc_speed for the others.                                              *)
CpuFan(avg) ==
  LET b == avg["board"]
      c == avg["cpu"]
      idle == CASE mb_type = 1 -> 256 [] mb_type = 2 -> 248 [] OTHER -> FanOff
      fan0 == IF b > mbtrip - hyst THEN 450 - (b - mbtrip) * 20 ELSE idle
      fan1 == IF c > cputrip - hyst
              THEN 300 - (c - cputrip) * 17 - Most(0, b - mbtrip) * 20 ELSE FanOff
  IN Most(48, Least(fan0, fan1))

PsFan(avg) ==
  Most(64, 128 - Most(0, (avg["cpu"] - cputrip) * 2)
               - (Most(0, avg["board"] - 25) * 3 + 1) \div 2)

(* Slip: the minimum of the file is taken for a speed.                     *)
AtLeastSwapped(fan, minimum) == IF minimum = NoFile THEN fan ELSE Most(fan, minimum)

(* The fan is at least as fast as the file says.                           *)
AtLeast(fan, minimum) == IF minimum = NoFile THEN fan ELSE Least(fan, minimum)

calc_speed(avg, min0, min1) ==
  IF mb_type = 3
  THEN [board |-> FanOff, cpu |-> AtLeast(CpuFanNCL2(avg["cpu"]), min1)]
  ELSE [board |-> AtLeast(PsFan(avg), IF min0 = NoFile THEN MIN_PS_FAN ELSE min0),
        cpu |-> AtLeast(CpuFan(avg), min1)]

(* A round of fan_control_thread up to the first sleep.                    *)
ReadTemps ==
  /\ fan_step = "read" /\ fan_step' = "set"
  /\ \E raw \in [board : BoardTemps, cpu : CpuTemps], min0, min1 \in Minima :
       \E b \in Smooth("board", get_temp(raw.board)), c \in Smooth("cpu", get_temp(raw.cpu)) :
         LET avg == [board |-> b, cpu |-> c] IN
         /\ temp_avg' = avg
         /\ fan_set' = calc_speed(avg, min0, min1)
  /\ UNCHANGED <<mb_type, last_fan, cooled>>

(* The speed of the processor's fan is sent, ten seconds after the other.  *)
SetFan ==
  /\ fan_step = "set" /\ fan_step' = "read"
  /\ last_fan' = fan_set["cpu"]
  /\ cooled' = IF mb_type = 0 /\ last_fan # FanOff /\ last_fan' = FanOff THEN temp_avg ELSE cooled
  /\ UNCHANGED <<mb_type, temp_avg, fan_set>>

FanNext == ReadTemps \/ SetFan

FanSpec == FanInit /\ [][FanNext]_fanVars

-----------------------------------------------------------------------------
(* Everything has a value of its type.                                     *)
Speeds == 0..FanOff \cup Leftovers

FanTypeOK ==
  /\ mb_type \in MbTypes /\ fan_step \in {"read", "set"}
  /\ temp_avg \in [Sensors -> 20..95] /\ cooled \in [Sensors -> 20..95]
  /\ fan_set \in [Sensors -> Speeds] /\ last_fan \in Speeds

(* With a processor at 90 degrees, whichever sensors there are and whatever*)
(* the file says, the fan that has been set runs at full speed.            *)
HotMeansFast ==
  fan_step = "set" /\ temp_avg["cpu"] >= 90 => fan_set["cpu"] <= 48

(* The fan is not switched on and off all the time: between off and on one *)
(* of the temperatures has risen by more than five degrees.  The other     *)
(* mainboards never switch it off, and a minimum keeps it on.              *)
FanDoesNotFlap ==
  [][last_fan = FanOff /\ last_fan' # FanOff /\ mb_type = 0
       => \/ fan_set["cpu"] \in Minima
          \/ \E n \in Sensors : temp_avg[n] > cooled[n] + 5]_fanVars
=============================================================================
