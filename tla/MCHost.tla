------------------------------- MODULE MCHost -------------------------------
(***************************************************************************)
(* Instances for TLC of the parts of the daemons on the host that share no *)
(* variable: of reelbox-ctrld the keys, the fans, the USB displays, their  *)
(* infrared receivers and the serial line; of bspd the video mode; of      *)
(* hdctrld the player.  The first state says which of them moves.          *)
(***************************************************************************)
EXTENDS RbKeys, RbFan, FpUsb, FpIr, FpSerial, MCBspVideo, HdCtrld

(* Of the panel: a ping, a clock, raw infrared data, and keys; with data   *)
(* that looks like nothing, like a key, like a begin, like flashing.       *)
MCMessages ==
  {<<"5a", "42">>, <<"5a", "0b", "1", "1", "1", "1", "1", "1", "1">>,
   <<"55", "1", "1", "1">>, <<"55", "f2", "1", "5a">>,
   <<"5a", "f2", "1", "1", "1", "1">>, <<"5a", "f2", "1", "1", "1", "5a">>,
   <<"5a", "f2", "f2", "1", "ff", "1">>}

(* Before an infrared code: a pulse, or as much as a code has.             *)
MCNoises == {<<360>>, <<360, 720, 720>>}

CONSTANT Parts
VARIABLE part

boxVars == <<keyVars, fanVars, usbVars, irVars, serialVars>>
hostVars == <<part, boxVars, videoVars, playerVars>>

(* Only the part that moves has more than one first state.                 *)
Init ==
  /\ part \in Parts
  /\ KeysInit /\ FanInit /\ UsbInit /\ IrInit /\ SerialInit
  /\ VideoInit /\ PlayerInit
  /\ part # "fan" => /\ mb_type = CHOOSE m \in MbTypes : TRUE
                     /\ fan_set = [n \in Sensors |-> CHOOSE s \in Leftovers : TRUE]
  /\ part # "usb" => plugged = {}
  /\ part # "reader" => again = << >>
  /\ part # "video" => vm = CHOOSE s \in Settings : TRUE

Is(p) == part = p /\ UNCHANGED part

(* The keys twice, to keep it small: "keys" has every kind of key but the  *)
(* ones without a second meaning and a key that repeats from the network,  *)
(* "shift" only keys that can be shifted and none from the network.        *)
KeysMove == part \in {"keys", "shift"}
KeysOfPart ==
  IF part = "shift"
  THEN held'.key \in Shifted \cup {NoKey} /\ UNCHANGED external
  ELSE /\ held'.key \notin Single
       /\ \A i \in DOMAIN queue' : queue'[i].key \notin Single
       /\ external' # external /\ queue' # << >> => queue'[Len(queue')].key \in Repeated

(* The bounds on presses and messages are used up.                         *)
KeysOver == held.press = MaxPresses /\ held.key = NoKey /\ UNCHANGED keyVars
LineOver == line = << >> /\ Len(sent) = MaxMessages /\ UNCHANGED serialVars

Next ==
  \/ /\ KeysMove /\ UNCHANGED part /\ (KeysNext \/ KeysOver) /\ KeysOfPart
     /\ UNCHANGED <<fanVars, usbVars, irVars, serialVars, videoVars, playerVars>>
  \/ /\ Is("fan") /\ FanNext
     /\ UNCHANGED <<keyVars, usbVars, irVars, serialVars, videoVars, playerVars>>
  \/ /\ Is("usb") /\ UsbNext
     /\ UNCHANGED <<keyVars, fanVars, irVars, serialVars, videoVars, playerVars>>
  \/ /\ Is("ir") /\ IrNext
     /\ UNCHANGED <<keyVars, fanVars, usbVars, serialVars, videoVars, playerVars>>
  \/ /\ Is("reader") /\ (FromPanel \/ LineOver)
     /\ UNCHANGED <<keyVars, fanVars, usbVars, irVars, videoVars, playerVars>>
  \/ Is("video") /\ VideoNext /\ UNCHANGED <<boxVars, playerVars>>
  \/ Is("player") /\ PlayerNext /\ UNCHANGED <<boxVars, videoVars>>

(* The threads of the panels and the one that sends keys go on, and so does*)
(* the clock; the rest is the fairness of VideoFairSpec and PlayerFairSpec.*)
FairSpec ==
  /\ Init /\ [][Next]_hostVars
  /\ \A p \in Panels : /\ WF_keyVars(KeysMove /\ PanelThread(p))
                       /\ WF_keyVars(KeysMove /\ Tick(p))
  /\ WF_keyVars(KeysMove /\ TakeCode)
  /\ WF_videoVars(part = "video" /\ CheckSettings)
  /\ WF_videoVars(part = "video" /\ TakeTiming)
  /\ WF_videoVars(part = "video" /\ CountRequest)
  /\ WF_videoVars(part = "video" /\ CountReport)
  /\ WF_playerVars(part = "player" /\ Loop)
  /\ WF_playerVars(part = "player" /\ AskShutdown)
  /\ \A t \in Threads : /\ WF_playerVars(part = "player" /\ Thread(t))
                        /\ WF_playerVars(part = "player" /\ Exit(t))

(* Everything has a value of its type.                                     *)
TypeOK == /\ part \in Parts
          /\ KeysTypeOK /\ FanTypeOK /\ UsbTypeOK /\ IrTypeOK /\ SerialTypeOK
          /\ VideoTypeOK /\ PlayerTypeOK

(* Every request of vdr is acknowledged (the loop in bsp_daemon); the first*)
(* one is waiting when video_default has returned.                         *)
VideoIsSet == part = "video" => RequestsAcknowledged
=============================================================================
