------------------------------ MODULE RbPower -------------------------------
(***************************************************************************)
(* Switching the box on and off: the commands of reelbox-ctrld that do more*)
(* than send a key to vdr (the end of ir_send_thread in rb_control.c), and *)
(* the same commands from the serial line or the network (external_ctrl.c).*)
(* Both threads use power_state, a cached running_vdr, without a lock.     *)
(*                                                                         *)
(* vdr is external: the Power key makes it go to standby, where it creates *)
(* STANDBYFILE and stops, until the file is removed.                       *)
(***************************************************************************)
EXTENDS Naturals, Sequences

CONSTANT MaxCommands   \* bound on the commands, remote and external

VARIABLES vdr,         \* what vdr is doing
          deep,        \* /tmp/vdr.deepstandby exists
          power_state,
          codes,       \* code_queue: the names of commands, and if repeats
          sending,     \* the command ir_send_thread has sent but not yet acted on
          checked,     \* external "Standby" has looked at power_state
          commands,
          asked        \* history: the last command about power

powerVars == <<vdr, deep, power_state, codes, sending, checked, commands, asked>>

None == [name |-> "none", repeat |-> FALSE]
Names == {"Power", "Startup", "Standby", "Poweroff", "Back"}

PowerInit ==
  /\ vdr = "up" /\ deep = FALSE /\ power_state = 1
  /\ codes = << >> /\ sending = None /\ checked = FALSE
  /\ commands = 0 /\ asked = "none"

-----------------------------------------------------------------------------
running_vdr == IF vdr = "standby" THEN 0 ELSE 1

(* unlink(STANDBYFILE) wakes vdr, or the box goes off if it is to.         *)
Unlinked(off) ==
  IF vdr = "standby" THEN IF off THEN "off" ELSE "up" ELSE vdr

Ask(name) ==
  /\ commands < MaxCommands /\ commands' = commands + 1
  /\ asked' = IF name = "Back" THEN asked ELSE name

PutCode(name, repeat) == codes' = Append(codes, [name |-> name, repeat |-> repeat])

(* A key of the remote control; only Power is held.                        *)
RemoteKey(name, repeat) ==
  /\ repeat => name = "Power"
  /\ Ask(name) /\ PutCode(name, repeat)
  /\ UNCHANGED <<vdr, deep, power_state, sending, checked>>

(* external_send_raw: "Startup" is done at once, whatever is in the queue. *)
ExternalStartup ==
  /\ ~checked /\ Ask("Startup")
  /\ vdr' = Unlinked(deep) /\ power_state' = 1
  /\ UNCHANGED <<deep, codes, sending, checked>>

ExternalStandby ==
  /\ ~checked /\ Ask("Standby")
  /\ checked' = (power_state = 1)
  /\ UNCHANGED <<vdr, deep, power_state, codes, sending>>

(* standby(1), and the Power key as if it had been pressed.                *)
standby ==
  /\ checked /\ checked' = FALSE
  /\ power_state' = 0
  /\ PutCode("Power", FALSE)
  /\ UNCHANGED <<vdr, deep, sending, commands, asked>>

poweroff ==
  /\ ~checked /\ Ask("Poweroff")
  /\ deep' = TRUE /\ vdr' = Unlinked(TRUE)
  /\ PutCode("Power", FALSE)
  /\ UNCHANGED <<power_state, sending, checked>>

-----------------------------------------------------------------------------
(* send_code.  Of these keys only Power and Back are known to vdr.         *)
send_code ==
  LET c == Head(codes) IN
  /\ codes # << >> /\ sending = None
  /\ codes' = Tail(codes) /\ sending' = c
  /\ vdr' = IF c = [name |-> "Power", repeat |-> FALSE] /\ vdr = "up"
            THEN "going" ELSE vdr
  /\ power_state' = running_vdr
  /\ UNCHANGED <<deep, checked, commands, asked>>

Acting(name) == sending.name = name /\ sending' = None

(* The Power key wakes vdr, or vdr itself goes to standby.                 *)
ActPower ==
  /\ Acting("Power")
  /\ vdr' = Unlinked(deep)
  /\ power_state' = IF vdr = "standby" THEN 1
                    ELSE IF sending.repeat THEN power_state ELSE 0
  /\ UNCHANGED deep

(* Nothing is sent to vdr for this key; only power_state changes.          *)
ActStandby ==
  /\ Acting("Standby")
  /\ power_state' = IF running_vdr = 1 THEN 0 ELSE power_state
  /\ UNCHANGED <<vdr, deep>>

shutdown_reelbox ==
  /\ deep' = TRUE /\ vdr' = "off"
  /\ UNCHANGED power_state

(* Poweroff stops vdr first.                                               *)
ActPoweroff == Acting("Poweroff") /\ shutdown_reelbox

ActBack ==
  /\ Acting("Back")
  /\ IF running_vdr = 0 THEN shutdown_reelbox
     ELSE UNCHANGED <<vdr, deep, power_state>>

(* What ir_kbdx calls REEL_IR_POWER_ON is "Startup", what this thread looks*)
(* for is "Poweron".                                                       *)
ActStartup ==
  Acting("Startup") /\ UNCHANGED <<vdr, deep, power_state>>

Act ==
  /\ ActPower \/ ActStandby \/ ActPoweroff \/ ActBack \/ ActStartup
  /\ UNCHANGED <<codes, checked, commands, asked>>

-----------------------------------------------------------------------------
VdrDown ==
  /\ vdr = "going" /\ vdr' = IF deep THEN "off" ELSE "standby"
  /\ UNCHANGED <<deep, power_state, codes, sending, checked, commands, asked>>

External == ExternalStartup \/ ExternalStandby \/ standby \/ poweroff
PowerNext ==
  \/ vdr # "off" /\ (External \/ send_code \/ Act \/ VdrDown)
  \/ vdr # "off" /\ \E n \in Names, r \in BOOLEAN : RemoteKey(n, r)

(* The two threads go on as long as the box is on, and vdr goes down.      *)
PowerSpec ==
  /\ PowerInit /\ [][PowerNext]_powerVars
  /\ WF_powerVars(vdr # "off" /\ (send_code \/ Act))
  /\ WF_powerVars(vdr # "off" /\ standby)
  /\ WF_powerVars(VdrDown)

-----------------------------------------------------------------------------
(* "Go into standby (or stay there)": after the command Standby, from the  *)
(* remote control or from outside, the box is in standby at some time,     *)
(* unless it is asked for something else.                                  *)
StandbyObeyed ==
  asked = "Standby" ~> (vdr \in {"standby", "off"} \/ asked # "Standby")
=============================================================================
