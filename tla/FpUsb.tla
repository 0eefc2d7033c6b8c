------------------------------- MODULE FpUsb -------------------------------
(***************************************************************************)
(* The USB displays of reelbox-ctrld (frontpanel_usb.c).  A thread looks   *)
(* every ten seconds what is plugged in, opens what is new and closes what *)
(* is gone; other threads show pictures and switch LEDs on all the displays*)
(* of the table, each under the lock of its entry.                         *)
(*                                                                         *)
(* There is one USB bus: the loop over the buses does the same for each.   *)
(* The number of a display is its place in the list of the bus.  The thread*)
(* that reads infrared codes from the displays is left out: it takes no    *)
(* lock.                                                                   *)
(***************************************************************************)
EXTENDS Naturals, FiniteSets

CONSTANTS Displays,   \* numbers of displays
          Handles,    \* MAX_USB_HANDLES
          Showers,    \* threads that call fp_show_pic or fp_set_leds
          MaxPlugs    \* bound on plugging in and out

ASSUME UsbAssumption ==
  /\ Displays \subseteq Nat \ {0} /\ IsFiniteSet(Displays)
  /\ Handles \in Nat /\ MaxPlugs \in Nat

Entries == 1..Handles
NoDisplay == 0

VARIABLES plugged,   \* the displays that are plugged in
          seen,      \* bus->devices, as usb_find_devices left it
          displays,  \* the table: state, device, and whether handle is open
          refresh,   \* what fp_refresh_usb does, and the next device or entry
          showing,   \* the entry whose lock a thread has, or 0
          plugs

usbVars == <<plugged, seen, displays, refresh, showing, plugs>>

UsbInit ==
  /\ plugged \in SUBSET Displays /\ seen = {}
  /\ displays = [i \in Entries |-> [state |-> 0, device |-> NoDisplay, open |-> FALSE]]
  /\ refresh = [does |-> "sleep", at |-> 0]
  /\ showing = [t \in Showers |-> 0]
  /\ plugs = 0

-----------------------------------------------------------------------------
Plug ==
  /\ plugs < MaxPlugs /\ plugs' = plugs + 1
  /\ \E d \in Displays :
       plugged' = IF d \in plugged THEN plugged \ {d} ELSE plugged \cup {d}
  /\ UNCHANGED <<seen, displays, refresh, showing>>

Wake ==
  /\ refresh.does = "sleep"
  /\ seen' = plugged /\ refresh' = [does |-> "scan", at |-> 1]
  /\ UNCHANGED <<plugged, displays, showing, plugs>>

Known(d) == {i \in Entries : displays[i].state # 0 /\ displays[i].device = d}
First(S) == CHOOSE i \in S : \A j \in S : i <= j
Ahead == {d \in seen : d >= refresh.at}

(* Slip: a display that is known already is not marked as present.         *)
FoundUnmarked(d) ==
  /\ Known(d) # {} /\ UNCHANGED displays
  /\ refresh' = [does |-> "clean", at |-> 1]

(* The first display of the bus that is known ends the search on that bus. *)
Found(d) ==
  /\ Known(d) # {}
  /\ displays' = [displays EXCEPT ![First(Known(d))].state = 2]
  /\ refresh' = [does |-> "clean", at |-> 1]

(* A new one goes to the first free entry; if the table is full or it does *)
(* not open, it has to wait for the next search.                           *)
Allocate(d) ==
  LET free == {i \in Entries : displays[i].state = 0} IN
  /\ Known(d) = {}
  /\ \/ /\ free # {} /\ d \in plugged
        /\ displays' = [displays EXCEPT ![First(free)] =
                          [state |-> 2, device |-> d, open |-> TRUE]]
     \/ (free = {} \/ d \notin plugged) /\ UNCHANGED displays
  /\ refresh' = [refresh EXCEPT !.at = d + 1]

Scan ==
  /\ refresh.does = "scan" /\ Ahead # {}
  /\ Found(First(Ahead)) \/ Allocate(First(Ahead))
  /\ UNCHANGED <<plugged, seen, showing, plugs>>

ScanEnds ==
  /\ refresh.does = "scan" /\ Ahead = {}
  /\ refresh' = [does |-> "clean", at |-> 1]
  /\ UNCHANGED <<plugged, seen, displays, showing, plugs>>

Locked(i) == \E t \in Showers : showing[t] = i

(* Slip: a dead display is closed without its lock.                        *)
DeallocateUnlocked(i) ==
  /\ displays[i].state = 1
  /\ displays' = [displays EXCEPT ![i] =
                    [state |-> 0, device |-> NoDisplay, open |-> FALSE]]

Deallocate(i) ==
  /\ displays[i].state = 1 /\ ~Locked(i)
  /\ displays' = [displays EXCEPT ![i] =
                    [state |-> 0, device |-> NoDisplay, open |-> FALSE]]

(* What was found this time has to be found again the next time.           *)
Keep(i) ==
  /\ displays[i].state # 1
  /\ displays' = [displays EXCEPT ![i].state = IF @ = 2 THEN 1 ELSE 0]

(* The part of fp_refresh_usb that cleans up dead displays.                *)
CleanUp ==
  /\ refresh.does = "clean" /\ refresh.at \in Entries
  /\ Deallocate(refresh.at) \/ Keep(refresh.at)
  /\ refresh' = [refresh EXCEPT !.at = @ + 1]
  /\ UNCHANGED <<plugged, seen, showing, plugs>>

CleanUpEnds ==
  /\ refresh.does = "clean" /\ refresh.at \notin Entries
  /\ refresh' = [does |-> "sleep", at |-> 0]
  /\ UNCHANGED <<plugged, seen, displays, showing, plugs>>

-----------------------------------------------------------------------------
(* fp_show_pic and fp_set_leds: the state is looked at under the lock.     *)
Show(t, i) ==
  /\ showing[t] = 0 /\ ~Locked(i) /\ displays[i].state # 0
  /\ showing' = [showing EXCEPT ![t] = i]
  /\ UNCHANGED <<plugged, seen, displays, refresh, plugs>>

Shown(t) ==
  /\ showing[t] # 0
  /\ showing' = [showing EXCEPT ![t] = 0]
  /\ UNCHANGED <<plugged, seen, displays, refresh, plugs>>

Refresh == Wake \/ Scan \/ ScanEnds \/ CleanUp \/ CleanUpEnds
UsbNext == \/ Plug \/ Refresh
           \/ \E t \in Showers : Shown(t) \/ \E i \in Entries : Show(t, i)

UsbSpec == UsbInit /\ [][UsbNext]_usbVars

-----------------------------------------------------------------------------
(* Everything has a value of its type.                                     *)
UsbTypeOK ==
  /\ plugged \subseteq Displays /\ seen \subseteq Displays
  /\ displays \in [Entries -> [state : 0..2, device : Displays \cup {NoDisplay},
                               open : BOOLEAN]]
  /\ refresh \in [does : {"sleep", "scan", "clean"}, at : Nat]
  /\ showing \in [Showers -> 0..Handles] /\ plugs \in 0..MaxPlugs

(* A thread that shows something uses an open display, also while the other*)
(* thread finds that it was unplugged.                                     *)
ShownIsOpen == \A t \in Showers : showing[t] # 0 => displays[showing[t]].open

(* A display that stays plugged in is not closed, unless one that comes    *)
(* before it on the bus is in use: that one ends the search.               *)
PresentStaysOpen ==
  [][\A i \in Entries :
       displays[i].open /\ ~displays[i].open' =>
         \/ displays[i].device \notin seen
         \/ \E d \in seen : d < displays[i].device /\ Known(d) # {}]_usbVars
=============================================================================
