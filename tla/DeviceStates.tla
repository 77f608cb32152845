--------------------------- MODULE DeviceStates ---------------------------
(***************************************************************************)
(* What the state of a device says to those who read the table of devices. *)
(* A device has booted (DHCP_BOOT), was discovered, is on its way to the   *)
(* address that it is managed on (INIT), and is MANAGED there or UNMANAGED *)
(* for a while; an address is entered once, on the way into INIT, and      *)
(* stays until the row goes.  A device leaves this order only after two    *)
(* discoveries, or two first steps of its initialisation, ran at once.     *)
(***************************************************************************)
EXTENDS Naturals

CONSTANTS Devices, Pool

VARIABLES
  state,      \* "NONE" for a device that is not in the table
  address,    \* the management address in its row, or 0
  disturbed   \* devices with two jobs at once in the same step

Enter(d, s, a) == state' = [state EXCEPT ![d] = s] /\ address' = [address EXCEPT ![d] = a]
From(d, states) == state[d] \in states \/ (state[d] # "NONE" /\ d \in disturbed)
InService == {"MANAGED", "UNMANAGED"}

Init ==
  /\ state = [d \in Devices |-> "NONE"]
  /\ address = [d \in Devices |-> 0]
  /\ disturbed = {}

Boot(d) == state[d] = "NONE" /\ Enter(d, "DHCP_BOOT", 0)
Add(d, a) == state[d] = "NONE" /\ Enter(d, "MANAGED", a)
Discover(d) == From(d, {"DHCP_BOOT"}) /\ Enter(d, "DISCOVERED", address[d])
Initialise(d, a) == From(d, {"DISCOVERED"}) /\ Enter(d, "INIT", a)
Manage(d) == From(d, {"INIT"} \cup InService) /\ Enter(d, "MANAGED", address[d])
Unmanage(d) == state[d] = "MANAGED" /\ Enter(d, "UNMANAGED", address[d])
Remove(d) == state[d] # "NONE" /\ Enter(d, "NONE", 0)

Change(d) ==
  \/ Boot(d) \/ Discover(d) \/ Manage(d) \/ Unmanage(d) \/ Remove(d)
  \/ \E a \in Pool : Add(d, a) \/ Initialise(d, a)

\* Entering the state that a device is in is no step; TLC need not try it.
Next ==
  \/ /\ <<state, address>>' # <<state, address>> /\ UNCHANGED disturbed
     /\ \E d \in Devices : Change(d)
  \/ \E d \in Devices : disturbed' = disturbed \cup {d} /\ UNCHANGED <<state, address>>

Spec == Init /\ [][Next]_<<state, address, disturbed>>

\* A device is known by an address exactly from INIT on, if it keeps to the order.
AddressedFromInit ==
  \A d \in Devices \ disturbed : address[d] # 0 <=> state[d] \in {"INIT"} \cup InService
=============================================================================
