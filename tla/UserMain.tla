------------------------------ MODULE UserMain ------------------------------
(***************************************************************************)
(* user_main/user_main.c: its packet path and its requests.  The two share *)
(* packet_from_host and no state that either reads, so a behaviour is one  *)
(* of one of them: running says whose.                                     *)
(***************************************************************************)
EXTENDS Forwarding, Commands

VARIABLE running
userVars == <<vars, commandsVars, running>>

(* The one that does not run is in one of its initial states. *)
UserInit ==
  /\ running \in {"packets", "requests"} /\ Init /\ CommandsInit
  /\ running = "packets" => sdk.opmode = {} /\ ~sdk.dhcpc /\ ~sdk.dhcps
  /\ running = "requests" => pcbs = CHOOSE s \in RawNew : TRUE

UserNext ==
  \/ running = "packets" /\ Next /\ UNCHANGED <<commandsVars, running>>
  \/ running = "requests" /\ CommandsNext /\ UNCHANGED <<vars, running>>

UserSpec == UserInit /\ [][UserNext]_userVars
=============================================================================
