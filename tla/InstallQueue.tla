---------------------------- MODULE InstallQueue ----------------------------
(***************************************************************************)
(* What the library promises, with no database and no overlapping          *)
(* requests: for every user and app at most one entry, which is the        *)
(* user's newest request until the daemon has taken it, the app vanished   *)
(* or the user withdrew it.  Library.tla is shown to implement it.         *)
(***************************************************************************)
CONSTANTS Users, Apps, Channels, Arches, Absent

VARIABLES slot,     \* [Users \X Apps -> Entry or Absent]: the user's library
          handed    \* <<user, app, channel>>: builds handed to a daemon

vars == <<slot, handed>>

Init == /\ slot = [p \in Users \X Apps |-> Absent]
        /\ handed = {}

\* The user asks for a build; it replaces whatever the entry said.
Request(u, a) ==
    /\ \E c \in Channels, x \in Arches :
         slot' = [slot EXCEPT ![<<u, a>>] = [channel |-> c, arch |-> x, state |-> "pending"]]
    /\ UNCHANGED handed

\* The user takes the app out of the library.
Withdraw(u, a) ==
    /\ slot' = [slot EXCEPT ![<<u, a>>] = Absent]
    /\ UNCHANGED handed

\* The account is erased with all its entries.
Close(u) ==
    /\ slot' = [p \in Users \X Apps |-> IF p[1] = u THEN Absent ELSE slot[p]]
    /\ UNCHANGED handed

\* The daemon is handed some of the pending requests.
Hand(u) ==
    \E A \in SUBSET {a \in Apps : slot[u, a] # Absent /\ slot[u, a].state = "pending"} :
        /\ handed' = handed \cup {<<u, a, slot[u, a].channel>> : a \in A}
        /\ UNCHANGED slot

\* The daemon confirms the build the entry asks for, and no other.
Confirm(u, a) ==
    /\ slot[u, a] # Absent
    /\ <<u, a, slot[u, a].channel>> \in handed
    /\ slot' = [slot EXCEPT ![<<u, a>>].state = "installed"]
    /\ UNCHANGED handed

\* A pending request for an app that left the catalog is given up.
GiveUp(u, a) ==
    /\ slot[u, a] # Absent
    /\ slot[u, a].state = "pending"
    /\ slot' = [slot EXCEPT ![<<u, a>>].state = "unavailable"]
    /\ UNCHANGED handed

Next == \/ \E u \in Users, a \in Apps :
              Request(u, a) \/ Withdraw(u, a) \/ Confirm(u, a) \/ GiveUp(u, a)
        \/ \E u \in Users : Close(u) \/ Hand(u)

Spec == Init /\ [][Next]_vars
=============================================================================
