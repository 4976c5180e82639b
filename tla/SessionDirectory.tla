--------------------------- MODULE SessionDirectory ---------------------------
(***************************************************************************)
(* What the table of connections promises: at most Limit clients are       *)
(* connected, a client enters without a session, and only its own login    *)
(* and its own departure change what the directory says about it.  The     *)
(* promise holds as long as the directory is reliable; how it ceases to be *)
(* is not its business.                                                    *)
(***************************************************************************)
EXTENDS FiniteSets, Integers

CONSTANTS Client, User, NoUser, Absent, Limit

VARIABLES
  session,   \* the user of each client, NoUser, or Absent
  reliable

Present == {c \in Client : session[c] # Absent}

Init ==
  /\ session = [c \in Client |-> Absent]
  /\ reliable = TRUE

Enter(c) ==
  /\ session[c] = Absent
  /\ Cardinality(Present) < Limit
  /\ session' = [session EXCEPT ![c] = NoUser]

Login(c, u) ==
  /\ session[c] # Absent
  /\ session' = [session EXCEPT ![c] = u]

Leave(c) ==
  /\ session[c] # Absent
  /\ session' = [session EXCEPT ![c] = Absent]

Change == \E c \in Client : Enter(c) \/ Leave(c) \/ \E u \in User : Login(c, u)

Next ==
  \/ reliable /\ reliable' /\ Change
  \/ ~reliable'

Spec == Init /\ [][Next]_<<session, reliable>>

==============================================================================
