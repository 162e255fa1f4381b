-------------------------------- MODULE MCChat --------------------------------
(***************************************************************************)
(* An instance of Chat and of Reactions for TLC.  They share no variable,  *)
(* so what one does says nothing about the other: in a behaviour of        *)
(* ChatSpec only one of them runs, and every behaviour of either is one of *)
(* ChatSpec, up to the names of requests and rooms.                        *)
(***************************************************************************)
EXTENDS Chat, Reactions

\* Requests are interchangeable: they are numbered, and of the ways to deal out
\* what they want the one in this order is enough.
Number == CHOOSE f \in [Requests -> 1 .. Cardinality(Requests)] :
            \A r, s \in Requests : f[r] = f[s] => r = s

FirstUser == CHOOSE u \in Users : TRUE

Kind(w) == (IF w.user = FirstUser THEN 0 ELSE 2) + (IF w.added THEN 0 ELSE 1)

Dealt == \A r, s \in Requests : Number[r] <= Number[s] => Kind(wanted[r]) <= Kind(wanted[s])

\* One of the others stands for requests that stay away: there the chat runs.
Away == [r \in Requests |-> [user |-> FirstUser, added |-> Number[r] # 1]]

\* Rooms are interchangeable too: all readers look at the first.
FirstRoom == CHOOSE k \in Rooms : TRUE

ChatInit ==
  /\ Init /\ \A r \in Readers : looksAt[r].room = FirstRoom
  /\ ReactionsInit
  /\ wanted = Away \/ (Dealt /\ \A r \in Readers : looksAt[r].back)

\* Time passes only while a message is still to be begun: nothing else reads
\* the clock.
ClockMatters == now' # now => \E m \in Messages : state[m] = "none"

ChatNext ==
  \/ wanted = Away /\ Next /\ ClockMatters /\ UNCHANGED reactionVars
  \/ wanted # Away /\ ReactionsNext /\ UNCHANGED vars

ChatSpec == ChatInit /\ [][ChatNext]_<<vars, reactionVars>>
=============================================================================
