--------------------------- MODULE InvitationLife ---------------------------
(***************************************************************************)
(* What an invitation promises: it is open until it is answered, it makes  *)
(* its invitee a member at most once, and only while it is open.           *)
(***************************************************************************)
EXTENDS Naturals

CONSTANT Invites

VARIABLES
  life,   \* where an invitation is
  joins   \* how often it made its invitee a member

lifeVars == <<life, joins>>

LifeInit ==
  /\ life \in [Invites -> {"none", "pending"}]
  /\ joins = [i \in Invites |-> 0]

Send(i) ==
  /\ life[i] = "none"
  /\ life' = [life EXCEPT ![i] = "pending"]
  /\ UNCHANGED joins

Join(i) ==
  /\ life[i] = "pending"
  /\ life'  = [life EXCEPT ![i] = "accepted"]
  /\ joins' = [joins EXCEPT ![i] = @ + 1]

\* Also after the invitation was accepted: the member stays one.
TurnDown(i) ==
  /\ life[i] \in {"pending", "accepted"}
  /\ life' = [life EXCEPT ![i] = "declined"]
  /\ UNCHANGED joins

\* The invitations of what is deleted go together.
Vanish ==
  /\ \E gone \in SUBSET {i \in Invites : life[i] # "none"} :
       life' = [i \in Invites |-> IF i \in gone THEN "gone" ELSE life[i]]
  /\ UNCHANGED joins

LifeNext ==
  \/ \E i \in Invites : Send(i) \/ Join(i) \/ TurnDown(i)
  \/ Vanish

LifeSpec == LifeInit /\ [][LifeNext]_lifeVars
=============================================================================
