------------------------------ MODULE MCBetting ------------------------------
(***************************************************************************)
(* Instances of Betting for TLC.  Users and requests are interchangeable,  *)
(* but symmetry cannot be declared where liveness is checked: there the    *)
(* initial states below are one of each kind.                              *)
(***************************************************************************)
EXTENDS Betting, TLC

Symmetry ==
  Permutations(Users) \cup Permutations(BetIds) \cup Permutations(Resolvers)

FirstUser == CHOOSE u \in Users : TRUE
FirstBet == CHOOSE r \in BetIds : TRUE
FirstResolver == CHOOSE s \in Resolvers : TRUE

\* The first placement is the first user's, and the first resolution an
\* admin's.  Among the others one kind is void: either the resolutions, whose
\* caller is no admin, or the placements, which stake nothing.  So two
\* placements race a resolution, both for 1, or both by one user whose balance
\* is too small for the two; or two resolutions race a placement.
ScenarioInit ==
  /\ Init
  /\ order[FirstBet].user = FirstUser
  /\ verdict[FirstResolver].role = "admin"
  /\ \/ /\ order[FirstBet].amount > 0
        /\ \A r \in BetIds \ {FirstBet} :
             /\ order[r].amount = 1
             /\ order[FirstBet].amount = 1 \/ order[r].user = FirstUser
        /\ \A s \in Resolvers \ {FirstResolver} :
             verdict[s] = [verdict[FirstResolver] EXCEPT !.role = "user"]
     \/ /\ order[FirstBet].amount = 1
        /\ \A r \in BetIds \ {FirstBet} :
             order[r] = [order[FirstBet] EXCEPT !.amount = 0]
        /\ \A s \in Resolvers : verdict[s].role = "admin"

ScenarioSpec == ScenarioInit /\ [][Next]_vars /\ Fairness
=============================================================================
