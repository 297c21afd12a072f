--------------------------- MODULE MCLivingForest ---------------------------
\* Instances of LivingForest for TLC.
EXTENDS LivingForest, TLC

\* Caps of the code, and caps so low that few days reach them.
CodeDayCap == [xp |-> 50, seeds |-> 20]
CodeWeekCap == [xp |-> 280, seeds |-> 180]
LowWeekCap == [xp |-> 75, seeds |-> 30]

\* A challenge of the catalog's "positive_gap" family (18 + index ~/ 4).
CatalogXp == [c \in Challenges |-> 21]

ScreenSymmetry == Permutations(Screens)

-----------------------------------------------------------------------------
\* The run of the rewards looks at one of two sides of the forest at a time; what
\* they have in common they share.

\* A goal whose target two contributions make, paid by transfers and records
\* while two screens load.
Rewards ==
  /\ Len(goals) <= 1 /\ \A g \in Goals : goals[g].target = 2
  /\ \A c \in Challenges : challenge[c] = "open"

\* All goals the code allows, and taps on a challenge.
Orders ==
  /\ \A g \in Goals : goals[g].target = 1
  /\ contributions = {} /\ nextContribution = 1 /\ nextId = 1 /\ forest.rows = {}
  /\ \A l \in Screens : screen[l].pc = "idle"

SidesSpec == Init /\ [][Next /\ (Rewards \/ Orders)']_vars

-----------------------------------------------------------------------------
\* The run of the streak: loads that write back what they find, next to reviews
\* and goals, or no load at all, next to everything that records an action.

Loads == nextId = 1 /\ today = 1 /\ forest.streak.last <= 3
NoLoads == \A l \in Screens : screen[l].pc = "idle"

FreshSidesSpec == Init /\ [][Next /\ FreshWrites /\ (Loads \/ NoLoads)']_vars
=============================================================================
