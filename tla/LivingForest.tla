---------------------------- MODULE LivingForest ----------------------------
(***************************************************************************)
(* The living forest on the device: savings goals and their contributions,  *)
(* milestone rewards, the seed store, daily challenges, and the screens that *)
(* load a snapshot. An action is one exclusive database transaction or one  *)
(* statement outside of a transaction, so that handlers of different screens *)
(* interleave between the awaits of each other.                             *)
(***************************************************************************)
EXTENDS DailyActivity, Sequences, FiniteSetsExt

CONSTANTS
  Targets,          \* target amounts a goal may have
  Amounts,          \* amounts of a contribution or of a linked record
  MaxGoals,         \* bound, at most 4 (the code's own limit)
  MaxContributions, \* bound: contributions ever made
  Items,            \* store items in play
  MaxPurchases,     \* bound: purchases of one item
  MaxCalls,         \* bound: repository calls that are between their two halves
  Screens,          \* screens that may be loading a snapshot
  Challenges,       \* daily challenges
  xpReward,         \* XP of every challenge
  Taps              \* claim handlers that may run at once

\* _catalog: prices in seeds, and the items that are bought once.
Price ==
  [owl_guide |-> 35, rainwater |-> 55, protection_leaf |-> 90,
   compass |-> 280, greenhouse |-> 450, mersin_garden |-> 700]
Permanent == {"compass", "greenhouse", "mersin_garden"}

ASSUME ForestAssumption ==
  /\ Targets \subseteq Nat \ {0}
  /\ Amounts \subseteq Nat \ {0}
  /\ MaxGoals \in 0 .. 4
  /\ MaxContributions \in Nat
  /\ Items \subseteq DOMAIN Price
  /\ MaxPurchases \in Nat
  /\ MaxCalls \in Nat
  /\ xpReward \in [Challenges -> Nat \ {0}]

VARIABLES
  goals,          \* savings_goals in order of creation; a goal is its position
  contributions,  \* goal_contributions
  nextContribution,
  milestones,     \* goal_milestone_awards
  inventory,      \* quantity of every item
  impacts,        \* second half of addExpense and addIncome, still to run
  deletions,      \* records whose link is removed and whose row is not yet
  screen,         \* local state of every load
  challenge,      \* "open", "completed" or "claimed"
  offered,        \* challenges the screen offers to claim
  claim           \* local state of every claim handler

goalVars == <<goals, contributions, nextContribution, milestones>>
linkVars == <<impacts, deletions>>
claimVars == <<challenge, offered, claim>>
forestVars == <<goalVars, inventory, linkVars, screen, claimVars>>
vars == <<activityVars, forestVars>>

Goals == DOMAIN goals
RecordIds == 1 .. MaxRecords

Contribution ==
  [id : 1 .. MaxContributions, goal : 1 .. MaxGoals, amount : Int,
   day : Days, record : {0} \cup RecordIds,
   reward : {"none", "pending", "awarded"}, due : BOOLEAN]

Impact ==
  [record : RecordIds, goal : 1 .. MaxGoals, amount : Amounts, day : Days,
   expense : BOOLEAN, found : BOOLEAN]

Screen ==
  [pc : {"idle", "settle", "view"}, due : SUBSET (1 .. MaxContributions),
   xp : Nat, streak : StreakRow]
IdleScreen == [pc |-> "idle", due |-> {}, xp |-> 0, streak |-> NoStreak]

Claim == [pc : {"idle", "read", "write", "refresh"}, worth : Nat, xp : Nat]
IdleClaim == [pc |-> "idle", worth |-> 0, xp |-> 0]

Linked(record) == {c \in contributions : c.record = record}
RecordExists(id) == \E r \in records : r.id = id

\* Sums of amounts: everything put into a goal, and what counts for rewards.
Saved(rows, goal) ==
  MapThenSumSet(LAMBDA c : c.amount, {c \in rows : c.goal = goal})
Awarded(rows, goal) ==
  MapThenSumSet(LAMBDA c : c.amount,
                {c \in rows : c.goal = goal /\ c.reward = "awarded"})

-----------------------------------------------------------------------------
\* Milestones: _awardReachedMilestones pays every milestone once for a goal.

Percents == {10, 25, 50, 75, 100}
milestoneXp ==
  [p \in Percents |-> CASE p = 10 -> 25 [] p = 25 -> 50 [] p = 50 -> 100
                        [] p = 75 -> 150 [] p = 100 -> 250]
milestoneSeeds ==
  [p \in Percents |-> CASE p = 10 -> 15 [] p = 25 -> 25 [] p = 50 -> 40
                        [] p = 75 -> 60 [] p = 100 -> 100]

Reached(rows, goal) ==
  {p \in Percents : 100 * Awarded(rows, goal) >= p * goals[goal].target}
Paid(goal) == {p \in Percents : <<goal, p>> \in milestones}

\* Fault: every contribution pays all milestones it finds reached.
UnpaidOrNot(rows, goal) == Reached(rows, goal)

\* Fault: the contributions are read before this one is entered.
UnpaidBefore(rows, goal) == Reached(contributions, goal) \ Paid(goal)

Unpaid(rows, goal) == Reached(rows, goal) \ Paid(goal)

WithMilestones(f, percents) ==
  LET one(worth, p) == IF p \in percents THEN worth[p] ELSE 0
      part(worth) == one(worth, 10) + one(worth, 25) + one(worth, 50)
                       + one(worth, 75) + one(worth, 100)
  IN  Synchronized([f EXCEPT !.xpLedger = @ + part(milestoneXp),
                             !.seedLedger = @ + part(milestoneSeeds)])

\* Contribution c becomes, or is entered as, awarded: the action is recorded
\* and the milestones that `rows` reaches are paid.
Reward(rows, c) ==
  LET ref == [type |-> "contribution", key |-> c.id]
      new == Unpaid(rows, c.goal)
  IN  /\ forest' = WithMilestones(
                     Recorded(forest, "goal_contribution", c.day, ref), new)
      /\ milestones' = milestones \cup ({c.goal} \X new)

-----------------------------------------------------------------------------
\* Goals.

CreateGoal(target, primary) ==
  LET first  == primary \/ goals = << >>
      others == IF first
                THEN [g \in Goals |-> [goals[g] EXCEPT !.priority = 1]]
                ELSE goals
  IN  /\ Len(goals) < MaxGoals
      /\ goals' = Append(others, [target |-> target,
                                  priority |-> IF first THEN 0 ELSE Len(goals)])
      /\ UNCHANGED <<activityVars, contributions, nextContribution, milestones,
                     inventory, linkVars, screen, claimVars>>

\* Ordered by priority, then by creation.
Before(g, h) ==
  \/ goals[g].priority < goals[h].priority
  \/ goals[g].priority = goals[h].priority /\ g < h

\* Fault: the goal that was first keeps its place.
OnlySelectedMoved(goal) ==
  [h \in Goals |-> IF h = goal THEN [goals[h] EXCEPT !.priority = 0]
                               ELSE goals[h]]

Reordered(goal) ==
  [h \in Goals |->
     [goals[h] EXCEPT !.priority =
        IF h = goal THEN 0
        ELSE 1 + Cardinality({g \in Goals \ {goal} : Before(g, h)})]]

SelectPrimaryGoal(goal) ==
  /\ goals' = Reordered(goal)
  /\ UNCHANGED <<activityVars, contributions, nextContribution, milestones,
                 inventory, linkVars, screen, claimVars>>

NewContribution(goal, amount, day, record, reward) ==
  [id |-> nextContribution, goal |-> goal, amount |-> amount, day |-> day,
   record |-> record, reward |-> reward, due |-> FALSE]

Enter(c) ==
  /\ nextContribution <= MaxContributions
  /\ contributions' = contributions \cup {c}
  /\ nextContribution' = nextContribution + 1

\* addContribution from a screen: a manual entry earns nothing, a confirmed
\* transfer waits 24 hours for its reward.
AddContribution(goal, amount, reward) ==
  /\ reward \in {"none", "pending"}
  /\ Enter(NewContribution(goal, amount, today, 0, reward))
  /\ UNCHANGED <<activityVars, goals, milestones, inventory, linkVars, screen,
                 claimVars>>

\* 24 hours have passed since the transfer was entered.
TransferMatures(c) ==
  /\ c.reward = "pending" /\ ~c.due
  /\ contributions' = (contributions \ {c}) \cup {[c EXCEPT !.due = TRUE]}
  /\ UNCHANGED <<activityVars, goals, nextContribution, milestones, inventory,
                 linkVars, screen, claimVars>>

-----------------------------------------------------------------------------
\* Finance records. The repository enters the record, then applies its impact
\* on a goal; it removes the link, then deletes the record.

InFlight == Cardinality(impacts) + Cardinality(deletions)

SaveExpense(day, source, goal, amount) ==
  /\ goal # 0 => InFlight < MaxCalls
  /\ AddExpense(day, source)
  /\ impacts' = IF goal = 0 THEN impacts
                ELSE impacts \cup {[record |-> ExpenseId(source), goal |-> goal,
                                    amount |-> amount, day |-> day,
                                    expense |-> TRUE, found |-> FALSE]}
  /\ UNCHANGED <<goalVars, inventory, deletions, screen, claimVars>>

SaveIncome(day, goal, amount) ==
  /\ goal # 0 => InFlight < MaxCalls
  /\ AddIncome(day)
  /\ impacts' = IF goal = 0 THEN impacts
                ELSE impacts \cup {[record |-> nextId, goal |-> goal,
                                    amount |-> amount, day |-> day,
                                    expense |-> FALSE, found |-> FALSE]}
  /\ UNCHANGED <<goalVars, inventory, deletions, screen, claimVars>>

\* applyTransactionImpact asks for the record before its transaction.
CheckImpact(i) ==
  /\ ~i.found
  /\ impacts' = (impacts \ {i}) \cup
                  IF RecordExists(i.record) THEN {[i EXCEPT !.found = TRUE]}
                                            ELSE {}
  /\ UNCHANGED <<activityVars, goalVars, inventory, deletions, screen, claimVars>>

\* An expense is taken from the savings of the goal, if they cover it and the
\* record has no impact yet; otherwise nothing is entered.
ApplyExpense(i) ==
  /\ i.found /\ i.expense
  /\ IF Linked(i.record) = {} /\ i.amount <= Saved(contributions, i.goal)
     THEN Enter(NewContribution(i.goal, -i.amount, i.day, i.record, "none"))
     ELSE UNCHANGED <<contributions, nextContribution>>
  /\ impacts' = impacts \ {i}
  /\ UNCHANGED <<activityVars, goals, milestones, inventory, deletions, screen,
                 claimVars>>

\* An income is a linked contribution: it is asked for once more, source_ref is
\* unique, and the reward comes at once.
ApplyIncome(i) ==
  LET c == NewContribution(i.goal, i.amount, i.day, i.record, "awarded")
  IN  /\ i.found /\ ~i.expense
      /\ IF RecordExists(i.record) /\ Linked(i.record) = {}
         THEN Enter(c) /\ Reward(contributions \cup {c}, c)
         ELSE UNCHANGED <<contributions, nextContribution, forest, milestones>>
      /\ impacts' = impacts \ {i}
      /\ UNCHANGED <<today, records, nextId, goals, inventory, deletions, screen,
                     claimVars>>

RemoveTransactionImpact(id) ==
  /\ RecordExists(id) /\ id \notin deletions
  /\ InFlight < MaxCalls
  /\ contributions' = contributions \ Linked(id)
  /\ deletions' = deletions \cup {id}
  /\ UNCHANGED <<activityVars, goals, nextContribution, milestones, inventory,
                 impacts, screen, claimVars>>

DeleteRecord(id) ==
  /\ id \in deletions
  /\ records' = {r \in records : r.id # id}
  /\ deletions' = deletions \ {id}
  /\ UNCHANGED <<today, nextId, forest, goalVars, inventory, impacts, screen,
                 claimVars>>

-----------------------------------------------------------------------------
\* The store.

\* Fault: the balance is not asked for.
Sold(item) == item \in Permanent => inventory[item] = 0

Affordable(item) ==
  /\ item \in Permanent => inventory[item] = 0
  /\ forest.seedLedger >= Price[item]

BuyItem(item) ==
  /\ Affordable(item)
  /\ inventory[item] < MaxPurchases
  /\ inventory' = [inventory EXCEPT ![item] = @ + 1]
  /\ forest' = [forest EXCEPT
                  !.seedLedger = @ - Price[item],
                  !.streak.leaves = IF item = "protection_leaf" THEN @ + 1 ELSE @]
  /\ UNCHANGED <<today, records, nextId, goalVars, linkVars, screen, claimVars>>

-----------------------------------------------------------------------------
\* load: settle the transfers that are due, read the state, and raise the
\* growth high-water mark. Growth is in 1/1680 of a percent, exact for all terms.

\* Fault: transfers are settled the moment they are entered.
PendingTransfers == {c \in contributions : c.reward = "pending"}

DueTransfers == {c \in contributions : c.reward = "pending" /\ c.due}

BeginLoad(l) ==
  /\ screen[l].pc = "idle"
  /\ screen' = [screen EXCEPT ![l].pc = "settle",
                              ![l].due = {c.id : c \in DueTransfers}]
  /\ UNCHANGED <<activityVars, goalVars, inventory, linkVars, claimVars>>

\* The transaction of one transfer; it does not ask whether another load has
\* settled it since.
SettleTransfer(l, c) ==
  LET settled == [c EXCEPT !.reward = "awarded"]
      rows    == (contributions \ {c}) \cup {settled}
  IN  /\ screen[l].pc = "settle"
      /\ c.id \in screen[l].due
      /\ contributions' = rows
      /\ Reward(rows, settled)
      /\ screen' = [screen EXCEPT ![l].due = @ \ {c.id}]
      /\ UNCHANGED <<today, records, nextId, goals, nextContribution, inventory,
                     linkVars, claimVars>>

ReadStreak(l) ==
  /\ screen[l].pc = "settle"
  /\ screen[l].due = {}
  /\ screen' = [screen EXCEPT ![l].pc = "view", ![l].xp = forest.xp,
                              ![l].streak = forest.streak]
  /\ UNCHANGED <<activityVars, goalVars, inventory, linkVars, claimVars>>

AtMost(x, limit) == IF x > limit THEN limit ELSE x

\* completedDaysLast7
RecentDays == Cardinality({d \in CompletedDays(forest) : today - 6 <= d /\ d <= today})

\* _milestoneRatio of the primary goal, in percent: all its contributions count.
PrimaryGoals == {g \in Goals : goals[g].priority = 0}
GoalPercent ==
  LET reached(g) ==
        {p \in Percents : 100 * Saved(contributions, g) >= p * goals[g].target}
      best == UNION {reached(g) : g \in PrimaryGoals}
  IN  IF best = {} THEN 0 ELSE CHOOSE p \in best : \A q \in best : q <= p

ItemBonus ==
  IF "rainwater" \in Items /\ inventory["rainwater"] > 0 THEN 2 * 1680 ELSE 0

Growth(xp, current) ==
  AtMost(21 * AtMost(xp, 3200) + 1400 * AtMost(current, 30) + 4800 * RecentDays
           + 252 * GoalPercent + ItemBonus,
         168000)

\* _writeGrowthHighWater writes back every column as it was read.
WrittenBack(s, growth) == [s EXCEPT !.growth = growth]

ShowForest(l) ==
  LET s == screen[l].streak
      growth == Growth(screen[l].xp, s.current)
  IN  /\ screen[l].pc = "view"
      /\ forest' = IF growth > s.growth
                   THEN [forest EXCEPT !.streak = WrittenBack(s, growth)]
                   ELSE forest
      /\ screen' = [screen EXCEPT ![l] = IdleScreen]
      /\ UNCHANGED <<today, records, nextId, goalVars, inventory, linkVars,
                     claimVars>>

-----------------------------------------------------------------------------
\* Daily challenges. The screen offers what it last read; a tap asks the offered
\* copy, not the table, and taps run concurrently. claimXP marks the challenge,
\* reads the shown XP, adds the reward and writes it: the ledger is not touched.

Completed == {c \in Challenges : challenge[c] = "completed"}

EvaluateChallenge(c) ==
  /\ challenge[c] = "open"
  /\ challenge' = [challenge EXCEPT ![c] = "completed"]
  /\ offered' = Completed \cup {c}
  /\ UNCHANGED <<activityVars, goalVars, inventory, linkVars, screen, claim>>

BeginClaim(t, c) ==
  /\ claim[t].pc = "idle"
  /\ c \in offered
  /\ challenge' = [challenge EXCEPT ![c] = "claimed"]
  /\ claim' = [claim EXCEPT ![t].pc = "read", ![t].worth = xpReward[c]]
  /\ UNCHANGED <<activityVars, goalVars, inventory, linkVars, screen, offered>>

ReadStatus(t) ==
  /\ claim[t].pc = "read"
  /\ claim' = [claim EXCEPT ![t].pc = "write", ![t].xp = forest.xp]
  /\ UNCHANGED <<activityVars, goalVars, inventory, linkVars, screen, challenge,
                 offered>>

WriteStatus(t) ==
  /\ claim[t].pc = "write"
  /\ forest' = [forest EXCEPT !.xp = claim[t].xp + claim[t].worth]
  /\ claim' = [claim EXCEPT ![t].pc = "refresh"]
  /\ UNCHANGED <<today, records, nextId, goalVars, inventory, linkVars, screen,
                 challenge, offered>>

RefreshChallenges(t) ==
  /\ claim[t].pc = "refresh"
  /\ offered' = Completed
  /\ claim' = [claim EXCEPT ![t] = IdleClaim]
  /\ UNCHANGED <<activityVars, goalVars, inventory, linkVars, screen, challenge>>

-----------------------------------------------------------------------------
Init ==
  /\ ActivityInit
  /\ goals = << >>
  /\ contributions = {}
  /\ nextContribution = 1
  /\ milestones = {}
  /\ inventory = [i \in Items |-> 0]
  /\ impacts = {}
  /\ deletions = {}
  /\ screen = [l \in Screens |-> IdleScreen]
  /\ challenge = [c \in Challenges |-> "open"]
  /\ offered = {}
  /\ claim = [t \in Taps |-> IdleClaim]

ReviewDay(day) == RecordDailyReview(day) /\ UNCHANGED forestVars
Midnight == NextDay /\ UNCHANGED forestVars

FinanceNext ==
  \/ \E day \in Days, source \in {0} \cup Receipts, goal \in {0} \cup Goals,
        amount \in Amounts : SaveExpense(day, source, goal, amount)
  \/ \E day \in Days, goal \in {0} \cup Goals, amount \in Amounts :
        SaveIncome(day, goal, amount)
  \/ \E i \in impacts : CheckImpact(i) \/ ApplyExpense(i) \/ ApplyIncome(i)
  \/ \E id \in RecordIds : RemoveTransactionImpact(id) \/ DeleteRecord(id)
  \/ \E day \in Days : ReviewDay(day)
  \/ Midnight

GoalNext ==
  \/ \E target \in Targets, primary \in BOOLEAN : CreateGoal(target, primary)
  \/ \E goal \in Goals : SelectPrimaryGoal(goal)
  \/ \E goal \in Goals, amount \in Amounts, reward \in {"none", "pending"} :
        AddContribution(goal, amount, reward)
  \/ \E c \in contributions : TransferMatures(c)
  \/ \E item \in Items : BuyItem(item)

ScreenNext ==
  \/ \E l \in Screens :
        \/ BeginLoad(l)
        \/ \E c \in contributions : SettleTransfer(l, c)
        \/ ReadStreak(l)
        \/ ShowForest(l)
  \/ \E c \in Challenges :
        EvaluateChallenge(c) \/ \E t \in Taps : BeginClaim(t, c)
  \/ \E t \in Taps : ReadStatus(t) \/ WriteStatus(t) \/ RefreshChallenges(t)

Next == FinanceNext \/ GoalNext \/ ScreenNext

Spec == Init /\ [][Next]_vars

\* The steps in which a load that writes the streak row back finds it as it was
\* read: with other steps the row goes back in time (run stale_streak).
FreshWrites ==
  \A l \in Screens :
    screen[l].pc = "view" /\ screen'[l].pc = "idle" /\ forest' # forest
      => screen[l].streak = forest.streak

FreshSpec == Init /\ [][Next /\ FreshWrites]_vars

-----------------------------------------------------------------------------
TypeOK ==
  /\ ActivityTypeOK
  /\ goals \in Seq([target : Targets, priority : 0 .. MaxGoals])
  /\ contributions \subseteq Contribution
  /\ nextContribution \in 1 .. MaxContributions + 1
  /\ milestones \subseteq (1 .. MaxGoals) \X Percents
  /\ inventory \in [Items -> 0 .. MaxPurchases]
  /\ impacts \subseteq Impact
  /\ deletions \subseteq RecordIds
  /\ screen \in [Screens -> Screen]
  /\ challenge \in [Challenges -> {"open", "completed", "claimed"}]
  /\ offered \subseteq Challenges
  /\ claim \in [Taps -> Claim]

\* Neither ledger holds an entry without its cause, or twice: XP comes from the
\* awards of days and from paid milestones, seeds too, less the price of what
\* the store delivered. (living_forest_service.dart: buyItem,
\* _awardReachedMilestones; daily_activity_engine.dart: _award.)
LedgersBacked ==
  /\ forest.xpLedger = MapThenSumSet(LAMBDA a : a.xp, forest.awards)
                       + MapThenSumSet(LAMBDA m : milestoneXp[m[2]], milestones)
  /\ forest.seedLedger =
       MapThenSumSet(LAMBDA a : a.seeds, forest.awards)
       + MapThenSumSet(LAMBDA m : milestoneSeeds[m[2]], milestones)
       - MapThenSumSet(LAMBDA i : Price[i] * inventory[i], Items)
  /\ forest.seedLedger >= 0

\* Every contribution that counts as awarded has been recorded as an action of
\* its day, and every milestone that the awarded ones reach has been paid,
\* whichever load settled them and in whatever order.
AwardedIsPaid ==
  /\ \A c \in contributions :
       c.reward = "awarded" =>
         \E r \in forest.rows : /\ r.day = c.day
                                /\ r.ref = [type |-> "contribution", key |-> c.id]
  /\ \A g \in Goals : Reached(contributions, g) \subseteq Paid(g)

\* Unless there is no goal, exactly one is the primary goal.
OnePrimary ==
  goals # << >> => \E g \in Goals : PrimaryGoals = {g}

\* A confirmed transfer earns nothing before its 24 hours: an award for a
\* contribution is entered only for a linked record or a transfer that is due.
RewardsWait ==
  [][\A c \in contributions' :
       c.reward = "awarded" /\ c \notin contributions => c.record # 0 \/ c.due]_vars

\* A leaf is bought, or given up to bridge a missed day, and otherwise kept:
\* the missed days of the streak never outnumber the leaves that are gone.
LeavesBacked ==
  "protection_leaf" \in Items =>
    Cardinality(MissedDays) <= inventory["protection_leaf"] - forest.streak.leaves

\* A leaf leaves the streak row only when the streak crosses one missed day
\* (living_forest_service.dart:46).
LeafOnlyBridges ==
  [][forest'.streak.leaves < forest.streak.leaves =>
       /\ forest'.streak.leaves = forest.streak.leaves - 1
       /\ forest'.streak.last = forest.streak.last + 2
       /\ forest'.streak.current = forest.streak.current + 1]_vars

\* XP that was claimed counts from then on: while no claim is between its read
\* and its write, the shown XP never goes down
\* (gamification_repository_impl.dart: claimXP).
XpKept ==
  [][(\A t \in Taps : claim[t].pc \in {"idle", "refresh"})
       => forest'.xp >= forest.xp]_vars
=============================================================================
