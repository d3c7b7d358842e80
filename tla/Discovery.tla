------------------------------ MODULE Discovery ------------------------------
(***************************************************************************)
(* describe (core/src/runtime/describe.ts) and the policy batches it runs  *)
(* (core/src/runtime/policies.ts): a few lanes take one capability after   *)
(* the other, ask its discovery policies in order against one deadline of  *)
(* the batch, and enter what may be seen into the catalog.  One budget     *)
(* bounds the whole.  invoke and resume run the same batches, one at a     *)
(* time.                                                                   *)
(*                                                                         *)
(* Between two awaits a lane is alone; an action is what it does then.     *)
(* clock counts ticks of a fraction of a millisecond, as performance.now   *)
(* does, whereas setTimeout counts whole milliseconds, rounding down, and  *)
(* may always be late.  A policy may answer at once, later or never, and   *)
(* may block the process for a while first.                                *)
(*                                                                         *)
(* Candidates are the capabilities left by the exposure and scope filters, *)
(* in registry order.  Only policies that apply are counted; a capability  *)
(* without any has no batch.                                               *)
(***************************************************************************)
EXTENDS Naturals, Sequences, FiniteSets, FiniteSetsExt

CONSTANTS
  Candidates,       \* how many
  PoliciesOf,       \* PoliciesOf[c]: how many discovery policies apply to c
  Gated,            \* candidates with meta.approval.required
  Concurrency,      \* defaults.policyConcurrency
  Budget,           \* defaults.discoveryBudgetMs, in ticks
  PolicyTimeout,    \* defaults.policyTimeoutMs, in ticks
  Millisecond,      \* ticks of a millisecond
  MaxBlock          \* the longest a policy blocks the process, in ticks

Capabilities == 1..Candidates
Lanes == 1..Max({1, Min({Concurrency, Candidates})})

\* By then every timer has fired.
MaxClock == Budget + MaxBlock + Millisecond - 1

ASSUME DiscoveryConstants ==
  /\ Candidates \in Nat /\ Concurrency \in Nat /\ MaxBlock \in Nat
  /\ PoliciesOf \in [Capabilities -> Nat]
  /\ Gated \subseteq Capabilities
  /\ {Budget, PolicyTimeout, Millisecond} \subseteq Nat \ {0}

VARIABLES
  clock,
  next,       \* the candidate to be taken next
  stopped,    \* a lane has met the end of the budget
  lane,       \* lane[l]: where it is in describe and in its batch
  stances,    \* stances[c]: what the policies asked about c said, in order
  catalog,    \* catalog[c]: "absent", "listed" or "gated"
  result      \* "uncalled", "none" while describe runs, "catalog", or the error
              \* it rejects with

describeVars == <<clock, next, stopped, lane, stances, catalog, result>>

\* deny and hide exclude alike and are one decision here.  What is said of a
\* policy that failed, or was given up at the end of its batch, is "error"; the
\* code says so too of one given up because all of describe's time was over,
\* which here is "late".
Decisions == {"allow", "exclude", "require-approval"}
Stances == Decisions \cup {"error", "late"}

Stages == {"loop", "asking", "waiting", "spent", "returned", "timeout", "unconvertible"}

Idle == [stage |-> "loop", cap |-> 0, until |-> 0, due |-> 0]

DescribeTypeOK ==
  /\ clock \in 0..MaxClock
  /\ next \in 1..(Candidates + Cardinality(Lanes) + 1)
  /\ stopped \in BOOLEAN
  /\ lane \in [Lanes -> [stage : Stages, cap : 0..Candidates, until : 0..Budget, due : Nat]]
  /\ DOMAIN stances = Capabilities
  /\ \A c \in Capabilities : stances[c] \in UNION {[1..n -> Stances] : n \in 0..PoliciesOf[c]}
  /\ catalog \in [Capabilities -> {"absent", "listed", "gated"}]
  /\ result \in {"uncalled", "refused", "none", "catalog", "timeout", "unconvertible"}

DescribeInit ==
  /\ clock = 0 /\ next = 1 /\ stopped = FALSE
  /\ lane = [l \in Lanes |-> Idle]
  /\ stances = [c \in Capabilities |-> <<>>]
  /\ catalog = [c \in Capabilities |-> "absent"]
  /\ result = "uncalled"

-----------------------------------------------------------------------------
Cap(l) == lane[l].cap

\* The delay after which setTimeout(x) fires.
Delay(x) == Max({Millisecond, Millisecond * (x \div Millisecond)})

Leave(l, stage) == lane' = [lane EXCEPT ![l] = [Idle EXCEPT !.stage = stage]]

\* A malformed actor or scope is refused; otherwise the lanes start, with the
\* budget counted from now on.
Call ==
  /\ result = "uncalled"
  /\ result' \in {"refused", "none"}
  /\ UNCHANGED <<clock, next, stopped, lane, stances, catalog>>

Running == result = "none"

OutOfTime(l) == stopped' = TRUE /\ Leave(l, "timeout")

\* The descriptor is made; converting the schema may throw.
Enter(l, c, gated) ==
  \/ /\ catalog' = [catalog EXCEPT ![c] = IF gated THEN "gated" ELSE "listed"]
     /\ Leave(l, "loop")
  \/ Leave(l, "unconvertible") /\ UNCHANGED catalog

BatchTimeout == Min({PolicyTimeout, Budget - clock})

\* The head of the loop: the next candidate, until there is none.
Take(l) ==
  /\ Running
  /\ lane[l].stage = "loop"
  /\ \/ /\ stopped
        /\ Leave(l, "returned")
        /\ UNCHANGED <<next, stopped, catalog>>
     \/ /\ ~stopped /\ next > Candidates
        /\ next' = next + 1
        /\ Leave(l, "returned")
        /\ UNCHANGED <<stopped, catalog>>
     \/ /\ ~stopped /\ next <= Candidates
        /\ next' = next + 1
        /\ \/ /\ PoliciesOf[next] = 0
              /\ Enter(l, next, next \in Gated)
              /\ UNCHANGED stopped
           \/ /\ PoliciesOf[next] > 0 /\ clock >= Budget
              /\ OutOfTime(l)
              /\ UNCHANGED catalog
           \/ /\ PoliciesOf[next] > 0 /\ clock < Budget
              /\ lane' = [lane EXCEPT ![l] =
                   [stage |-> "asking", cap |-> next, due |-> 0,
                    until |-> clock + BatchTimeout]]
              /\ UNCHANGED <<stopped, catalog>>
  /\ UNCHANGED <<clock, stances, result>>

-----------------------------------------------------------------------------
(***************************************************************************)
(* evaluatePolicies                                                        *)
(***************************************************************************)
Said(l, stance) == stances' = [stances EXCEPT ![Cap(l)] = Append(@, stance)]

Asked(l) == Len(stances[Cap(l)])

MoreToAsk(l) == lane[l].stage = "asking" /\ Asked(l) < PoliciesOf[Cap(l)]

\* What it comes to when the time of the lane's batch is over.
GivenUp(l) == IF lane[l].until = Budget THEN "late" ELSE "error"

\* The next policy is asked, after how long a block ever; or it throws.
Ask(l, block) ==
  LET remaining == lane[l].until - clock IN
  /\ MoreToAsk(l) /\ clock < lane[l].until
  /\ clock' = clock + block
  /\ \/ /\ lane' = [lane EXCEPT ![l].stage = "waiting", ![l].due = clock + block + Delay(remaining)]
        /\ UNCHANGED stances
     \/ Said(l, "error") /\ UNCHANGED lane
  /\ UNCHANGED <<next, stopped, catalog, result>>

\* The batch budget is exhausted: nothing further is asked.
AskNothing(l) ==
  /\ MoreToAsk(l) /\ clock >= lane[l].until
  /\ Said(l, GivenUp(l))
  /\ lane' = [lane EXCEPT ![l].stage = "spent"]
  /\ UNCHANGED <<clock, next, stopped, catalog, result>>

\* The promise settles: with a decision, or with an error or no decision.
Answer(l, stance) ==
  /\ lane[l].stage = "waiting"
  /\ Said(l, stance)
  /\ lane' = [lane EXCEPT ![l].stage = "asking"]
  /\ UNCHANGED <<clock, next, stopped, catalog, result>>

\* Mutated: the timer only reports a slow policy.
CutOffPolitely(l) ==
  /\ lane[l].stage = "waiting" /\ clock >= lane[l].due
  /\ UNCHANGED describeVars

CutOff(l) ==
  /\ lane[l].stage = "waiting" /\ clock >= lane[l].due
  /\ Said(l, GivenUp(l))
  /\ lane' = [lane EXCEPT ![l].stage = "asking"]
  /\ UNCHANGED <<clock, next, stopped, catalog, result>>

-----------------------------------------------------------------------------
\* Mutated: a policy that fails is skipped.
ExcludingOpen(stance) == stance = "exclude"

\* outcome.failure, outcome.deny or outcome.hide.
Excluding(stance) == stance \notin {"allow", "require-approval"}

SaidOf(c) == {stances[c][i] : i \in DOMAIN stances[c]}

Excluded(c) == \E stance \in SaidOf(c) : Excluding(stance)

\* Back in the worker with the outcome of the batch.
Conclude(l) ==
  LET c == Cap(l) IN
  /\ lane[l].stage \in {"asking", "spent"} /\ ~MoreToAsk(l)
  /\ \/ clock >= Budget /\ OutOfTime(l) /\ UNCHANGED catalog
     \/ /\ clock < Budget /\ Excluded(c)
        /\ Leave(l, "loop")
        /\ UNCHANGED <<stopped, catalog>>
     \/ /\ clock < Budget /\ ~Excluded(c)
        /\ Enter(l, c, c \in Gated \/ "require-approval" \in SaidOf(c))
        /\ UNCHANGED stopped
  /\ UNCHANGED <<clock, next, stances, result>>

\* Promise.allSettled: the first lane that threw decides.
Threw(l) == lane[l].stage \in {"timeout", "unconvertible"}

Settle ==
  /\ Running
  /\ \A l \in Lanes : lane[l].stage = "returned" \/ Threw(l)
  /\ result' = IF \E l \in Lanes : Threw(l)
                 THEN lane[Min({l \in Lanes : Threw(l)})].stage
                 ELSE "catalog"
  /\ UNCHANGED <<clock, next, stopped, lane, stances, catalog>>

Tick ==
  /\ Running /\ clock < MaxClock
  /\ clock' = clock + 1
  /\ UNCHANGED <<next, stopped, lane, stances, catalog, result>>

LaneStep(l) ==
  \/ Take(l) \/ AskNothing(l) \/ CutOff(l) \/ Conclude(l)
  \/ \E block \in 0..MaxBlock : Ask(l, block)

DescribeNext ==
  \/ \E l \in Lanes : LaneStep(l) \/ \E s \in Decisions \cup {"error"} : Answer(l, s)
  \/ Call \/ Settle \/ Tick

DescribeSpec == DescribeInit /\ [][DescribeNext]_describeVars

\* Once called, the event loop goes on and time passes; a policy may never
\* answer.
DescribeFairness ==
  /\ WF_describeVars(Settle) /\ WF_describeVars(Tick)
  /\ \A l \in Lanes : WF_describeVars(LaneStep(l))

-----------------------------------------------------------------------------
\* What takes a capability out of the catalog, apart from the end of time.
Against(c) == SaidOf(c) \ {"allow", "require-approval", "late"}

\* A catalog is never long, and short only in the last millisecond: whichever
\* lanes took which capabilities in which order, who must wait for an approval
\* is marked, every policy has been heard about what is listed, and what is
\* absent is so because a policy said no or failed, unless it was given up
\* when less than a millisecond of the budget was left.
CatalogIsAccounted ==
  /\ result = "catalog" => \A c \in Capabilities :
       /\ catalog[c] = "absent" <=> Against(c) # {} \/ "late" \in SaidOf(c)
       /\ catalog[c] # "absent" => Len(stances[c]) = PoliciesOf[c]
       /\ catalog[c] = "gated" <=>
            catalog[c] # "absent" /\ (c \in Gated \/ "require-approval" \in SaidOf(c))
  /\ \A c \in Capabilities : "late" \in SaidOf(c) => clock > Budget - Millisecond

\* docs/reference/runtime.md:148: when the budget expires, discovery fails
\* instead of returning short.  What a catalog lacks was denied, hidden, or
\* had a policy that failed in its own time.
NeverShort ==
  result = "catalog" => \A c \in Capabilities : catalog[c] = "absent" => Against(c) # {}

\* describe answers although policies hang.
DescribeEnds == result = "none" ~> result # "none"
=============================================================================
