---------------------------- MODULE RuntimeProofs ----------------------------
(***************************************************************************)
(* Theorems about two parts of the runtime that wait on timers and share   *)
(* nothing.                                                                *)
(*                                                                         *)
(* describe (Discovery): for any number of capabilities, policies and      *)
(* lanes, any budget and any tardiness of timers, a catalog is never long, *)
(* and short only where a policy was cut off in the last millisecond.      *)
(*                                                                         *)
(* The audit emitters and their sink (AuditDelivery): for any number of    *)
(* events, emitters and drains, with or without batching and for any size  *)
(* of a batch, an event is written once, and a drain that resolves leaves  *)
(* nothing behind.                                                         *)
(***************************************************************************)
EXTENDS Discovery, AuditDelivery, FiniteSetTheorems, WellFoundedInduction, TLAPS

-----------------------------------------------------------------------------
(***************************************************************************)
(* describe                                                                *)
(***************************************************************************)
\* The types that the proof needs.
LanesTyped ==
  /\ DOMAIN lane = Lanes
  /\ \A l \in Lanes : DOMAIN lane[l] = DOMAIN Idle /\ lane[l].stage \in Stages

StancesTyped ==
  /\ DOMAIN stances = Capabilities /\ DOMAIN catalog = Capabilities
  /\ \A c \in Capabilities :
       stances[c] \in Seq(Stances) /\ catalog[c] \in {"absent", "listed", "gated"}

AtWork(l) == lane[l].stage \in {"asking", "waiting", "spent"}

SomeThrew == \E l \in Lanes : Threw(l)

\* A policy about c failed, or was not asked or awaited to its end.
NotHeard(c) == SaidOf(c) \cap {"error", "late"} # {}

\* A lane that is at work is alone with its capability, about which no more
\* policies have said something than there are; if it has run out of time,
\* that is on record.
Lonely ==
  /\ \A l \in Lanes : AtWork(l) =>
       /\ Cap(l) \in Capabilities /\ Cap(l) < next
       /\ catalog[Cap(l)] = "absent"
       /\ Len(stances[Cap(l)]) <= PoliciesOf[Cap(l)]
       /\ lane[l].stage = "waiting" => Len(stances[Cap(l)]) < PoliciesOf[Cap(l)]
       /\ lane[l].stage = "spent" => NotHeard(Cap(l))
  /\ \A k, l \in Lanes : AtWork(k) /\ AtWork(l) /\ Cap(k) = Cap(l) => k = l

\* Nothing has happened to what is still to be taken.
Untouched ==
  \A c \in Capabilities : c >= next => stances[c] = <<>> /\ catalog[c] = "absent"

\* What a catalog says of one capability.
Exact(c) ==
  /\ catalog[c] = "absent" <=> Excluded(c)
  /\ catalog[c] # "absent" => Len(stances[c]) = PoliciesOf[c]
  /\ catalog[c] = "gated" <=>
       catalog[c] # "absent" /\ (c \in Gated \/ "require-approval" \in SaidOf(c))

\* It was taken and is no longer worked at.
Finished(c) == c < next /\ \A l \in Lanes : AtWork(l) => Cap(l) # c

\* What the lanes have left behind is exact, unless one of them threw.
LeftExact == \A c \in Capabilities : Finished(c) => Exact(c) \/ SomeThrew

\* The lanes do not return early, unless one of them threw; and when describe
\* answers they have all returned.
Ends ==
  /\ stopped => SomeThrew
  /\ \A l \in Lanes : lane[l].stage = "returned" => stopped \/ next > Candidates
  /\ result = "catalog" => \A l \in Lanes : lane[l].stage = "returned"

CatalogInv ==
  /\ next \in Nat \ {0} /\ LanesTyped /\ StancesTyped
  /\ Lonely /\ Untouched /\ LeftExact /\ Ends

-----------------------------------------------------------------------------
Below == {pair \in Nat \X Nat : pair[1] < pair[2]}

\* Of some natural numbers one is the least: Min is one of them.
LEMMA LeastNatural ==
  ASSUME NEW T \in SUBSET Nat, T # {}
  PROVE  \E x \in T : \A y \in T : x <= y
<1>1. IsWellFoundedOn(Below, Nat)
  BY NatLessThanWellFounded, Zenon DEF OpToRel, Below
<1>2. PICK x \in T : \A y \in T : <<y, x>> \notin Below
  <2> HIDE DEF Below
  <2> QED BY <1>1, WFMin
<1>3. ASSUME NEW y \in T PROVE x <= y
  <2>1. x \in Nat /\ y \in Nat
    OBVIOUS
  <2>2. <<y, x>> \in Nat \X Nat /\ <<y, x>>[1] = y /\ <<y, x>>[2] = x
    BY <2>1
  <2>3. ~(y < x)
    BY <1>2, <2>2 DEF Below
  <2> QED BY <2>1, <2>3
<1> QED BY <1>3

\* However few may run at a time, one does.
LEMMA SomeLane == 1 \in Lanes
<1> DEFINE few == Min({Concurrency, Candidates})
           many == Max({1, few})
<1>1. Concurrency \in Nat /\ Candidates \in Nat
  BY DiscoveryConstants
<1>2. few \in Nat
  <2>1. Concurrency <= Candidates \/ Candidates <= Concurrency
    BY <1>1
  <2>2. \E x \in {Concurrency, Candidates} : \A y \in {Concurrency, Candidates} : x <= y
    BY <1>1, <2>1
  <2>3. few \in {Concurrency, Candidates}
    BY <2>2 DEF Min
  <2> QED BY <1>1, <2>3
<1> HIDE DEF few
<1>3. many \in Nat /\ 1 <= many
  <2>1. \E x \in {1, few} : \A y \in {1, few} : x >= y
    BY <1>2
  <2>2. many \in {1, few} /\ \A y \in {1, few} : many >= y
    BY <2>1 DEF Max
  <2> QED BY <1>2, <2>2
<1> HIDE DEF many
<1>4. Lanes = 1..many
  BY DEF Lanes, many, few
<1> QED BY <1>3, <1>4

LEMMA ConstantsTyped ==
  /\ Candidates \in Nat /\ Capabilities = 1..Candidates
  /\ \A c \in Capabilities : c \in Nat /\ c <= Candidates /\ c >= 1 /\ PoliciesOf[c] \in Nat
BY DiscoveryConstants DEF Capabilities

LEMMA SaidMore ==
  ASSUME NEW s \in Seq(Stances), NEW stance \in Stances
  PROVE  /\ Append(s, stance) \in Seq(Stances) /\ Len(Append(s, stance)) = Len(s) + 1
         /\ Len(s) \in Nat
         /\ stance \in {Append(s, stance)[i] : i \in DOMAIN Append(s, stance)}
<1>1. Append(s, stance)[Len(s) + 1] = stance /\ Len(s) + 1 \in DOMAIN Append(s, stance)
  OBVIOUS
<1> QED BY <1>1

LEMMA CatalogInit == DescribeInit => CatalogInv
<1> SUFFICES ASSUME DescribeInit PROVE CatalogInv
  OBVIOUS
<1> USE DEF DescribeInit
<1>1. LanesTyped /\ StancesTyped
  BY DEF LanesTyped, StancesTyped, Idle, Stages
<1>2. \A l \in Lanes : lane[l].stage = "loop"
  BY DEF Idle
<1>3. Lonely /\ Ends
  BY <1>2 DEF Lonely, Ends, AtWork
<1>4. Untouched /\ LeftExact
  BY ConstantsTyped DEF Untouched, LeftExact, Finished
<1> QED BY <1>1, <1>3, <1>4 DEF CatalogInv

-----------------------------------------------------------------------------
\* A lane leaves what it has taken, or takes nothing.
LEMMA LeaveKeeps ==
  ASSUME CatalogInv, NEW l \in Lanes,
         NEW stage \in {"loop", "returned", "timeout", "unconvertible"},
         lane[l].stage \notin {"returned", "timeout", "unconvertible"}, Leave(l, stage),
         UNCHANGED <<stances, result>>, StancesTyped', NEW taken \in Nat,
         \/ AtWork(l) /\ taken = Cap(l) /\ next' = next
         \/ ~AtWork(l) /\ taken = next /\ next' = next + 1
         \/ ~AtWork(l) /\ taken = next /\ next' = next /\ UNCHANGED catalog,
         \A c \in Capabilities : c # taken => catalog'[c] = catalog[c],
         taken \in Capabilities /\ taken < next' =>
           Exact(taken)' \/ stage \in {"timeout", "unconvertible"},
         stopped => stopped', stopped' => stopped \/ stage = "timeout",
         stage = "returned" => stopped' \/ next' > Candidates
  PROVE  CatalogInv'
<1>1. /\ DOMAIN lane = Lanes /\ next \in Nat \ {0}
      /\ \A k \in Lanes : DOMAIN lane[k] = DOMAIN Idle /\ lane[k].stage \in Stages
  BY DEF CatalogInv, LanesTyped
<1>2. /\ DOMAIN lane' = Lanes /\ lane'[l].stage = stage /\ DOMAIN lane'[l] = DOMAIN Idle
      /\ \A k \in Lanes \ {l} : lane'[k] = lane[k]
  BY <1>1 DEF Leave, Idle
<1>3. LanesTyped'
  BY <1>1, <1>2 DEF LanesTyped, Stages
<1>4. next' \in Nat \ {0} /\ next' >= next
  BY <1>1
<1>5. \A k \in Lanes : AtWork(k)' => k # l /\ AtWork(k) /\ lane'[k] = lane[k]
  BY <1>2 DEF AtWork
<1>6. \A k \in Lanes : AtWork(k) => Cap(k) \in Capabilities /\ Cap(k) < next
  BY DEF CatalogInv, Lonely
<1>7. \A k \in Lanes \ {l} : AtWork(k) => Cap(k) # taken
  BY <1>1, <1>6, ConstantsTyped DEF CatalogInv, Lonely
<1>8. Lonely'
  <2>1. ASSUME NEW k \in Lanes, AtWork(k)'
        PROVE  /\ Cap(k)' \in Capabilities /\ Cap(k)' < next'
               /\ catalog'[Cap(k)'] = "absent"
               /\ Len(stances'[Cap(k)']) <= PoliciesOf[Cap(k)']
               /\ lane'[k].stage = "waiting" => Len(stances'[Cap(k)']) < PoliciesOf[Cap(k)']
               /\ lane'[k].stage = "spent" => NotHeard(Cap(k))'
    <3>1. k # l /\ AtWork(k) /\ lane'[k] = lane[k] /\ Cap(k)' = Cap(k)
      BY <1>5, <2>1 DEF Cap
    <3>2. /\ Cap(k) \in Capabilities /\ Cap(k) < next /\ catalog[Cap(k)] = "absent"
          /\ Len(stances[Cap(k)]) <= PoliciesOf[Cap(k)]
          /\ lane[k].stage = "waiting" => Len(stances[Cap(k)]) < PoliciesOf[Cap(k)]
          /\ lane[k].stage = "spent" => NotHeard(Cap(k))
      BY <3>1 DEF CatalogInv, Lonely
    <3>3. catalog'[Cap(k)] = catalog[Cap(k)]
      BY <1>7, <3>1, <3>2
    <3>4. Cap(k) < next'
      BY <1>1, <1>4, <3>2, ConstantsTyped
    <3>5. NotHeard(Cap(k))' = NotHeard(Cap(k))
      BY <3>1 DEF NotHeard, SaidOf
    <3> QED BY <3>1, <3>2, <3>3, <3>4, <3>5
  <2>2. ASSUME NEW j \in Lanes, NEW k \in Lanes, AtWork(j)', AtWork(k)', Cap(j)' = Cap(k)'
        PROVE  j = k
    BY <1>5, <2>2 DEF CatalogInv, Lonely, Cap
  <2> QED BY <2>1, <2>2 DEF Lonely
<1>9. Untouched'
  <2> SUFFICES ASSUME NEW c \in Capabilities, c >= next'
               PROVE  stances'[c] = <<>> /\ catalog'[c] = "absent"
    BY DEF Untouched
  <2>1. stances[c] = <<>> /\ catalog[c] = "absent"
    BY <1>1, <1>4, ConstantsTyped DEF CatalogInv, Untouched
  <2>2. catalog'[c] = catalog[c]
    BY <1>1, <1>6, ConstantsTyped
  <2> QED BY <2>1, <2>2
<1>10. /\ SomeThrew => SomeThrew'
       /\ stage \in {"timeout", "unconvertible"} => SomeThrew'
  BY <1>2 DEF SomeThrew, Threw
<1>11. LeftExact'
  <2> SUFFICES ASSUME NEW c \in Capabilities, Finished(c)'
               PROVE  Exact(c)' \/ SomeThrew'
    BY DEF LeftExact
  <2>1. CASE c = taken
    BY <2>1, <1>10 DEF Finished
  <2>2. CASE c # taken
    <3>1. c < next
      BY <2>2, <1>1, ConstantsTyped DEF Finished
    <3>2. \A k \in Lanes : AtWork(k) => Cap(k) # c
      <4> SUFFICES ASSUME NEW k \in Lanes, AtWork(k), Cap(k) = c PROVE FALSE
        OBVIOUS
      <4>1. k # l
        BY <2>2
      <4>2. AtWork(k)' /\ Cap(k)' = c
        BY <4>1, <1>2 DEF AtWork, Cap
      <4> QED BY <4>2 DEF Finished
    <3>3. Exact(c) \/ SomeThrew
      BY <3>1, <3>2 DEF CatalogInv, LeftExact, Finished
    <3>4. catalog'[c] = catalog[c] /\ stances'[c] = stances[c]
      BY <2>2
    <3> QED BY <3>3, <3>4, <1>10 DEF Exact, Excluded, SaidOf
  <2> QED BY <2>1, <2>2
<1>12. Ends'
  <2>1. stopped' => SomeThrew'
    BY <1>10 DEF CatalogInv, Ends
  <2>2. ASSUME NEW k \in Lanes, lane'[k].stage = "returned"
        PROVE  stopped' \/ next' > Candidates
    <3>1. CASE k = l
      BY <3>1, <2>2, <1>2
    <3>2. CASE k # l
      <4>1. stopped \/ next > Candidates
        BY <3>2, <2>2, <1>2 DEF CatalogInv, Ends
      <4> QED BY <4>1, <1>1, <1>4, ConstantsTyped
    <3> QED BY <3>1, <3>2
  <2>3. result # "catalog"
    BY DEF CatalogInv, Ends
  <2> QED BY <2>1, <2>2, <2>3 DEF Ends
<1> QED BY <1>3, <1>4, <1>8, <1>9, <1>11, <1>12 DEF CatalogInv

\* A policy of the capability that a lane has taken has said something.
LEMMA SaidKeeps ==
  ASSUME CatalogInv, NEW l \in Lanes, NEW stance \in Stances, NEW stage \in {"asking", "spent"},
         AtWork(l), Len(stances[Cap(l)]) < PoliciesOf[Cap(l)], Said(l, stance),
         stage = "spent" => stance \in {"error", "late"},
         DOMAIN lane' = DOMAIN lane, DOMAIN lane'[l] = DOMAIN lane[l],
         \A k \in Lanes \ {l} : lane'[k] = lane[k],
         lane'[l].cap = lane[l].cap, lane'[l].stage = stage,
         UNCHANGED <<next, stopped, catalog, result>>
  PROVE  CatalogInv'
<1> SUFFICES ASSUME NEW c, c = Cap(l) PROVE CatalogInv'
  OBVIOUS
<1>1. /\ c \in Capabilities /\ c < next /\ catalog[c] = "absent" /\ Cap(l)' = c
      /\ stances[c] \in Seq(Stances) /\ DOMAIN stances = Capabilities
      /\ Len(stances[c]) < PoliciesOf[c] /\ PoliciesOf[c] \in Nat
  BY ConstantsTyped DEF CatalogInv, Lonely, StancesTyped, Cap
<1>2. /\ stances'[c] = Append(stances[c], stance) /\ DOMAIN stances' = Capabilities
      /\ \A d \in Capabilities \ {c} : stances'[d] = stances[d]
  BY <1>1 DEF Said
<1>3. /\ stances'[c] \in Seq(Stances) /\ Len(stances'[c]) = Len(stances[c]) + 1
      /\ Len(stances[c]) \in Nat /\ stance \in SaidOf(c)'
  BY <1>1, <1>2, SaidMore DEF SaidOf
<1>4. StancesTyped'
  BY <1>1, <1>2, <1>3 DEF CatalogInv, StancesTyped
<1>5. LanesTyped'
  BY DEF CatalogInv, LanesTyped, Stages
<1>6. \A k \in Lanes : (AtWork(k)' <=> AtWork(k)) /\ Cap(k)' = Cap(k)
  BY <1>1 DEF AtWork, Cap
<1>7. \A k \in Lanes : /\ Threw(k)' <=> Threw(k)
                       /\ lane'[k].stage = "returned" <=> lane[k].stage = "returned"
  BY DEF AtWork, Threw
<1>8. Lonely'
  <2>1. ASSUME NEW k \in Lanes, AtWork(k)'
        PROVE  /\ Cap(k)' \in Capabilities /\ Cap(k)' < next'
               /\ catalog'[Cap(k)'] = "absent"
               /\ Len(stances'[Cap(k)']) <= PoliciesOf[Cap(k)']
               /\ lane'[k].stage = "waiting" => Len(stances'[Cap(k)']) < PoliciesOf[Cap(k)']
               /\ lane'[k].stage = "spent" => NotHeard(Cap(k))'
    <3>1. CASE k = l
      <4>1. Len(stances'[c]) <= PoliciesOf[c]
        BY <1>1, <1>3
      <4>2. lane'[l].stage = "spent" => NotHeard(c)'
        BY <1>3 DEF NotHeard
      <4>3. NotHeard(Cap(l))' = NotHeard(c)'
        BY <1>1 DEF NotHeard, SaidOf
      <4> QED BY <3>1, <4>1, <4>2, <4>3, <1>1
    <3>2. CASE k # l
      <4>1. AtWork(k) /\ Cap(k)' = Cap(k) /\ lane'[k] = lane[k]
        BY <3>2, <2>1, <1>6
      <4>2. Cap(k) # c /\ Cap(k) \in Capabilities
        BY <3>2, <4>1 DEF CatalogInv, Lonely
      <4>3. stances'[Cap(k)] = stances[Cap(k)]
        BY <4>2, <1>2
      <4>4. NotHeard(Cap(k))' = NotHeard(Cap(k))
        BY <4>1, <4>3 DEF NotHeard, SaidOf
      <4> QED BY <4>1, <4>3, <4>4 DEF CatalogInv, Lonely
    <3> QED BY <3>1, <3>2
  <2>2. ASSUME NEW j \in Lanes, NEW k \in Lanes, AtWork(j)', AtWork(k)', Cap(j)' = Cap(k)'
        PROVE  j = k
    BY <1>6, <2>2 DEF CatalogInv, Lonely
  <2> QED BY <2>1, <2>2 DEF Lonely
<1>9. Untouched'
  <2>1. \A d \in Capabilities : d >= next => d # c
    BY <1>1, ConstantsTyped DEF CatalogInv
  <2> QED BY <1>2, <2>1 DEF CatalogInv, Untouched
<1>10. SomeThrew' <=> SomeThrew
  BY <1>7 DEF SomeThrew
<1>11. LeftExact'
  <2> SUFFICES ASSUME NEW d \in Capabilities, Finished(d)'
               PROVE  Exact(d)' \/ SomeThrew'
    BY DEF LeftExact
  <2>1. Finished(d) /\ d # c
    BY <1>6 DEF Finished
  <2>2. Exact(d) \/ SomeThrew
    BY <2>1 DEF CatalogInv, LeftExact
  <2>3. stances'[d] = stances[d]
    BY <2>1, <1>2
  <2> QED BY <2>2, <2>3, <1>10 DEF Exact, Excluded, SaidOf
<1>12. Ends'
  BY <1>7, <1>10 DEF CatalogInv, Ends
<1> QED BY <1>4, <1>5, <1>8, <1>9, <1>11, <1>12 DEF CatalogInv

\* A policy of it has been asked and has not answered at once.
LEMMA WaitKeeps ==
  ASSUME CatalogInv, NEW l \in Lanes, MoreToAsk(l), NEW due,
         lane' = [lane EXCEPT ![l].stage = "waiting", ![l].due = due],
         UNCHANGED <<next, stopped, stances, catalog, result>>
  PROVE  CatalogInv'
<1>1. /\ DOMAIN lane = Lanes /\ DOMAIN lane[l] = DOMAIN Idle /\ lane[l].stage = "asking"
  BY DEF CatalogInv, LanesTyped, MoreToAsk
<1>2. /\ DOMAIN lane' = Lanes /\ DOMAIN lane'[l] = DOMAIN Idle
      /\ lane'[l].stage = "waiting" /\ lane'[l].cap = lane[l].cap
      /\ \A k \in Lanes \ {l} : lane'[k] = lane[k]
  BY <1>1 DEF Idle
<1>3. \A k \in Lanes : (AtWork(k)' <=> AtWork(k)) /\ Cap(k)' = Cap(k)
  BY <1>1, <1>2 DEF AtWork, Cap
<1>4. \A k \in Lanes : /\ Threw(k)' <=> Threw(k)
                       /\ lane'[k].stage = "returned" <=> lane[k].stage = "returned"
  BY <1>1, <1>2 DEF Threw
<1>5. LanesTyped' /\ StancesTyped' /\ Untouched'
  BY <1>2 DEF CatalogInv, LanesTyped, StancesTyped, Untouched, Stages
<1>6. Lonely'
  <2>1. ASSUME NEW k \in Lanes, AtWork(k)'
        PROVE  /\ Cap(k)' \in Capabilities /\ Cap(k)' < next'
               /\ catalog'[Cap(k)'] = "absent"
               /\ Len(stances'[Cap(k)']) <= PoliciesOf[Cap(k)']
               /\ lane'[k].stage = "waiting" => Len(stances'[Cap(k)']) < PoliciesOf[Cap(k)']
               /\ lane'[k].stage = "spent" => NotHeard(Cap(k))'
    <3>1. CASE k = l
      BY <3>1, <1>2, <1>3, <2>1 DEF CatalogInv, Lonely, MoreToAsk, Asked
    <3>2. CASE k # l
      <4>1. NotHeard(Cap(k))' = NotHeard(Cap(k))
        BY <1>3 DEF NotHeard, SaidOf
      <4> QED BY <3>2, <4>1, <1>2, <1>3, <2>1 DEF CatalogInv, Lonely
    <3> QED BY <3>1, <3>2
  <2>2. ASSUME NEW j \in Lanes, NEW k \in Lanes, AtWork(j)', AtWork(k)', Cap(j)' = Cap(k)'
        PROVE  j = k
    BY <1>3, <2>2 DEF CatalogInv, Lonely
  <2> QED BY <2>1, <2>2 DEF Lonely
<1>7. SomeThrew' <=> SomeThrew
  BY <1>4 DEF SomeThrew
<1>8. LeftExact'
  BY <1>3, <1>7 DEF CatalogInv, LeftExact, Finished, Exact, Excluded, SaidOf
<1>9. Ends'
  BY <1>4, <1>7 DEF CatalogInv, Ends
<1> QED BY <1>5, <1>6, <1>8, <1>9 DEF CatalogInv

\* The lane starts with the next capability.
LEMMA StartKeeps ==
  ASSUME CatalogInv, NEW l \in Lanes, lane[l].stage = "loop", next <= Candidates,
         PoliciesOf[next] > 0, NEW until,
         lane' = [lane EXCEPT ![l] =
           [stage |-> "asking", cap |-> next, due |-> 0, until |-> until]],
         next' = next + 1, UNCHANGED <<stopped, stances, catalog, result>>
  PROVE  CatalogInv'
<1>1. /\ DOMAIN lane = Lanes /\ next \in Nat \ {0} /\ next \in Capabilities /\ next < next'
  BY ConstantsTyped DEF CatalogInv, LanesTyped
<1>2. /\ DOMAIN lane' = Lanes /\ DOMAIN lane'[l] = DOMAIN Idle
      /\ lane'[l].stage = "asking" /\ lane'[l].cap = next
      /\ \A k \in Lanes \ {l} : lane'[k] = lane[k]
  BY <1>1 DEF Idle
<1>3. \A k \in Lanes \ {l} : (AtWork(k)' <=> AtWork(k)) /\ Cap(k)' = Cap(k)
  BY <1>2 DEF AtWork, Cap
<1>4. \A k \in Lanes : AtWork(k) => k # l /\ Cap(k) \in Capabilities /\ Cap(k) < next
  BY DEF CatalogInv, Lonely, AtWork
<1>5. \A k \in Lanes : /\ Threw(k)' <=> Threw(k)
                       /\ lane'[k].stage = "returned" <=> lane[k].stage = "returned"
  BY <1>2 DEF Threw
<1>6. LanesTyped' /\ StancesTyped'
  BY <1>2 DEF CatalogInv, LanesTyped, StancesTyped, Stages
<1>7. stances[next] = <<>> /\ catalog[next] = "absent"
  BY <1>1 DEF CatalogInv, Untouched
<1>8. Lonely'
  <2>1. ASSUME NEW k \in Lanes, AtWork(k)'
        PROVE  /\ Cap(k)' \in Capabilities /\ Cap(k)' < next'
               /\ catalog'[Cap(k)'] = "absent"
               /\ Len(stances'[Cap(k)']) <= PoliciesOf[Cap(k)']
               /\ lane'[k].stage = "waiting" => Len(stances'[Cap(k)']) < PoliciesOf[Cap(k)']
               /\ lane'[k].stage = "spent" => NotHeard(Cap(k))'
    <3>1. CASE k = l
      <4>1. Cap(k)' = next /\ lane'[k].stage = "asking"
        BY <3>1, <1>2 DEF Cap
      <4>2. Len(stances[next]) = 0 /\ 0 <= PoliciesOf[next]
        BY <1>1, <1>7, ConstantsTyped
      <4> QED BY <4>1, <4>2, <1>1, <1>7
    <3>2. CASE k # l
      <4>1. AtWork(k) /\ Cap(k)' = Cap(k) /\ lane'[k] = lane[k]
        BY <3>2, <2>1, <1>2, <1>3
      <4>2. Cap(k) < next'
        BY <4>1, <1>1, <1>4, ConstantsTyped
      <4>3. NotHeard(Cap(k))' = NotHeard(Cap(k))
        BY <4>1 DEF NotHeard, SaidOf
      <4> QED BY <4>1, <4>2, <4>3 DEF CatalogInv, Lonely
    <3> QED BY <3>1, <3>2
  <2>2. ASSUME NEW j \in Lanes, NEW k \in Lanes, AtWork(j)', AtWork(k)', Cap(j)' = Cap(k)'
        PROVE  j = k
    <3>1. CASE j # l /\ k # l
      BY <3>1, <1>3, <2>2 DEF CatalogInv, Lonely
    <3>2. \A i \in Lanes \ {l} : AtWork(i)' => Cap(i)' # Cap(l)'
      BY <1>1, <1>2, <1>3, <1>4, ConstantsTyped DEF Cap
    <3> QED BY <3>1, <3>2, <2>2
  <2> QED BY <2>1, <2>2 DEF Lonely
<1>9. Untouched'
  BY <1>1, ConstantsTyped DEF CatalogInv, Untouched
<1>10. SomeThrew' <=> SomeThrew
  BY <1>5 DEF SomeThrew
<1>11. LeftExact'
  <2> SUFFICES ASSUME NEW c \in Capabilities, Finished(c)'
               PROVE  Exact(c)' \/ SomeThrew'
    BY DEF LeftExact
  <2>1. c # next
    BY <1>2 DEF Finished, AtWork, Cap
  <2>2. c < next
    BY <2>1, <1>1, ConstantsTyped DEF Finished
  <2>3. \A k \in Lanes : AtWork(k) => Cap(k) # c
    BY <1>3, <1>4 DEF Finished
  <2> QED BY <2>2, <2>3, <1>10 DEF CatalogInv, LeftExact, Finished, Exact, Excluded, SaidOf
<1>12. Ends'
  BY <1>1, <1>5, <1>10, ConstantsTyped DEF CatalogInv, Ends
<1> QED BY <1>1, <1>6, <1>8, <1>9, <1>11, <1>12 DEF CatalogInv

-----------------------------------------------------------------------------
\* Entering a capability into the catalog leaves the others alone.
LEMMA EnterTyped ==
  ASSUME CatalogInv, NEW l \in Lanes, NEW c \in Capabilities, NEW gated, Enter(l, c, gated)
  PROVE  /\ \/ Leave(l, "loop") /\ catalog'[c] = IF gated THEN "gated" ELSE "listed"
            \/ Leave(l, "unconvertible") /\ catalog' = catalog
         /\ DOMAIN catalog' = Capabilities
         /\ \A d \in Capabilities : catalog'[d] \in {"absent", "listed", "gated"}
         /\ \A d \in Capabilities : d # c => catalog'[d] = catalog[d]
BY DEF CatalogInv, StancesTyped, Enter

\* The head of the loop: a lane takes a capability without policies, starts
\* the batch of another one, or leaves.
LEMMA TakeKeeps ==
  ASSUME CatalogInv, NEW l \in Lanes, Take(l)
  PROVE  CatalogInv'
<1> SUFFICES ASSUME NEW n, n = next PROVE CatalogInv'
  OBVIOUS
<1>1. /\ lane[l].stage = "loop" /\ UNCHANGED <<stances, result>> /\ ~AtWork(l)
      /\ n \in Nat \ {0} /\ next \in Nat /\ Candidates \in Nat
  BY ConstantsTyped DEF Take, AtWork, CatalogInv
<1>2. CASE stopped /\ Leave(l, "returned") /\ UNCHANGED <<next, stopped, catalog>>
  <2>1. StancesTyped'
    BY <1>1, <1>2 DEF CatalogInv, StancesTyped
  <2> QED BY <1>1, <1>2, <2>1, LeaveKeeps
<1>3. CASE /\ ~stopped /\ n > Candidates /\ next' = n + 1
           /\ Leave(l, "returned") /\ UNCHANGED <<stopped, catalog>>
  <2>1. StancesTyped'
    BY <1>1, <1>3 DEF CatalogInv, StancesTyped
  <2>2. n \notin Capabilities /\ next' > Candidates
    BY <1>1, <1>3, ConstantsTyped
  <2> QED BY <1>1, <1>3, <2>1, <2>2, LeaveKeeps
<1>4. CASE ~stopped /\ n <= Candidates /\ next' = n + 1
  <2>1. n \in Capabilities
    BY <1>1, <1>4, ConstantsTyped
  <2>2. stances[n] = <<>> /\ catalog[n] = "absent"
    BY <1>1, <2>1 DEF CatalogInv, Untouched
  <2>3. CASE PoliciesOf[next] = 0 /\ Enter(l, next, next \in Gated) /\ UNCHANGED stopped
    <3>1. /\ \/ Leave(l, "loop") /\ catalog'[n] = IF n \in Gated THEN "gated" ELSE "listed"
             \/ Leave(l, "unconvertible") /\ catalog' = catalog
          /\ DOMAIN catalog' = Capabilities
          /\ \A d \in Capabilities : catalog'[d] \in {"absent", "listed", "gated"}
          /\ \A d \in Capabilities : d # n => catalog'[d] = catalog[d]
      <4> DEFINE gated == n \in Gated
      <4>1. Enter(l, n, gated)
        BY <2>3
      <4> HIDE DEF gated
      <4>2. /\ \/ Leave(l, "loop") /\ catalog'[n] = IF gated THEN "gated" ELSE "listed"
               \/ Leave(l, "unconvertible") /\ catalog' = catalog
            /\ DOMAIN catalog' = Capabilities
            /\ \A d \in Capabilities : catalog'[d] \in {"absent", "listed", "gated"}
            /\ \A d \in Capabilities : d # n => catalog'[d] = catalog[d]
        BY <2>1, <4>1, EnterTyped
      <4> QED BY <4>2 DEF gated
    <3>2. StancesTyped'
      BY <1>1, <3>1 DEF CatalogInv, StancesTyped
    <3>3. CASE Leave(l, "unconvertible")
      BY <1>1, <1>4, <2>3, <3>1, <3>2, <3>3, LeaveKeeps
    <3>4. CASE Leave(l, "loop") /\ catalog'[n] = IF n \in Gated THEN "gated" ELSE "listed"
      <4>1. stances'[n] = <<>> /\ SaidOf(n)' = {} /\ Len(stances'[n]) = PoliciesOf[n]
        BY <1>1, <2>2, <2>3 DEF SaidOf
      <4>2. Exact(n)'
        BY <3>4, <4>1 DEF Exact, Excluded
      <4> QED BY <1>1, <1>4, <2>3, <3>1, <3>2, <3>4, <4>2, LeaveKeeps
    <3> QED BY <3>1, <3>3, <3>4
  <2>4. CASE OutOfTime(l) /\ UNCHANGED catalog
    <3>1. StancesTyped'
      BY <1>1, <2>4 DEF CatalogInv, StancesTyped
    <3>2. stopped' /\ Leave(l, "timeout")
      BY <2>4 DEF OutOfTime
    <3> QED BY <1>1, <1>4, <2>4, <3>1, <3>2, LeaveKeeps
  <2>5. CASE /\ PoliciesOf[next] > 0
             /\ lane' = [lane EXCEPT ![l] =
                  [stage |-> "asking", cap |-> next, due |-> 0, until |-> clock + BatchTimeout]]
             /\ UNCHANGED <<stopped, catalog>>
    BY <1>1, <1>4, <2>5, StartKeeps
  <2> QED BY <1>1, <1>4, <2>3, <2>4, <2>5 DEF Take
<1> QED BY <1>2, <1>3, <1>4 DEF Take

\* Whatever a batch hears, in time or not, is recorded.
LEMMA AnswersKeep ==
  ASSUME CatalogInv, NEW l \in Lanes
  PROVE  /\ \A block \in 0..MaxBlock : Ask(l, block) => CatalogInv'
         /\ AskNothing(l) => CatalogInv'
         /\ \A stance \in Decisions \cup {"error"} : Answer(l, stance) => CatalogInv'
         /\ CutOff(l) => CatalogInv'
<1>1. DOMAIN lane = Lanes /\ DOMAIN lane[l] = DOMAIN Idle /\ "stage" \in DOMAIN lane[l]
  BY DEF CatalogInv, LanesTyped, Idle
<1>2. \A stage \in {"asking", "spent"} : lane' = [lane EXCEPT ![l].stage = stage] =>
        /\ DOMAIN lane' = DOMAIN lane /\ DOMAIN lane'[l] = DOMAIN lane[l]
        /\ \A k \in Lanes \ {l} : lane'[k] = lane[k]
        /\ lane'[l].cap = lane[l].cap /\ lane'[l].stage = stage
  BY <1>1 DEF Idle
<1>3. MoreToAsk(l) =>
        AtWork(l) /\ Len(stances[Cap(l)]) < PoliciesOf[Cap(l)] /\ lane[l].stage = "asking"
  BY DEF MoreToAsk, AtWork, Asked
<1>4. lane[l].stage = "waiting" => AtWork(l) /\ Len(stances[Cap(l)]) < PoliciesOf[Cap(l)]
  BY DEF CatalogInv, Lonely, AtWork
<1>5. /\ "error" \in Stances /\ Decisions \cup {"error"} \subseteq Stances
      /\ GivenUp(l) \in Stances /\ GivenUp(l) \in {"error", "late"}
  BY DEF Stances, GivenUp
<1>6. ASSUME NEW block \in 0..MaxBlock, Ask(l, block) PROVE CatalogInv'
  <2>1. MoreToAsk(l) /\ UNCHANGED <<next, stopped, catalog, result>>
    BY <1>6 DEF Ask
  <2>2. CASE Said(l, "error") /\ UNCHANGED lane
    <3>1. lane'[l].stage = "asking"
      BY <1>3, <2>1, <2>2
    <3> QED BY <1>3, <1>5, <2>1, <2>2, <3>1, SaidKeeps
  <2>3. CASE \E due : /\ lane' = [lane EXCEPT ![l].stage = "waiting", ![l].due = due]
                      /\ UNCHANGED stances
    BY <2>1, <2>3, WaitKeeps
  <2> QED BY <1>6, <2>2, <2>3, Zenon DEF Ask
<1>7. ASSUME AskNothing(l) PROVE CatalogInv'
  BY <1>2, <1>3, <1>5, <1>7, SaidKeeps DEF AskNothing
<1>8. ASSUME NEW stance \in Decisions \cup {"error"}, Answer(l, stance) PROVE CatalogInv'
  BY <1>2, <1>4, <1>5, <1>8, SaidKeeps DEF Answer
<1>9. ASSUME CutOff(l) PROVE CatalogInv'
  BY <1>2, <1>4, <1>5, <1>9, SaidKeeps DEF CutOff
<1> QED BY <1>6, <1>7, <1>8, <1>9

\* Only a batch that has heard every policy lets a capability in.
LEMMA ConcludeKeeps ==
  ASSUME CatalogInv, NEW l \in Lanes, Conclude(l)
  PROVE  CatalogInv'
<1> SUFFICES ASSUME NEW c, c = Cap(l) PROVE CatalogInv'
  OBVIOUS
<1>1. /\ lane[l].stage \in {"asking", "spent"} /\ ~MoreToAsk(l)
      /\ UNCHANGED <<next, stances, result>>
  BY DEF Conclude
<1>2. /\ AtWork(l) /\ c \in Capabilities /\ c \in Nat /\ c < next /\ catalog[c] = "absent"
      /\ stances[c] \in Seq(Stances) /\ Len(stances[c]) <= PoliciesOf[c]
      /\ PoliciesOf[c] \in Nat
  BY <1>1, ConstantsTyped DEF CatalogInv, Lonely, AtWork, StancesTyped
<1>3. ~Excluded(c) => Len(stances[c]) = PoliciesOf[c]
  <2>1. CASE lane[l].stage = "spent"
    BY <2>1, <1>2 DEF CatalogInv, Lonely, NotHeard, Excluded, Excluding
  <2>2. CASE lane[l].stage = "asking"
    <3>1. ~(Len(stances[c]) < PoliciesOf[c])
      BY <2>2, <1>1 DEF MoreToAsk, Asked
    <3>2. Len(stances[c]) \in Nat
      BY <1>2
    <3> QED BY <3>1, <3>2, <1>2
  <2> QED BY <1>1, <2>1, <2>2
<1>4. Exact(c)' = (/\ catalog'[c] = "absent" <=> Excluded(c)
                   /\ catalog'[c] # "absent" => Len(stances[c]) = PoliciesOf[c]
                   /\ catalog'[c] = "gated" <=>
                        catalog'[c] # "absent" /\ (c \in Gated \/ "require-approval" \in SaidOf(c)))
  <2>1. SaidOf(c)' = SaidOf(c) /\ Excluded(c)' = Excluded(c)
    BY <1>1 DEF SaidOf, Excluded
  <2> QED BY <1>1, <2>1 DEF Exact
<1>5. CASE clock >= Budget /\ OutOfTime(l) /\ UNCHANGED catalog
  <2>1. StancesTyped'
    BY <1>1, <1>5 DEF CatalogInv, StancesTyped
  <2>2. stopped' /\ Leave(l, "timeout")
    BY <1>5 DEF OutOfTime
  <2> QED BY <1>1, <1>2, <1>5, <2>1, <2>2, LeaveKeeps
<1>6. CASE Excluded(c) /\ Leave(l, "loop") /\ UNCHANGED <<stopped, catalog>>
  <2>1. StancesTyped'
    BY <1>1, <1>6 DEF CatalogInv, StancesTyped
  <2>2. Exact(c)'
    BY <1>2, <1>4, <1>6
  <2> QED BY <1>1, <1>2, <1>6, <2>1, <2>2, LeaveKeeps
<1>7. CASE /\ ~Excluded(c) /\ UNCHANGED stopped
           /\ Enter(l, c, c \in Gated \/ "require-approval" \in SaidOf(c))
  <2> DEFINE gated == c \in Gated \/ "require-approval" \in SaidOf(c)
  <2>1. /\ \/ Leave(l, "loop") /\ catalog'[c] = IF gated THEN "gated" ELSE "listed"
           \/ Leave(l, "unconvertible") /\ catalog' = catalog
        /\ DOMAIN catalog' = Capabilities
        /\ \A d \in Capabilities : catalog'[d] \in {"absent", "listed", "gated"}
        /\ \A d \in Capabilities : d # c => catalog'[d] = catalog[d]
    BY <1>2, <1>7, EnterTyped
  <2>2. StancesTyped'
    BY <1>1, <2>1 DEF CatalogInv, StancesTyped
  <2>3. CASE Leave(l, "unconvertible")
    BY <1>1, <1>2, <1>7, <2>1, <2>2, <2>3, LeaveKeeps
  <2>4. CASE Leave(l, "loop") /\ catalog'[c] = IF gated THEN "gated" ELSE "listed"
    <3>1. Exact(c)'
      BY <1>3, <1>4, <1>7, <2>4
    <3> QED BY <1>1, <1>2, <1>7, <2>1, <2>2, <2>4, <3>1, LeaveKeeps
  <2> QED BY <2>1, <2>3, <2>4
<1> QED BY <1>1, <1>5, <1>6, <1>7, Zenon DEF Conclude

LEMMA CatalogNext == CatalogInv /\ [DescribeNext]_describeVars => CatalogInv'
<1> SUFFICES ASSUME CatalogInv, [DescribeNext]_describeVars PROVE CatalogInv'
  OBVIOUS
<1>1. ASSUME NEW l \in Lanes, LaneStep(l) PROVE CatalogInv'
  BY <1>1, TakeKeeps, AnswersKeep, ConcludeKeeps DEF LaneStep
<1>2. ASSUME NEW l \in Lanes, NEW stance \in Decisions \cup {"error"}, Answer(l, stance)
      PROVE  CatalogInv'
  BY <1>2, AnswersKeep
<1>3. CASE Settle
  <2>1. /\ UNCHANGED <<next, stopped, lane, stances, catalog>>
        /\ \A l \in Lanes : lane[l].stage = "returned" \/ Threw(l)
        /\ result' = IF \E l \in Lanes : Threw(l)
                       THEN lane[Min({l \in Lanes : Threw(l)})].stage ELSE "catalog"
    BY <1>3 DEF Settle
  <2>2. /\ LanesTyped' /\ StancesTyped' /\ Lonely' /\ Untouched' /\ LeftExact'
        /\ SomeThrew' = SomeThrew
    BY <2>1 DEF CatalogInv, LanesTyped, StancesTyped, Lonely, Untouched, LeftExact, AtWork, Cap,
                NotHeard, SaidOf, Finished, Exact, Excluded, SomeThrew, Threw
  <2>3. result' = "catalog" => \A l \in Lanes : lane[l].stage = "returned"
    <3>1. ASSUME NEW l \in Lanes, Threw(l) PROVE result' # "catalog"
      <4> DEFINE threw == {k \in Lanes : Threw(k)}
      <4>1. threw \in SUBSET Nat /\ threw # {}
        BY <3>1 DEF Lanes
      <4>2. Min(threw) \in threw
        <5> HIDE DEF threw
        <5>1. \E x \in threw : \A y \in threw : x <= y
          BY <4>1, LeastNatural
        <5> QED BY <5>1 DEF Min
      <4>3. Threw(Min(threw)) /\ result' = lane[Min(threw)].stage
        BY <2>1, <3>1, <4>2
      <4> QED BY <4>3 DEF Threw
    <3> QED BY <2>1, <3>1
  <2> QED BY <2>1, <2>2, <2>3 DEF CatalogInv, Ends
<1>4. CASE UNCHANGED <<next, stopped, lane, stances, catalog>> /\ result' \in {result, "refused", "none"}
  <2>1. \A c \in Capabilities : SaidOf(c)' = SaidOf(c)
    BY <1>4 DEF SaidOf
  <2>2. LanesTyped' /\ StancesTyped' /\ Untouched'
    BY <1>4 DEF CatalogInv, LanesTyped, StancesTyped, Untouched
  <2>3. Lonely'
    <3>1. \A l \in Lanes : NotHeard(Cap(l))' = NotHeard(Cap(l))
      BY <1>4 DEF NotHeard, SaidOf, Cap
    <3> QED BY <1>4, <3>1 DEF CatalogInv, Lonely, AtWork, Cap
  <2>4. LeftExact'
    BY <1>4, <2>1 DEF CatalogInv, LeftExact, AtWork, Cap, Finished, Exact, Excluded, SomeThrew, Threw
  <2>5. Ends'
    BY <1>4 DEF CatalogInv, Ends, SomeThrew, Threw
  <2> QED BY <1>4, <2>2, <2>3, <2>4, <2>5 DEF CatalogInv
<1> QED BY <1>1, <1>2, <1>3, <1>4, Zenon DEF DescribeNext, Tick, Call, describeVars

LEMMA CatalogInvariance == DescribeSpec => []CatalogInv
BY CatalogInit, CatalogNext, PTL DEF DescribeSpec

-----------------------------------------------------------------------------
(***************************************************************************)
(* The types of describe.  That next is bounded by the number of lanes     *)
(* needs a count: a lane that finds no candidate left has returned.        *)
(***************************************************************************)
Returned == {l \in Lanes : lane[l].stage = "returned"}

LaneRecords == [stage : Stages, cap : 0..Candidates, until : 0..Budget, due : Nat]

TypedInv ==
  /\ CatalogInv
  /\ clock \in 0..MaxClock /\ stopped \in BOOLEAN
  /\ lane \in [Lanes -> LaneRecords]
  /\ catalog \in [Capabilities -> {"absent", "listed", "gated"}]
  /\ \A c \in Capabilities : Len(stances[c]) <= PoliciesOf[c]
  /\ result \in {"uncalled", "refused", "none", "catalog", "timeout", "unconvertible"}
  /\ next <= Candidates + 1 + Cardinality(Returned)

LEMMA TimesTyped ==
  /\ Budget \in Nat \ {0} /\ PolicyTimeout \in Nat \ {0} /\ Millisecond \in Nat \ {0}
  /\ MaxBlock \in Nat /\ MaxClock = Budget + MaxBlock + Millisecond - 1
BY DiscoveryConstants DEF MaxClock

LEMMA LanesAreFinite == IsFiniteSet(Lanes)
<1> DEFINE few == Min({Concurrency, Candidates})
<1>1. \E x \in {Concurrency, Candidates} : \A y \in {Concurrency, Candidates} : x <= y
  BY DiscoveryConstants
<1>2. few \in Nat
  BY <1>1, DiscoveryConstants DEF Min
<1> HIDE DEF few
<1>3. \E x \in {1, few} : \A y \in {1, few} : x >= y
  BY <1>2
<1>4. Max({1, few}) \in Nat
  BY <1>2, <1>3 DEF Max
<1> QED BY <1>4, FS_Interval DEF Lanes, few

LEMMA ReturnedIsFinite ==
  ASSUME NEW S \in SUBSET Lanes
  PROVE  IsFiniteSet(S) /\ Cardinality(S) \in Nat /\ Cardinality(S) <= Cardinality(Lanes)
BY LanesAreFinite, FS_Subset, FS_CardinalityType

LEMMA ProductTyped ==
  ASSUME NEW m \in Nat, NEW k \in Nat
  PROVE  m * k \in Nat
OBVIOUS

LEMMA DelayTyped ==
  ASSUME NEW x \in Nat
  PROVE  Delay(x) \in Nat
<1> DEFINE whole == Millisecond * (x \div Millisecond)
<1>1. whole \in Nat
  <2>1. x \div Millisecond \in Nat
    BY TimesTyped
  <2> QED BY <2>1, TimesTyped, ProductTyped
<1> HIDE DEF whole
<1>2. \E y \in {Millisecond, whole} : \A z \in {Millisecond, whole} : y >= z
  BY <1>1, TimesTyped
<1> QED BY <1>1, <1>2, TimesTyped DEF Delay, Max, whole

LEMMA BatchTyped ==
  ASSUME clock \in Nat, clock < Budget
  PROVE  clock + BatchTimeout \in 0..Budget
<1> DEFINE left == Budget - clock
<1>1. left \in Nat /\ clock + left = Budget
  BY TimesTyped
<1> HIDE DEF left
<1>2. \E x \in {PolicyTimeout, left} : \A y \in {PolicyTimeout, left} : x <= y
  BY <1>1, TimesTyped
<1>3. BatchTimeout \in {PolicyTimeout, left} /\ BatchTimeout <= left
  BY <1>2 DEF BatchTimeout, Min, left
<1> QED BY <1>1, <1>3, TimesTyped

LEMMA LeaveTyped ==
  ASSUME lane \in [Lanes -> LaneRecords], NEW l \in Lanes, NEW stage \in Stages, Leave(l, stage)
  PROVE  lane' \in [Lanes -> LaneRecords] /\ lane' = [lane EXCEPT ![l] = lane'[l]]
         /\ lane'[l].stage = stage
<1>1. Idle \in LaneRecords
  BY TimesTyped, ConstantsTyped DEF Idle, LaneRecords, Stages
<1>2. [Idle EXCEPT !.stage = stage] \in LaneRecords
      /\ [Idle EXCEPT !.stage = stage].stage = stage
  BY <1>1 DEF LaneRecords
<1> QED BY <1>2 DEF Leave

\* A lane's step does not undo another lane's return.
LEMMA ReturnsKept ==
  ASSUME lane \in [Lanes -> LaneRecords], NEW l \in Lanes, NEW r, l \notin Returned,
         lane' = [lane EXCEPT ![l] = r]
  PROVE  /\ Cardinality(Returned) \in Nat /\ Cardinality(Returned') \in Nat
         /\ Cardinality(Returned) <= Cardinality(Returned')
         /\ r.stage = "returned" => Cardinality(Returned') = Cardinality(Returned) + 1
<1>1. Returned \in SUBSET Lanes /\ Returned' \in SUBSET Lanes
  BY DEF Returned
<1>2. Returned' = IF r.stage = "returned" THEN Returned \cup {l} ELSE Returned
  BY DEF Returned
<1> QED BY <1>1, <1>2, ReturnedIsFinite, FS_AddElement

\* What Leave does, in every action that leaves the loop's body.
LEMMA LeaveKeepsCount ==
  ASSUME TypedInv, NEW l \in Lanes, lane[l].stage # "returned",
         NEW stage \in Stages, Leave(l, stage)
  PROVE  /\ lane' \in [Lanes -> LaneRecords]
         /\ Cardinality(Returned) \in Nat /\ Cardinality(Returned') \in Nat
         /\ Cardinality(Returned) <= Cardinality(Returned')
         /\ stage = "returned" => Cardinality(Returned') = Cardinality(Returned) + 1
<1>1. lane \in [Lanes -> LaneRecords] /\ l \notin Returned
  BY DEF TypedInv, Returned
<1>2. lane' = [lane EXCEPT ![l] = [Idle EXCEPT !.stage = stage]]
      /\ [Idle EXCEPT !.stage = stage].stage = stage
  BY DEF Leave, Idle
<1> QED BY <1>1, <1>2, LeaveTyped, ReturnsKept

LEMMA StepCounts ==
  ASSUME TypedInv, NEW l \in Lanes, lane[l].stage # "returned", NEW r \in LaneRecords,
         lane' = [lane EXCEPT ![l] = r], r.stage # "returned"
  PROVE  /\ lane' \in [Lanes -> LaneRecords]
         /\ Cardinality(Returned) \in Nat /\ Cardinality(Returned') \in Nat
         /\ Cardinality(Returned) <= Cardinality(Returned')
<1>1. lane \in [Lanes -> LaneRecords] /\ l \notin Returned
  BY DEF TypedInv, Returned
<1> QED BY <1>1, ReturnsKept

LEMMA TakeTyped ==
  ASSUME TypedInv, CatalogInv', NEW l \in Lanes, Take(l)
  PROVE  TypedInv'
<1>1. /\ lane \in [Lanes -> LaneRecords] /\ lane[l].stage = "loop" /\ stopped \in BOOLEAN
      /\ next \in Nat \ {0} /\ clock \in Nat
      /\ catalog \in [Capabilities -> {"absent", "listed", "gated"}]
      /\ next <= Candidates + 1 + Cardinality(Returned)
      /\ UNCHANGED <<clock, stances, result>>
  BY TimesTyped DEF TypedInv, CatalogInv, Take
<1>2. /\ lane' \in [Lanes -> LaneRecords] /\ stopped' \in BOOLEAN
      /\ catalog' \in [Capabilities -> {"absent", "listed", "gated"}]
      /\ next' <= Candidates + 1 + Cardinality(Returned')
  <2>1. CASE stopped /\ Leave(l, "returned") /\ UNCHANGED <<next, stopped, catalog>>
    BY <1>1, <2>1, LeaveKeepsCount, ConstantsTyped DEF Stages
  <2>2. CASE next' = next + 1 /\ Leave(l, "returned") /\ UNCHANGED <<stopped, catalog>>
    BY <1>1, <2>2, LeaveKeepsCount, ConstantsTyped DEF Stages
  <2>3. CASE next <= Candidates /\ next' = next + 1
             /\ Enter(l, next, next \in Gated) /\ UNCHANGED stopped
    <3>1. PICK stage \in {"loop", "unconvertible"} : Leave(l, stage)
      BY <2>3 DEF Enter
    <3>2. catalog' \in [Capabilities -> {"absent", "listed", "gated"}]
      BY <1>1, <2>3 DEF Enter
    <3> QED BY <1>1, <2>3, <3>1, <3>2, LeaveKeepsCount, ConstantsTyped DEF Stages
  <2>4. CASE next <= Candidates /\ next' = next + 1 /\ OutOfTime(l) /\ UNCHANGED catalog
    BY <1>1, <2>4, LeaveKeepsCount, ConstantsTyped DEF OutOfTime, Stages
  <2>5. CASE /\ next <= Candidates /\ next' = next + 1 /\ clock < Budget
             /\ lane' = [lane EXCEPT ![l] =
                  [stage |-> "asking", cap |-> next, due |-> 0, until |-> clock + BatchTimeout]]
             /\ UNCHANGED <<stopped, catalog>>
    <3> DEFINE r == [stage |-> "asking", cap |-> next, due |-> 0,
                     until |-> clock + BatchTimeout]
    <3>1. r \in LaneRecords /\ r.stage # "returned"
      BY <1>1, <2>5, BatchTyped, ConstantsTyped DEF LaneRecords, Stages
    <3>2. lane' = [lane EXCEPT ![l] = r]
      BY <2>5
    <3> HIDE DEF r
    <3>3. /\ lane' \in [Lanes -> LaneRecords]
          /\ Cardinality(Returned) \in Nat /\ Cardinality(Returned') \in Nat
          /\ Cardinality(Returned) <= Cardinality(Returned')
      BY <1>1, <3>1, <3>2, StepCounts
    <3> QED BY <1>1, <2>5, <3>3, ConstantsTyped
  <2> QED BY <1>1, <2>1, <2>2, <2>3, <2>4, <2>5 DEF Take
<1> QED BY <1>1, <1>2 DEF TypedInv

\* One more policy has been heard.
LEMMA HeardTyped ==
  ASSUME TypedInv, CatalogInv', NEW l \in Lanes, NEW stance \in Stances, Said(l, stance),
         Cap(l) \in Capabilities, Len(stances[Cap(l)]) < PoliciesOf[Cap(l)]
  PROVE  \A c \in Capabilities : Len(stances'[c]) <= PoliciesOf[c]
<1>1. /\ stances' = [stances EXCEPT ![Cap(l)] = Append(stances[Cap(l)], stance)]
      /\ DOMAIN stances = Capabilities /\ stances[Cap(l)] \in Seq(Stances)
      /\ \A c \in Capabilities : Len(stances[c]) <= PoliciesOf[c]
  BY DEF Said, TypedInv, CatalogInv, StancesTyped
<1>2. Len(stances'[Cap(l)]) <= PoliciesOf[Cap(l)]
  BY <1>1, SaidMore, ConstantsTyped
<1> QED BY <1>1, <1>2

LEMMA AnswersTyped ==
  ASSUME TypedInv, CatalogInv', NEW l \in Lanes, NEW stance \in Stances,
         \/ AskNothing(l) /\ stance = GivenUp(l)
         \/ CutOff(l) /\ stance = GivenUp(l)
         \/ Answer(l, stance)
  PROVE  TypedInv'
<1>1. /\ lane \in [Lanes -> LaneRecords] /\ lane[l].stage # "returned"
      /\ Cap(l) \in Capabilities /\ Len(stances[Cap(l)]) < PoliciesOf[Cap(l)]
      /\ Said(l, stance)
      /\ UNCHANGED <<clock, next, stopped, catalog, result>>
  BY DEF TypedInv, CatalogInv, Lonely, AtWork, AskNothing, MoreToAsk, Asked, CutOff, Answer
<1>2. PICK stage \in {"asking", "spent"} : lane' = [lane EXCEPT ![l].stage = stage]
  BY DEF AskNothing, CutOff, Answer
<1>3. [lane[l] EXCEPT !.stage = stage] \in LaneRecords
  BY <1>1 DEF LaneRecords, Stages
<1>4. lane' = [lane EXCEPT ![l] = [lane[l] EXCEPT !.stage = stage]]
      /\ [lane[l] EXCEPT !.stage = stage].stage # "returned"
  BY <1>1, <1>2 DEF LaneRecords
<1>5. /\ lane' \in [Lanes -> LaneRecords]
      /\ Cardinality(Returned) \in Nat /\ Cardinality(Returned') \in Nat
      /\ Cardinality(Returned) <= Cardinality(Returned')
  BY <1>1, <1>3, <1>4, StepCounts
<1>6. next' <= Candidates + 1 + Cardinality(Returned')
  BY <1>1, <1>5, ConstantsTyped DEF TypedInv, CatalogInv
<1>7. \A c \in Capabilities : Len(stances'[c]) <= PoliciesOf[c]
  BY <1>1, HeardTyped
<1> QED BY <1>1, <1>5, <1>6, <1>7 DEF TypedInv

LEMMA AskTyped ==
  ASSUME TypedInv, CatalogInv', NEW l \in Lanes, NEW block \in 0..MaxBlock, Ask(l, block)
  PROVE  TypedInv'
<1>1. /\ lane \in [Lanes -> LaneRecords] /\ lane[l].stage = "asking"
      /\ Cap(l) \in Capabilities /\ Len(stances[Cap(l)]) < PoliciesOf[Cap(l)]
      /\ clock \in Nat /\ clock < lane[l].until /\ clock' = clock + block
      /\ UNCHANGED <<next, stopped, catalog, result>>
  BY TimesTyped DEF TypedInv, CatalogInv, Lonely, AtWork, Ask, MoreToAsk, Asked
<1>2. lane[l].until \in 0..Budget /\ lane[l].until - clock \in Nat
  BY <1>1, TimesTyped DEF LaneRecords
<1>3. clock' \in 0..MaxClock
  BY <1>1, <1>2, TimesTyped
<1>4. CASE /\ lane' = [lane EXCEPT ![l].stage = "waiting",
                                   ![l].due = clock + block + Delay(lane[l].until - clock)]
           /\ UNCHANGED stances
  <2> DEFINE due == clock + block + Delay(lane[l].until - clock)
             r == [lane[l] EXCEPT !.stage = "waiting", !.due = due]
  <2>1. due \in Nat
    <3> DEFINE delay == Delay(lane[l].until - clock)
    <3>1. delay \in Nat
      BY <1>2, DelayTyped
    <3> HIDE DEF delay
    <3>2. clock + block + delay \in Nat
      BY <1>1, <3>1, TimesTyped
    <3> QED BY <3>2 DEF delay
  <2>2. lane' = [lane EXCEPT ![l] = r]
    BY <1>1, <1>4
  <2> HIDE DEF due
  <2>3. r \in LaneRecords /\ r.stage # "returned"
    BY <1>1, <2>1 DEF LaneRecords, Stages
  <2> HIDE DEF r
  <2>4. /\ lane' \in [Lanes -> LaneRecords]
        /\ Cardinality(Returned) \in Nat /\ Cardinality(Returned') \in Nat
        /\ Cardinality(Returned) <= Cardinality(Returned')
    BY <1>1, <2>2, <2>3, StepCounts
  <2>5. next' <= Candidates + 1 + Cardinality(Returned')
    BY <1>1, <2>4, ConstantsTyped DEF TypedInv, CatalogInv
  <2> QED BY <1>1, <1>3, <1>4, <2>4, <2>5 DEF TypedInv
<1>5. CASE Said(l, "error") /\ UNCHANGED lane
  <2>1. \A c \in Capabilities : Len(stances'[c]) <= PoliciesOf[c]
    BY <1>1, <1>5, HeardTyped DEF Stances
  <2> QED BY <1>1, <1>3, <1>5, <2>1 DEF TypedInv, Returned
<1> QED BY <1>4, <1>5 DEF Ask

LEMMA ConcludeTyped ==
  ASSUME TypedInv, CatalogInv', NEW l \in Lanes, Conclude(l)
  PROVE  TypedInv'
<1>1. /\ lane[l].stage # "returned" /\ stopped' \in BOOLEAN
      /\ UNCHANGED <<clock, next, stances, result>>
  BY DEF TypedInv, Conclude, OutOfTime
<1>2. PICK stage \in {"loop", "timeout", "unconvertible"} : Leave(l, stage)
  BY DEF Conclude, OutOfTime, Enter
<1>3. catalog' \in [Capabilities -> {"absent", "listed", "gated"}]
  BY DEF TypedInv, Conclude, Enter
<1>4. /\ lane' \in [Lanes -> LaneRecords]
      /\ Cardinality(Returned) \in Nat /\ Cardinality(Returned') \in Nat
      /\ Cardinality(Returned) <= Cardinality(Returned')
  BY <1>1, <1>2, LeaveKeepsCount DEF Stages
<1>5. next' <= Candidates + 1 + Cardinality(Returned')
  BY <1>1, <1>4, ConstantsTyped DEF TypedInv, CatalogInv
<1> QED BY <1>1, <1>3, <1>4, <1>5 DEF TypedInv

LEMMA SettleTyped ==
  ASSUME TypedInv, CatalogInv', Settle
  PROVE  TypedInv'
<1>1. result' \in {"catalog", "timeout", "unconvertible"}
  <2>1. CASE \E l \in Lanes : Threw(l)
    <3> DEFINE threw == {k \in Lanes : Threw(k)}
    <3>1. threw \in SUBSET Nat /\ threw # {}
      BY <2>1 DEF Lanes
    <3>2. Min(threw) \in threw
      <4> HIDE DEF threw
      <4>1. \E x \in threw : \A y \in threw : x <= y
        BY <3>1, LeastNatural
      <4> QED BY <4>1 DEF Min
    <3>3. result' = lane[Min(threw)].stage /\ Threw(Min(threw))
      BY <2>1, <3>2 DEF Settle
    <3> QED BY <3>3 DEF Threw
  <2> QED BY <2>1 DEF Settle
<1> QED BY <1>1 DEF TypedInv, Settle, Returned

LEMMA TypedInvariance == DescribeSpec => []TypedInv
<1>1. DescribeInit => TypedInv
  <2> SUFFICES ASSUME DescribeInit PROVE TypedInv
    OBVIOUS
  <2>1. CatalogInv
    BY CatalogInit
  <2>2. Idle \in LaneRecords /\ lane \in [Lanes -> LaneRecords]
    BY TimesTyped, ConstantsTyped DEF DescribeInit, Idle, LaneRecords, Stages
  <2>3. Cardinality(Returned) \in Nat
    BY ReturnedIsFinite DEF Returned
  <2>4. clock \in 0..MaxClock /\ next <= Candidates + 1 + Cardinality(Returned)
    BY <2>3, TimesTyped, ConstantsTyped DEF DescribeInit
  <2>5. \A c \in Capabilities : Len(stances[c]) <= PoliciesOf[c]
    BY ConstantsTyped DEF DescribeInit
  <2> QED BY <2>1, <2>2, <2>4, <2>5 DEF DescribeInit, TypedInv
<1>2. TypedInv /\ [DescribeNext]_describeVars => TypedInv'
  <2> SUFFICES ASSUME TypedInv, [DescribeNext]_describeVars PROVE TypedInv'
    OBVIOUS
  <2>1. CatalogInv'
    BY CatalogNext DEF TypedInv
  <2>2. ASSUME NEW l \in Lanes, LaneStep(l) PROVE TypedInv'
    <3>1. CASE AskNothing(l) \/ CutOff(l)
      <4>1. GivenUp(l) \in Stances  BY DEF GivenUp, Stances
      <4> QED BY <2>1, <3>1, <4>1, AnswersTyped
    <3>2. CASE \E block \in 0..MaxBlock : Ask(l, block)
      BY <2>1, <3>2, AskTyped
    <3> QED BY <2>1, <2>2, <3>1, <3>2, TakeTyped, ConcludeTyped DEF LaneStep
  <2>3. ASSUME NEW l \in Lanes, NEW stance \in Decisions \cup {"error"}, Answer(l, stance)
        PROVE  TypedInv'
    BY <2>1, <2>3, AnswersTyped DEF Stances
  <2>4. CASE Settle
    BY <2>1, <2>4, SettleTyped
  <2>5. CASE Tick
    BY <2>1, <2>5, TimesTyped DEF Tick, TypedInv, Returned
  <2>6. CASE Call
    BY <2>1, <2>6 DEF Call, TypedInv, Returned
  <2>7. CASE UNCHANGED describeVars
    BY <2>1, <2>7 DEF describeVars, TypedInv, Returned
  <2> QED BY <2>2, <2>3, <2>4, <2>5, <2>6, <2>7, Zenon DEF DescribeNext
<1> QED BY <1>1, <1>2, PTL DEF DescribeSpec

\* Every variable of describe keeps its type; in particular a capability is
\* never said of more than it has policies, the clocks of its timers stay in
\* range, and next runs ahead of the candidates by no more than one for each
\* lane.
THEOREM DescribeTypes == DescribeSpec => []DescribeTypeOK
<1>1. TypedInv => DescribeTypeOK
  <2> SUFFICES ASSUME TypedInv PROVE DescribeTypeOK
    OBVIOUS
  <2>1. next \in 1..(Candidates + Cardinality(Lanes) + 1)
    <3>1. /\ Cardinality(Returned) \in Nat /\ Cardinality(Lanes) \in Nat
          /\ Cardinality(Returned) <= Cardinality(Lanes)
      BY ReturnedIsFinite DEF Returned
    <3>2. next \in Nat \ {0} /\ next <= Candidates + 1 + Cardinality(Returned)
      BY DEF TypedInv, CatalogInv
    <3> QED BY <3>1, <3>2, ConstantsTyped
  <2>2. ASSUME NEW c \in Capabilities
        PROVE  stances[c] \in UNION {[1..n -> Stances] : n \in 0..PoliciesOf[c]}
    <3>1. stances[c] \in Seq(Stances) /\ Len(stances[c]) <= PoliciesOf[c]
      BY DEF TypedInv, CatalogInv, StancesTyped
    <3>2. Len(stances[c]) \in 0..PoliciesOf[c]
          /\ stances[c] \in [1..Len(stances[c]) -> Stances]
      BY <3>1, ConstantsTyped
    <3> QED BY <3>2
  <2> QED BY <2>1, <2>2
          DEF TypedInv, CatalogInv, StancesTyped, DescribeTypeOK, LaneRecords
<1> QED BY <1>1, TypedInvariance, PTL

-----------------------------------------------------------------------------
(***************************************************************************)
(* What is given up for the end of describe's time is given up in its last *)
(* millisecond: the timer of a wait rounds its delay down by less.         *)
(***************************************************************************)
LateInv ==
  /\ \A l \in Lanes : lane[l].stage = "waiting" /\ lane[l].until = Budget =>
       lane[l].due > Budget - Millisecond
  /\ \A c \in Capabilities : "late" \in SaidOf(c) => clock > Budget - Millisecond

LEMMA DelayBound ==
  ASSUME NEW x \in Nat
  PROVE  Delay(x) > x - Millisecond
<1> DEFINE quotient == x \div Millisecond
           whole == Millisecond * quotient
<1>1. quotient \in Nat /\ whole \in Nat /\ whole > x - Millisecond
  <2>1. quotient \in Nat
    BY TimesTyped
  <2>2. x = whole + (x % Millisecond) /\ x % Millisecond \in 0..(Millisecond - 1)
    BY TimesTyped
  <2>3. whole \in Nat
    BY <2>1, TimesTyped, ProductTyped
  <2> HIDE DEF whole
  <2>4. whole > x - Millisecond
    BY <2>2, <2>3, TimesTyped
  <2> QED BY <2>1, <2>3, <2>4
<1> HIDE DEF whole
<1>2. \E y \in {Millisecond, whole} : \A z \in {Millisecond, whole} : y >= z
  BY <1>1, TimesTyped
<1>3. Delay(x) \in {Millisecond, whole} /\ Delay(x) >= whole
  BY <1>1, <1>2 DEF Delay, Max, whole
<1> QED BY <1>1, <1>3, TimesTyped

LEMMA SaidGrows ==
  ASSUME CatalogInv, NEW l \in Lanes, NEW stance, Said(l, stance), NEW c \in Capabilities
  PROVE  SaidOf(c)' \subseteq SaidOf(c) \cup {stance}
<1>1. stances[c] \in Seq(Stances) /\ DOMAIN stances = Capabilities
  BY DEF CatalogInv, StancesTyped
<1>2. stances'[c] \in {stances[c], Append(stances[c], stance)}
  BY <1>1 DEF Said
<1>3. \A i \in DOMAIN Append(stances[c], stance) :
        \/ i \in DOMAIN stances[c] /\ Append(stances[c], stance)[i] = stances[c][i]
        \/ Append(stances[c], stance)[i] = stance
  BY <1>1
<1> QED BY <1>2, <1>3 DEF SaidOf

\* A lane other than l is as it was; l is not waiting, or its timer is set as
\* it should be; and nobody is given up too early.
LEMMA LateKept ==
  ASSUME TypedInv, LateInv, NEW l \in Lanes, clock' >= clock, clock' \in Nat,
         \A k \in Lanes \ {l} : lane'[k] = lane[k],
         \/ lane'[l].stage # "waiting"
         \/ lane'[l].until = Budget => lane'[l].due > Budget - Millisecond,
         \/ UNCHANGED stances
         \/ \E stance : /\ Said(l, stance)
                        /\ stance = "late" => clock > Budget - Millisecond
  PROVE  LateInv'
<1>1. ASSUME NEW k \in Lanes, lane'[k].stage = "waiting", lane'[k].until = Budget
      PROVE  lane'[k].due > Budget - Millisecond
  BY <1>1 DEF LateInv
<1>2. ASSUME NEW c \in Capabilities, "late" \in SaidOf(c)'
      PROVE  clock > Budget - Millisecond
  <2>1. CASE UNCHANGED stances
    BY <1>2, <2>1 DEF LateInv, SaidOf
  <2>2. ASSUME NEW stance, Said(l, stance), stance = "late" => clock > Budget - Millisecond
        PROVE  clock > Budget - Millisecond
    <3>1. "late" \in SaidOf(c) \cup {stance}
      BY <1>2, <2>2, SaidGrows DEF TypedInv
    <3> QED BY <2>2, <3>1 DEF LateInv
  <2> QED BY <2>1, <2>2
<1>3. clock \in Nat
  BY TimesTyped DEF TypedInv
<1>4. \A c \in Capabilities : "late" \in SaidOf(c)' => clock' > Budget - Millisecond
  BY <1>2, <1>3, TimesTyped
<1> QED BY <1>1, <1>4 DEF LateInv

LEMMA LateNext == TypedInv /\ LateInv /\ [DescribeNext]_describeVars => LateInv'
<1> SUFFICES ASSUME TypedInv, LateInv, [DescribeNext]_describeVars PROVE LateInv'
  OBVIOUS
<1>1. lane \in [Lanes -> LaneRecords] /\ clock \in Nat
  BY TimesTyped DEF TypedInv
<1>2. ASSUME NEW l \in Lanes, Take(l) \/ Conclude(l) PROVE LateInv'
  <2>1. \E r : lane' = [lane EXCEPT ![l] = r] /\ r.stage # "waiting"
    <3>1. ASSUME NEW stage \in Stages \ {"waiting"}, Leave(l, stage)
          PROVE  \E r : lane' = [lane EXCEPT ![l] = r] /\ r.stage # "waiting"
      <4>1. [Idle EXCEPT !.stage = stage].stage = stage /\ stage # "waiting"
        BY <3>1 DEF Idle
      <4>2. lane' = [lane EXCEPT ![l] = [Idle EXCEPT !.stage = stage]]
        BY <3>1 DEF Leave
      <4> QED BY <4>1, <4>2
    <3> DEFINE start == [stage |-> "asking", cap |-> next, due |-> 0,
                         until |-> clock + BatchTimeout]
    <3>2. \/ Leave(l, "loop") \/ Leave(l, "returned") \/ Leave(l, "timeout")
          \/ Leave(l, "unconvertible") \/ lane' = [lane EXCEPT ![l] = start]
      BY <1>2 DEF Take, Conclude, Enter, OutOfTime
    <3>3. start.stage # "waiting"
      OBVIOUS
    <3> HIDE DEF start
    <3> QED BY <3>1, <3>2, <3>3 DEF Stages
  <2>2. UNCHANGED <<clock, stances>>
    BY <1>2 DEF Take, Conclude
  <2>3. lane'[l].stage # "waiting" /\ \A k \in Lanes \ {l} : lane'[k] = lane[k]
    BY <1>1, <2>1
  <2> QED BY <1>1, <2>2, <2>3, LateKept
<1>3. ASSUME NEW l \in Lanes, NEW stance, Said(l, stance), UNCHANGED clock,
             stance = "late" => clock > Budget - Millisecond,
             NEW stage \in {"asking", "spent"}, lane' = [lane EXCEPT ![l].stage = stage]
      PROVE  LateInv'
  <2>1. lane'[l].stage # "waiting" /\ \A k \in Lanes \ {l} : lane'[k] = lane[k]
    BY <1>1, <1>3 DEF LaneRecords
  <2> QED BY <1>1, <1>3, <2>1, LateKept
<1>4. ASSUME NEW l \in Lanes, AskNothing(l) PROVE LateInv'
  <2>1. GivenUp(l) = "late" => clock > Budget - Millisecond
    BY <1>1, <1>4, TimesTyped DEF AskNothing, GivenUp
  <2> QED BY <1>3, <1>4, <2>1 DEF AskNothing
<1>5. ASSUME NEW l \in Lanes, CutOff(l) PROVE LateInv'
  <2>1. lane[l].due \in Nat
    BY <1>1 DEF LaneRecords
  <2>2. GivenUp(l) = "late" => clock > Budget - Millisecond
    BY <1>1, <1>5, <2>1, TimesTyped DEF CutOff, GivenUp, LateInv
  <2> QED BY <1>3, <1>5, <2>2 DEF CutOff
<1>6. ASSUME NEW l \in Lanes, NEW stance \in Decisions \cup {"error"}, Answer(l, stance)
      PROVE  LateInv'
  <2>1. stance # "late"
    BY <1>6 DEF Decisions
  <2> QED BY <1>3, <1>6, <2>1 DEF Answer
<1>7. ASSUME NEW l \in Lanes, NEW block \in 0..MaxBlock, Ask(l, block) PROVE LateInv'
  <2> DEFINE remaining == lane[l].until - clock
             due == clock + block + Delay(remaining)
  <2>1. /\ clock < lane[l].until /\ clock' = clock + block /\ lane[l].stage = "asking"
        /\ \/ lane' = [lane EXCEPT ![l].stage = "waiting", ![l].due = due] /\ UNCHANGED stances
           \/ Said(l, "error") /\ UNCHANGED lane
    BY <1>7, Zenon DEF Ask, MoreToAsk
  <2>2. remaining \in Nat /\ lane[l].until \in Nat /\ block \in Nat
    BY <1>1, <2>1, TimesTyped DEF LaneRecords
  <2>3. lane[l].until = Budget => due > Budget - Millisecond
    <3> DEFINE delay == Delay(remaining)
    <3>1. delay \in Nat /\ delay > remaining - Millisecond
      BY <2>2, DelayTyped, DelayBound
    <3> HIDE DEF delay
    <3> QED BY <1>1, <2>2, <3>1, TimesTyped DEF delay
  <2>4. clock' >= clock /\ clock' \in Nat
    BY <1>1, <2>1, <2>2
  <2> HIDE DEF due
  <2>5. CASE lane' = [lane EXCEPT ![l].stage = "waiting", ![l].due = due] /\ UNCHANGED stances
    <3>1. /\ lane'[l].until = lane[l].until /\ lane'[l].due = due
          /\ \A k \in Lanes \ {l} : lane'[k] = lane[k]
      BY <1>1, <2>5 DEF LaneRecords
    <3> QED BY <2>3, <2>4, <2>5, <3>1, LateKept
  <2>6. CASE Said(l, "error") /\ UNCHANGED lane
    BY <2>1, <2>4, <2>6, LateKept
  <2> QED BY <2>1, <2>5, <2>6
<1>8. CASE /\ UNCHANGED <<lane, stances>> /\ clock' \in {clock, clock + 1}
  <2>1. 1 \in Lanes /\ lane' = lane
    BY <1>8, SomeLane
  <2>2. ASSUME NEW c \in Capabilities, "late" \in SaidOf(c)' PROVE clock' > Budget - Millisecond
    BY <1>1, <1>8, <2>2, TimesTyped DEF LateInv, SaidOf
  <2> QED BY <2>1, <2>2 DEF LateInv
<1>9. CASE Call \/ Settle \/ Tick \/ UNCHANGED describeVars
  BY <1>8, <1>9 DEF Call, Settle, Tick, describeVars
<1>10. ASSUME NEW l \in Lanes, LaneStep(l) PROVE LateInv'
  BY <1>2, <1>4, <1>5, <1>7, <1>10 DEF LaneStep
<1> QED BY <1>6, <1>9, <1>10, Zenon DEF DescribeNext

LEMMA LateInvariance == DescribeSpec => []LateInv
<1>1. DescribeInit => LateInv
  BY DEF DescribeInit, LateInv, Idle, SaidOf
<1> QED BY <1>1, LateNext, TypedInvariance, PTL DEF DescribeSpec

\* For any number of capabilities, policies and lanes, any budget and any
\* tardiness of policies and timers: when describe answers with a catalog,
\* every policy was heard about the capabilities in it and none said no or
\* failed, who must be approved is marked, and whatever is absent for no better
\* reason than the end of time was given up in the budget's last millisecond.
THEOREM CatalogsAreAccounted == DescribeSpec => []CatalogIsAccounted
<1>1. CatalogInv /\ LateInv => CatalogIsAccounted
  <2>1. ASSUME CatalogInv, result = "catalog", NEW c \in Capabilities
        PROVE  /\ catalog[c] = "absent" <=> Against(c) # {} \/ "late" \in SaidOf(c)
               /\ catalog[c] # "absent" => Len(stances[c]) = PoliciesOf[c]
               /\ catalog[c] = "gated" <=>
                    /\ catalog[c] # "absent"
                    /\ c \in Gated \/ "require-approval" \in SaidOf(c)
    <3>1. \A l \in Lanes : lane[l].stage = "returned"
      BY <2>1 DEF CatalogInv, Ends
    <3>2. ~SomeThrew /\ \A l \in Lanes : ~AtWork(l)
      BY <3>1 DEF SomeThrew, Threw, AtWork
    <3>3. next > Candidates
      BY <2>1, <3>1, <3>2, SomeLane DEF CatalogInv, Ends
    <3>4. Finished(c)
      BY <2>1, <3>2, <3>3, ConstantsTyped DEF Finished, CatalogInv
    <3>5. Exact(c)
      BY <2>1, <3>2, <3>4 DEF CatalogInv, LeftExact
    <3>6. Excluded(c) <=> Against(c) # {} \/ "late" \in SaidOf(c)
      BY DEF Excluded, Excluding, Against
    <3> QED BY <3>5, <3>6 DEF Exact
  <2> QED BY <2>1 DEF LateInv, CatalogIsAccounted
<1> QED BY <1>1, CatalogInvariance, LateInvariance, PTL

-----------------------------------------------------------------------------
(***************************************************************************)
(* The audit emitters and their sink                                       *)
(***************************************************************************)

Underway(e) == e \in buffer \/ \E w \in writes : e \in w

\* What a promise says about where its event is.
Placed(e) ==
  /\ promise[e] = "pending" <=> Underway(e)
  /\ promise[e] \in {"none", "pending"} => rows[e] = 0
  /\ promise[e] = "resolved" => rows[e] = 1
  /\ rows[e] <= 1

\* No event is in two places at once.
Apart ==
  /\ \A w \in writes : w \cap buffer = {}
  /\ \A w1, w2 \in writes : w1 # w2 => w1 \cap w2 = {}

AuditInv == TypeOK /\ Apart /\ \A e \in Events : Placed(e)

-----------------------------------------------------------------------------
\* Flushing sends what is held back, together with what has just been added.
LEMMA FlushSends ==
  ASSUME TypeOK, Apart, NEW held \in SUBSET Events, buffer \subseteq held,
         \A w \in writes : w \cap held = {}, Flush(held)
  PROVE  /\ buffer' = {} /\ timer' = "unset"
         /\ writes' \subseteq Inserts
         /\ Apart'
         /\ \A e \in Events : Underway(e)' <=> Underway(e) \/ e \in held
<1>1. buffer' = {} /\ timer' = "unset"  BY DEF Flush
<1>2. CASE held = {}
  <2>1. writes' = writes /\ buffer = {}  BY <1>2 DEF Flush
  <2>. QED  BY <1>1, <1>2, <2>1 DEF TypeOK, Apart, Underway
<1>3. CASE held # {}
  <2>1. writes' = writes \cup {held}  BY <1>3 DEF Flush
  <2>2. writes' \subseteq Inserts  BY <1>3, <2>1 DEF TypeOK, Inserts
  <2>3. Apart'  BY <1>1, <2>1 DEF Apart
  <2>4. \A e \in Events : Underway(e)' <=> Underway(e) \/ e \in held
    BY <1>1, <2>1 DEF Underway
  <2>. QED  BY <1>1, <2>2, <2>3, <2>4
<1>. QED  BY <1>2, <1>3

\* Flushing without a new event changes nothing about any event.
LEMMA FlushPlaces ==
  ASSUME AuditInv, Flush(buffer), UNCHANGED <<rows, promise>>
  PROVE  /\ buffer' = {} /\ timer' = "unset" /\ writes' \subseteq Inserts
         /\ Apart' /\ \A e \in Events : Placed(e)'
<1>1. /\ TypeOK /\ Apart /\ (\A e \in Events : Placed(e)) /\ buffer \in SUBSET Events
      /\ \A w \in writes : w \cap buffer = {}
  BY DEF AuditInv, TypeOK, Apart
<1>2. /\ buffer' = {} /\ timer' = "unset" /\ writes' \subseteq Inserts /\ Apart'
      /\ \A e \in Events : Underway(e)' <=> Underway(e)
  BY <1>1, FlushSends DEF Underway
<1>. QED  BY <1>1, <1>2 DEF Placed

LEMMA EmitPreserves ==
  ASSUME AuditInv, NEW e \in Events, Emit(e)
  PROVE  AuditInv'
<1>. DEFINE held == buffer \cup {e}
<1>1. /\ TypeOK /\ Apart /\ (\A x \in Events : Placed(x)) /\ promise[e] = "none"
      /\ promise' = [promise EXCEPT ![e] = "pending"]
      /\ UNCHANGED <<closed, rows, failures, drain, told>>
  BY DEF AuditInv, Emit, drainVars
<1>2. e \notin buffer /\ \A w \in writes : e \notin w
  BY <1>1 DEF Placed, Underway
<1>3. /\ held \in SUBSET Events /\ buffer \subseteq held
      /\ \A w \in writes : w \cap held = {}
  BY <1>1, <1>2 DEF TypeOK, Apart
<1>4. /\ buffer' \subseteq Events /\ timer' \in {"unset", "armed"}
      /\ writes' \subseteq Inserts
      /\ Apart'
      /\ \A x \in Events : Underway(x)' <=> Underway(x) \/ x = e
  <2>1. CASE Direct(e) /\ writes' = writes \cup {{e}} /\ UNCHANGED <<buffer, timer>>
    <3>1. writes' \subseteq Inserts  BY <1>1, <2>1 DEF TypeOK, Inserts
    <3>2. Apart'
      <4>1. \A w \in writes' : w \in writes \/ w = {e}  BY <2>1
      <4>2. \A w \in writes : w \cap {e} = {}  BY <1>2
      <4>3. buffer \cap {e} = {} /\ buffer' = buffer  BY <1>2, <2>1
      <4>. QED  BY <1>1, <4>1, <4>2, <4>3 DEF Apart
    <3>3. \A x \in Events : Underway(x)' <=> Underway(x) \/ x = e  BY <2>1 DEF Underway
    <3>. QED  BY <1>1, <2>1, <3>1, <3>2, <3>3 DEF TypeOK
  <2>2. CASE Flush(held)
    BY <1>1, <1>3, <2>2, FlushSends DEF Underway
  <2>3. CASE /\ buffer' = held /\ timer' = (IF timer = "unset" THEN "armed" ELSE timer)
             /\ UNCHANGED writes
    <3>1. Apart'  BY <1>1, <1>3, <2>3 DEF Apart
    <3>2. \A x \in Events : Underway(x)' <=> Underway(x) \/ x = e  BY <2>3 DEF Underway
    <3>. QED  BY <1>1, <1>3, <2>3, <3>1, <3>2 DEF TypeOK
  <2>. QED  BY <2>1, <2>2, <2>3 DEF Emit
<1>. HIDE DEF held
<1>5. TypeOK'  BY <1>1, <1>4 DEF TypeOK
<1>6. \A x \in Events : Placed(x)'
  <2>. SUFFICES ASSUME NEW x \in Events PROVE Placed(x)'
    OBVIOUS
  <2>1. promise'[x] = IF x = e THEN "pending" ELSE promise[x]  BY <1>1 DEF TypeOK
  <2>2. Underway(x)' <=> Underway(x) \/ x = e  BY <1>4
  <2>3. rows'[x] = rows[x] /\ Placed(x)  BY <1>1
  <2>. QED  BY <1>1, <2>1, <2>2, <2>3 DEF Placed
<1>. QED  BY <1>4, <1>5, <1>6 DEF AuditInv

\* A timer that fires, the end of the process and the start of a drain flush.
LEMMA FlushesPreserve ==
  ASSUME AuditInv, TimerFires \/ Close \/ \E d \in Drains : Drain(d)
  PROVE  AuditInv'
<1>1. Flush(buffer) /\ UNCHANGED <<rows, promise, failures, told>> /\ closed' \in BOOLEAN
  BY DEF TimerFires, Close, Drain, drainVars, AuditInv, TypeOK
<1>2. /\ buffer' = {} /\ timer' = "unset" /\ writes' \subseteq Inserts
      /\ Apart' /\ \A e \in Events : Placed(e)'
  BY <1>1, FlushPlaces
<1>3. drain' \in [Drains -> [stage : {"idle", "inner", "over"}, waits : SUBSET Inserts]]
  BY <1>2 DEF TimerFires, Close, Drain, drainVars, AuditInv, TypeOK
<1>4. TypeOK'  BY <1>1, <1>2, <1>3 DEF AuditInv, TypeOK
<1>. QED  BY <1>2, <1>4 DEF AuditInv

LEMMA InsertEndsPreserves ==
  ASSUME AuditInv, NEW w \in writes, NEW landed \in BOOLEAN, NEW ok \in BOOLEAN,
         InsertEnds(w, landed, ok)
  PROVE  AuditInv'
<1>1. /\ TypeOK /\ Apart /\ (\A e \in Events : Placed(e))
      /\ ok => landed
      /\ writes' = writes \ {w} /\ UNCHANGED <<buffer, timer, closed>>
      /\ rows' = [e \in Events |-> IF landed /\ e \in w THEN rows[e] + 1 ELSE rows[e]]
      /\ promise' = [e \in Events |->
                       IF e \in w THEN IF ok THEN "resolved" ELSE "rejected" ELSE promise[e]]
  BY DEF AuditInv, InsertEnds
<1>2. Apart'  BY <1>1 DEF Apart
<1>3. ASSUME NEW e \in Events PROVE Placed(e)' /\ rows'[e] \in Nat
  <2>0. rows[e] \in Nat /\ Placed(e)  BY <1>1 DEF TypeOK
  <2>1. CASE e \in w
    <3>1. Underway(e) /\ ~Underway(e)'  BY <1>1, <2>1 DEF Underway, Apart
    <3>2. rows[e] = 0  BY <2>0, <3>1 DEF Placed
    <3>3. /\ rows'[e] = IF landed THEN 1 ELSE 0
          /\ promise'[e] = IF ok THEN "resolved" ELSE "rejected"
      BY <1>1, <2>1, <3>2
    <3>. QED  BY <1>1, <3>1, <3>3 DEF Placed
  <2>2. CASE e \notin w
    <3>1. Underway(e)' <=> Underway(e)  BY <1>1, <2>2 DEF Underway
    <3>2. rows'[e] = rows[e] /\ promise'[e] = promise[e]  BY <1>1, <2>2
    <3>. QED  BY <2>0, <3>1, <3>2 DEF Placed
  <2>. QED  BY <2>1, <2>2
<1>4. TypeOK'
  <2>1. rows' \in [Events -> Nat]  BY <1>1, <1>3
  <2>2. promise' \in [Events -> {"none", "pending", "resolved", "rejected"}]
    BY <1>1 DEF TypeOK
  <2>3. failures' \in [Emitters -> SUBSET Events]
    BY <1>1 DEF InsertEnds, TypeOK, Inserts
  <2>4. drain' \in [Drains -> [stage : {"idle", "inner", "over"}, waits : SUBSET Inserts]]
    <3>1. \A d \in Drains :
            Settled(d, w, ok) \in
              [stage : {"idle", "inner", "over"}, waits : SUBSET Inserts]
      BY <1>1 DEF Settled, TypeOK
    <3>. QED  BY <3>1 DEF InsertEnds
  <2>5. told' \in [Drains -> {"nothing", "ok", "failed", "timeout"}]
    BY <1>1 DEF InsertEnds, TypeOK
  <2>6. buffer' \subseteq Events /\ timer' \in {"unset", "armed"} /\ closed' \in BOOLEAN
        /\ writes' \subseteq Inserts
    BY <1>1 DEF TypeOK
  <2>. QED  BY <2>1, <2>2, <2>3, <2>4, <2>5, <2>6 DEF TypeOK
<1>. QED  BY <1>2, <1>3, <1>4 DEF AuditInv

\* Joining and timing out are about what callers hear and failures they take.
LEMMA JoinPreserves ==
  ASSUME AuditInv, NEW d \in Drains, Join(d) \/ DrainTimesOut(d)
  PROVE  AuditInv'
<1>1. UNCHANGED <<buffer, timer, closed, writes, rows, promise>>
  BY DEF Join, DrainTimesOut, sinkVars
<1>2. Apart' /\ \A e \in Events : Placed(e)'
  BY <1>1 DEF AuditInv, Apart, Placed, Underway
<1>3. TypeOK'
  <2>1. CASE Join(d)
    <3>1. drain' \in [Drains -> [stage : {"idle", "inner", "over"}, waits : SUBSET Inserts]]
      BY <2>1 DEF Join, AuditInv, TypeOK
    <3>2. failures' \in [Emitters -> SUBSET Events]
      BY <2>1 DEF Join, AuditInv, TypeOK
    <3>3. told' \in [Drains -> {"nothing", "ok", "failed", "timeout"}]
      BY <2>1 DEF Join, Tell, AuditInv, TypeOK
    <3>. QED  BY <1>1, <3>1, <3>2, <3>3 DEF AuditInv, TypeOK
  <2>2. CASE DrainTimesOut(d)
    <3>1. told' \in [Drains -> {"nothing", "ok", "failed", "timeout"}]
      BY <2>2 DEF DrainTimesOut, Tell, AuditInv, TypeOK
    <3>2. UNCHANGED <<failures, drain>>
      BY <2>2 DEF DrainTimesOut
    <3>. QED  BY <1>1, <3>1, <3>2 DEF AuditInv, TypeOK
  <2>. QED  BY <2>1, <2>2
<1>. QED  BY <1>2, <1>3 DEF AuditInv

-----------------------------------------------------------------------------
LEMMA AuditInit == Init => AuditInv
<1>. SUFFICES ASSUME Init PROVE AuditInv
  OBVIOUS
<1>1. TypeOK
  <2>1. NoDrain \in [stage : {"idle", "inner", "over"}, waits : SUBSET Inserts]
    BY DEF NoDrain
  <2>. QED  BY <2>1 DEF Init, TypeOK
<1>2. Apart  BY DEF Init, Apart
<1>3. \A e \in Events : Placed(e)  BY DEF Init, Placed, Underway
<1>. QED  BY <1>1, <1>2, <1>3 DEF AuditInv

LEMMA AuditNext == AuditInv /\ [Next]_vars => AuditInv'
<1>. SUFFICES ASSUME AuditInv, [Next]_vars PROVE AuditInv'
  OBVIOUS
<1>1. CASE UNCHANGED vars
  BY <1>1 DEF vars, sinkVars, drainVars, AuditInv, TypeOK, Apart,
              Placed, Underway
<1>. QED  BY <1>1, EmitPreserves, FlushesPreserve, InsertEndsPreserves, JoinPreserves
          DEF Next, DrainStep

\* The invariant holds in every reachable state of every instance.
LEMMA AuditInvariance == Spec => []AuditInv
BY AuditInit, AuditNext, PTL DEF Spec

\* Type correctness of the emitters, the sink and the drains.
THEOREM AuditTypes == Spec => []TypeOK
<1>1. AuditInv => TypeOK  BY DEF AuditInv
<1>. QED  BY <1>1, AuditInvariance, PTL

\* However emits, timers, drains and close flush one buffer, no event comes
\* into the table twice, and a write resolves only when its event is there.
THEOREM EventsWrittenOnce == Spec => []WrittenOnce
<1>1. AuditInv => WrittenOnce  BY DEF AuditInv, Placed, WrittenOnce
<1>. QED  BY <1>1, AuditInvariance, PTL

\* Only the end of the inner function resolves a drain, and by then nothing
\* of its emitter is pending and no failure is left to be told.
LEMMA ResolvingCovers ==
  ASSUME TypeOK, [Next]_vars, NEW d \in Drains, Resolves(d),
         NEW e \in Emitted(d)
  PROVE  \/ promise[e] = "resolved"
         \/ promise[e] = "rejected" /\ e \notin failures[EmitterOf[d]]
<1>1. told[d] = "nothing" /\ told'[d] = "ok"  BY DEF Resolves
<1>2. Join(d)
  <2>1. CASE UNCHANGED told
    BY <1>1, <2>1
  <2>2. CASE \E w \in writes, landed, ok \in BOOLEAN : InsertEnds(w, landed, ok)
    BY <1>1, <2>2 DEF InsertEnds
  <2>3. ASSUME NEW x \in Drains, DrainTimesOut(x) PROVE FALSE
    <3>1. told' = [told EXCEPT ![x] = "timeout"]  BY <2>3 DEF DrainTimesOut, Tell
    <3>. QED  BY <1>1, <3>1 DEF TypeOK
  <2>4. ASSUME NEW x \in Drains, Join(x), x # d PROVE FALSE
    BY <1>1, <2>4 DEF Join, Tell, TypeOK
  <2>. QED  BY <2>1, <2>2, <2>3, <2>4
       DEF Next, DrainStep, Emit, TimerFires, Close, Drain,
           vars, drainVars
<1>3. failures[EmitterOf[d]] = {}
  BY <1>1, <1>2 DEF Join, Tell, TypeOK
<1>4. e \in Events /\ promise[e] \notin {"none", "pending"}
  BY <1>2 DEF Join, Joinable, Emitted
<1>. QED  BY <1>3, <1>4 DEF TypeOK

\* A drain that resolves leaves nothing behind.
THEOREM DrainsCover == Spec => DrainCovers
<1>1. AuditInv /\ [Next]_vars =>
        [\A d \in Drains : Resolves(d) => \A e \in Emitted(d) :
           \/ promise[e] = "resolved"
           \/ promise[e] = "rejected" /\ e \notin failures[EmitterOf[d]]]_vars
  BY ResolvingCovers DEF AuditInv
<1>. QED  BY <1>1, AuditInvariance, PTL DEF Spec, DrainCovers
=============================================================================
