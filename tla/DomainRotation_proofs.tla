------------------------ MODULE DomainRotation_proofs ------------------------
(***************************************************************************)
(* Theorems of DomainRotation, for any number of domains, slots, accounts  *)
(* of a task, failure categories, retries, and persists that fail.         *)
(***************************************************************************)
EXTENDS DomainRotation, FiniteSetTheorems, WellFoundedInduction, TLAPS

\* One domain of a group h, for the accounts registered so far and in the
\* current task, and the timers that have fired.  In a running group a timer,
\* armed or fired, is that of the domain's present retry: a callback that comes
\* late finds the group winding up.
Item(h, p, acc, inT, f) ==
    /\ h.item[p] \in LiveItem <=> h.child[p] # "none"
    /\ h.item[p] \in {"pending", "retry_wait"} => acc[p] = 0
    /\ ~h.progress[p] => acc[p] = 0
    /\ h.child[p] # "none" => acc[p] = inT[p]
    /\ h.child[p] = "none" => inT[p] = 0
    /\ acc[p] <= Count
    /\ h.item[p] = "retry_wait" =>
          /\ h.state = "running"
          /\ h.retries[p] # 0
          /\ h.armed[p] = h.retries[p] \/ <<p, h.retries[p]>> \in f
    /\ h.state = "running" =>
          /\ h.armed[p] # 0 => h.item[p] = "retry_wait" /\ h.armed[p] = h.retries[p]
          /\ \A n \in 1..RetryLimit :
                <<p, n>> \in f => h.item[p] = "retry_wait" /\ n = h.retries[p]
    /\ h.item[p] = "pending" => h.state \in {"running", "lost"}

Sane(h, acc, inT, f) ==
    /\ Cardinality(InSlots(h)) <= Slots
    /\ \A p \in Positions : Item(h, p, acc, inT, f)

\* A group that runs has no domain that failed, nor has one that completed.
Good(h) ==
    /\ h.state = "running" =>
          \A p \in Positions :
              h.item[p] \in SlotItem \cup {"pending", "completed", "quality_rejected", "stopped"}
    /\ h.state = "completed" =>
          \A p \in Positions : h.item[p] \in {"completed", "quality_rejected", "stopped"}

\* What memory and database say of the group: its final state is persisted
\* before it leaves memory, and not before it is idle.
Standing ==
    /\ g.state \in TerminalGroup => Idle(g)
    /\ g.state \in ActiveGroup => g.kept /\ InSlots(g) # {} /\ db \in ActiveGroup
    /\ g.state \in TerminalGroup /\ g.kept => db \in ActiveGroup
    /\ g.state \in TerminalGroup /\ ~g.kept => db = g.state
    /\ g.state = "lost" =>
          /\ ~g.kept
          /\ db \notin ActiveGroup
          /\ \A p \in Positions : g.child[p] = "none" /\ g.armed[p] = 0

IInv ==
    /\ TypeOK
    /\ Sane(g, accounts, inTask, fired)
    /\ Good(g)
    /\ Standing

-----------------------------------------------------------------------------
(* Counting. *)

\* Among finitely many sets one has no strict subset among them.
LEMMA Smallest ==
  ASSUME NEW S, IsFiniteSet(S), NEW F, F # {}, \A U \in F : U \in SUBSET S
  PROVE  \E U \in F : \A V \in F : V \subseteq U => V = U
<1> DEFINE R == StrictSubsetOrdering(S)
<1>1. IsWellFoundedOn(R, SUBSET S)
  BY FS_FiniteSubsetsOfFinite, FS_StrictSubsetOrderingWellFounded
<1>2. \A U, V \in SUBSET S : V \subseteq U /\ V # U => <<V, U>> \in R
  BY DEF StrictSubsetOrdering
<1> HIDE DEF R
<1>3. F \subseteq SUBSET S
  OBVIOUS
<1>4. \E U \in F : \A V \in F : ~ (<<V, U>> \in R)
  BY <1>1, <1>3, WFMin
<1> QED
  BY <1>2, <1>3, <1>4

LEMMA LeastOf ==
  ASSUME NEW n \in Nat, NEW S \in SUBSET (1..n), S # {}
  PROVE  \E m \in S : \A k \in S : m <= k
<1> DEFINE Below(m) == {k \in S : k < m}
           F == {Below(m) : m \in S}
<1>1. \A i, m : i \in Below(m) <=> i \in S /\ i < m
  OBVIOUS
<1>2. /\ \A U \in F : U \in SUBSET (1..n)
      /\ F # {}
      /\ \A m \in S : Below(m) \in F
      /\ \A U \in F : \E m \in S : U = Below(m)
  OBVIOUS
<1> HIDE DEF F, Below
<1>3. PICK U \in F : \A V \in F : V \subseteq U => V = U
  <2>1. IsFiniteSet(1..n)
    BY FS_Interval
  <2> QED
    BY <1>2, <2>1, Smallest
<1>4. PICK m \in S : U = Below(m)
  BY <1>2
<1>5. ASSUME NEW k \in S, k < m PROVE FALSE
  <2>1. k \in Below(m) /\ k \notin Below(k)
    BY <1>1, <1>5
  <2>2. \A i \in Below(k) : i \in Below(m)
    <3> SUFFICES ASSUME NEW i \in Below(k) PROVE i \in Below(m)
      OBVIOUS
    <3>0. i \in S
      BY <1>1
    <3>1. i \in Int /\ k \in Int /\ m \in Int
      BY <3>0
    <3> QED
      BY <1>1, <1>5, <3>1
  <2> QED
    BY <1>2, <1>3, <1>4, <2>1, <2>2
<1> QED
  BY <1>5

LEMMA GreatestOf ==
  ASSUME NEW n \in Nat, NEW S \in SUBSET (1..n), S # {}
  PROVE  \E m \in S : \A k \in S : k <= m
<1> DEFINE Above(m) == {k \in S : k > m}
           F == {Above(m) : m \in S}
<1>1. \A i, m : i \in Above(m) <=> i \in S /\ i > m
  OBVIOUS
<1>2. /\ \A U \in F : U \in SUBSET (1..n)
      /\ F # {}
      /\ \A m \in S : Above(m) \in F
      /\ \A U \in F : \E m \in S : U = Above(m)
  OBVIOUS
<1> HIDE DEF F, Above
<1>3. PICK U \in F : \A V \in F : V \subseteq U => V = U
  <2>1. IsFiniteSet(1..n)
    BY FS_Interval
  <2> QED
    BY <1>2, <2>1, Smallest
<1>4. PICK m \in S : U = Above(m)
  BY <1>2
<1>5. ASSUME NEW k \in S, k > m PROVE FALSE
  <2>1. k \in Above(m) /\ k \notin Above(k)
    BY <1>1, <1>5
  <2>2. \A i \in Above(k) : i \in Above(m)
    <3> SUFFICES ASSUME NEW i \in Above(k) PROVE i \in Above(m)
      OBVIOUS
    <3>0. i \in S
      BY <1>1
    <3>1. i \in Int /\ k \in Int /\ m \in Int
      BY <3>0
    <3> QED
      BY <1>1, <1>5, <3>1
  <2> QED
    BY <1>2, <1>3, <1>4, <2>1, <2>2
<1> QED
  BY <1>5

\* The first elements of W, as many as are free: never more, and some if there
\* are any.
LEMMA FirstFit ==
  ASSUME NEW n \in Nat, NEW W \in SUBSET (1..n), NEW free \in Nat
  PROVE  LET first == {p \in W : Cardinality({q \in W : q < p}) < free}
         IN  /\ IsFiniteSet(first) /\ Cardinality(first) <= free
             /\ W # {} /\ free > 0 => first # {}
<1> DEFINE Before(p) == {q \in W : q < p}
           first == {p \in W : Cardinality(Before(p)) < free}
<1>1. IsFiniteSet(W) /\ IsFiniteSet(first)
  <2>1. IsFiniteSet(1..n)
    BY FS_Interval
  <2> QED
    BY <2>1, FS_Subset
<1>2. \A p \in W : IsFiniteSet(Before(p)) /\ Cardinality(Before(p)) \in Nat
  <2> SUFFICES ASSUME NEW p \in W
               PROVE  IsFiniteSet(Before(p)) /\ Cardinality(Before(p)) \in Nat
    OBVIOUS
  <2>1. IsFiniteSet(Before(p))
    BY <1>1, FS_Subset
  <2> QED
    BY <2>1, FS_CardinalityType
<1>3. Cardinality(first) <= free
  <2>1. CASE first = {}
    <3> HIDE DEF first
    <3>1. Cardinality(first) = 0
      BY <2>1, FS_EmptySet
    <3> QED
      BY <3>1
  <2>2. CASE first # {}
    <3>1. first \in SUBSET (1..n)
      OBVIOUS
    <3>2. PICK m \in first : \A k \in first : k <= m
      BY <2>2, <3>1, GreatestOf
    <3>3. m \in W /\ Cardinality(Before(m)) < free
      OBVIOUS
    <3>4. \A k \in first : k \in Before(m) \cup {m}
      <4> SUFFICES ASSUME NEW k \in first, k # m PROVE k < m
        OBVIOUS
      <4>1. k \in 1..n /\ m \in 1..n /\ k <= m
        BY <3>1, <3>2
      <4> QED
        BY <4>1
    <3>5. m \notin Before(m)
      BY <3>1
    <3> HIDE DEF first, Before
    <3>6. IsFiniteSet(Before(m)) /\ Cardinality(Before(m)) \in Nat
      BY <1>2, <3>3
    <3>7. /\ IsFiniteSet(Before(m) \cup {m})
          /\ Cardinality(Before(m) \cup {m}) = Cardinality(Before(m)) + 1
      BY <3>5, <3>6, FS_AddElement
    <3>8. first \in SUBSET (Before(m) \cup {m})
      BY <3>4
    <3>9. Cardinality(first) <= Cardinality(Before(m) \cup {m})
      BY <3>7, <3>8, FS_Subset
    <3>10. Cardinality(first) \in Nat
      BY <1>1, FS_CardinalityType
    <3> QED
      BY <3>3, <3>6, <3>7, <3>9, <3>10
  <2> QED
    BY <2>1, <2>2
<1>4. ASSUME W # {}, free > 0 PROVE first # {}
  <2>1. PICK m \in W : \A k \in W : m <= k
    BY <1>4, LeastOf
  <2>2. Before(m) = {}
    <3> SUFFICES ASSUME NEW k \in W, k < m PROVE FALSE
      OBVIOUS
    <3>1. k \in 1..n /\ m \in 1..n /\ m <= k
      BY <2>1
    <3> QED
      BY <3>1
  <2>3. Cardinality(Before(m)) = 0
    BY <2>2, FS_EmptySet
  <2> QED
    BY <1>4, <2>3
<1> QED
  BY <1>1, <1>3, <1>4

\* Domains can be counted.
LEMMA Countable ==
  ASSUME NEW S \in SUBSET Positions
  PROVE  IsFiniteSet(S) /\ Cardinality(S) \in Nat
<1>1. IsFiniteSet(Positions)
  BY GroupAssumption, FS_Interval DEF Positions
<1>2. IsFiniteSet(S)
  BY <1>1, FS_Subset
<1> QED
  BY <1>2, FS_CardinalityType

-----------------------------------------------------------------------------
(* The steps that the manager's methods are made of. *)

\* The fields of a group.
LEMMA GroupFields ==
  ASSUME NEW h \in Groups
  PROVE  /\ h.state \in ActiveGroup \cup TerminalGroup \cup {"lost"}
         /\ h.kept \in BOOLEAN
         /\ h.item \in [Positions -> ItemStates]
         /\ h.retries \in [Positions -> 0..RetryLimit]
         /\ h.trigger \in [Positions -> BOOLEAN]
         /\ h.progress \in [Positions -> BOOLEAN]
         /\ h.armed \in [Positions -> 0..RetryLimit]
         /\ h.events \in SUBSET (Codes \X Positions)
         /\ h.child \in [Positions -> {"none", "running", "ended"}]
         /\ h.moved \in [Positions -> BOOLEAN]
         /\ h.stop \in [Positions -> {"none", "after_current", "immediate"}]
BY DEF Groups

LEMMA SlotsOf ==
  ASSUME NEW h
  PROVE  /\ InSlots(h) \in SUBSET Positions
         /\ \A p : p \in InSlots(h) <=> p \in Positions /\ h.item[p] \in SlotItem
BY DEF InSlots

LEMMA StopRequestedType ==
  ASSUME NEW h \in Groups, NEW P, NEW mode \in {"after_current", "immediate"}
  PROVE  StopRequested(h, P, mode) \in [Positions -> {"none", "after_current", "immediate"}]
BY GroupFields DEF StopRequested

\* Winding up a group: nothing of it waits any more, and what runs goes on.
LEMMA FailingShape ==
  ASSUME NEW h \in Groups, NEW culprit
  PROVE  LET x == Failing(h, culprit)
         IN  /\ x \in Groups
             /\ x.state = "failing"
             /\ x.kept = h.kept /\ x.child = h.child /\ x.progress = h.progress
             /\ \A p \in Positions :
                   x.item[p] = IF h.item[p] = "pending" THEN "cancelled"
                               ELSE IF p = culprit THEN h.item[p]
                               ELSE IF h.item[p] = "retry_wait" THEN "technical_failed"
                               ELSE IF h.item[p] \in LiveItem THEN "draining"
                               ELSE h.item[p]
<1> DEFINE x == Failing(h, culprit)
           items == [p \in Positions |->
                      IF h.item[p] = "pending" THEN "cancelled"
                      ELSE IF p = culprit THEN h.item[p]
                      ELSE IF h.item[p] = "retry_wait" THEN "technical_failed"
                      ELSE IF h.item[p] \in LiveItem THEN "draining"
                      ELSE h.item[p]]
           stops == StopRequested(h, {p \in Positions \ {culprit} : h.item[p] \in LiveItem},
                                  "after_current")
<1>1. items \in [Positions -> ItemStates]
  BY GroupFields DEF ItemStates, SlotItem, LiveItem
<1>2. stops \in [Positions -> {"none", "after_current", "immediate"}]
  BY StopRequestedType
<1>3. NoTimers \in [Positions -> 0..RetryLimit]
  BY GroupAssumption DEF NoTimers
<1>4. x = [h EXCEPT !.state = "failing", !.armed = NoTimers, !.item = items, !.stop = stops]
  BY DEF Failing
<1>5. \A p \in Positions : items[p] =
                 IF h.item[p] = "pending" THEN "cancelled"
                 ELSE IF p = culprit THEN h.item[p]
                 ELSE IF h.item[p] = "retry_wait" THEN "technical_failed"
                 ELSE IF h.item[p] \in LiveItem THEN "draining"
                 ELSE h.item[p]
  OBVIOUS
<1> HIDE DEF x, items, stops
<1>6. x.state = "failing" /\ x.item = items /\ x.kept = h.kept /\ x.child = h.child
      /\ x.progress = h.progress
  BY <1>4 DEF Groups
<1>7. x \in Groups
  BY <1>1, <1>2, <1>3, <1>4 DEF Groups, ActiveGroup
<1> QED
  BY <1>5, <1>6, <1>7 DEF x

LEMMA FailingSane ==
  ASSUME NEW h \in Groups, NEW culprit \in Positions, NEW acc, NEW inT, NEW f,
         Sane(h, acc, inT, f), h.item[culprit] \notin SlotItem
  PROVE  LET x == Failing(h, culprit)
         IN  /\ x \in Groups /\ x.state = "failing" /\ x.kept = h.kept
             /\ Sane(x, acc, inT, f) /\ Good(x)
<1> DEFINE x == Failing(h, culprit)
<1>1. /\ x \in Groups /\ x.state = "failing"
      /\ x.kept = h.kept /\ x.child = h.child /\ x.progress = h.progress
      /\ \A p \in Positions :
            x.item[p] = IF h.item[p] = "pending" THEN "cancelled"
                        ELSE IF p = culprit THEN h.item[p]
                        ELSE IF h.item[p] = "retry_wait" THEN "technical_failed"
                        ELSE IF h.item[p] \in LiveItem THEN "draining"
                        ELSE h.item[p]
  BY FailingShape
<1> HIDE DEF x
<1>2. Good(x)
  BY <1>1 DEF Good
<1>3. \A p \in Positions : x.item[p] \in SlotItem => h.item[p] \in SlotItem
  BY <1>1 DEF SlotItem, LiveItem
<1>4. Cardinality(InSlots(x)) <= Slots
  <2>1. InSlots(x) \in SUBSET InSlots(h)
    BY <1>3, SlotsOf
  <2>2. IsFiniteSet(InSlots(h)) /\ Cardinality(InSlots(h)) \in Nat
    BY SlotsOf, Countable
  <2>3. Cardinality(InSlots(x)) \in Nat
    BY SlotsOf, Countable
  <2>4. Cardinality(InSlots(x)) <= Cardinality(InSlots(h))
    BY <2>1, <2>2, FS_Subset
  <2> QED
    BY <2>2, <2>3, <2>4, GroupAssumption DEF Sane
<1>5. ASSUME NEW p \in Positions PROVE Item(x, p, acc, inT, f)
  <2>1. Item(h, p, acc, inT, f)
    BY DEF Sane
  <2> QED
    BY <1>1, <2>1 DEF Item, SlotItem, LiveItem
<1> QED
  BY <1>1, <1>2, <1>4, <1>5 DEF Sane, x

\* Domains that waited are started, in slots that were free.
LEMMA StartedSane ==
  ASSUME NEW h \in Groups, NEW P \in SUBSET Positions, NEW acc, NEW inT, NEW f,
         Sane(h, acc, inT, f), Good(h), h.state = "running",
         \A p \in P : h.item[p] = "pending",
         Cardinality(InSlots(h)) + Cardinality(P) <= Slots
  PROVE  LET x == Started(h, P)
         IN  /\ x \in Groups /\ x.state = "running" /\ x.kept = h.kept
             /\ Sane(x, acc, inT, f) /\ Good(x)
             /\ \A p \in Positions :
                   /\ x.item[p] = IF p \in P THEN "active" ELSE h.item[p]
                   /\ p \notin P => x.child[p] = h.child[p]
<1> DEFINE x == Started(h, P)
           items == [p \in Positions |-> IF p \in P THEN "active" ELSE h.item[p]]
           tasks == [p \in Positions |-> IF p \in P THEN "running" ELSE h.child[p]]
<1>1. items \in [Positions -> ItemStates]
  BY GroupFields DEF ItemStates, SlotItem, LiveItem
<1>2. tasks \in [Positions -> {"none", "running", "ended"}]
  BY GroupFields
<1>3. x = [h EXCEPT !.item = items, !.child = tasks]
  BY DEF Started
<1>4. \A p \in Positions :
        /\ items[p] = IF p \in P THEN "active" ELSE h.item[p]
        /\ tasks[p] = IF p \in P THEN "running" ELSE h.child[p]
  OBVIOUS
<1> HIDE DEF x, items, tasks
<1>5. /\ x.item = items /\ x.child = tasks
      /\ x.state = h.state /\ x.kept = h.kept /\ x.retries = h.retries
      /\ x.progress = h.progress /\ x.armed = h.armed
  BY <1>3 DEF Groups
<1>6. x \in Groups
  BY <1>1, <1>2, <1>3 DEF Groups
<1>7. Good(x)
  BY <1>4, <1>5 DEF Good, SlotItem, LiveItem
<1>8. \A p \in Positions : p \in P \/ (x.item[p] = h.item[p])
  BY <1>4, <1>5
<1>9. Cardinality(InSlots(x)) <= Slots
  <2>1. InSlots(x) \in SUBSET (InSlots(h) \cup P)
    BY <1>8, SlotsOf
  <2>2. /\ IsFiniteSet(InSlots(h)) /\ Cardinality(InSlots(h)) \in Nat
        /\ IsFiniteSet(InSlots(x)) /\ Cardinality(InSlots(x)) \in Nat
        /\ IsFiniteSet(P) /\ Cardinality(P) \in Nat
    BY SlotsOf, Countable
  <2>3. /\ IsFiniteSet(InSlots(h) \cup P)
        /\ Cardinality(InSlots(h) \cup P)
              = Cardinality(InSlots(h)) + Cardinality(P) - Cardinality(InSlots(h) \cap P)
    BY <2>2, FS_Union
  <2>4. Cardinality(InSlots(h) \cap P) \in Nat /\ Cardinality(InSlots(h) \cup P) \in Nat
    BY SlotsOf, Countable
  <2>5. Cardinality(InSlots(x)) <= Cardinality(InSlots(h) \cup P)
    BY <2>1, <2>3, FS_Subset
  <2> QED
    BY <2>2, <2>3, <2>4, <2>5, GroupAssumption
<1>10. ASSUME NEW p \in Positions PROVE Item(x, p, acc, inT, f)
  <2>1. Item(h, p, acc, inT, f)
    BY DEF Sane
  <2>2. CASE p \in P
    <3>1. x.item[p] = "active" /\ x.child[p] = "running" /\ h.item[p] = "pending"
      BY <1>4, <1>5, <2>2
    <3>2. h.child[p] = "none"
      BY <2>1, <3>1 DEF Item, LiveItem, SlotItem
    <3>3. acc[p] = 0 /\ inT[p] = 0
      BY <2>1, <3>1, <3>2 DEF Item
    <3> QED
      BY <1>5, <2>1, <3>1, <3>3, GroupAssumption DEF Item, LiveItem, SlotItem
  <2>3. CASE p \notin P
    BY <1>4, <1>5, <2>1, <2>3 DEF Item
  <2> QED
    BY <2>2, <2>3
<1> QED
  BY <1>4, <1>5, <1>6, <1>7, <1>9, <1>10 DEF Sane, x

\* The domains that are going to be started fit the free slots.
LEMMA NextPendingFits ==
  ASSUME NEW h \in Groups, Cardinality(InSlots(h)) <= Slots
  PROVE  /\ NextPending(h) \in SUBSET Positions
         /\ \A p \in NextPending(h) : h.item[p] = "pending"
         /\ Cardinality(InSlots(h)) + Cardinality(NextPending(h)) <= Slots
         /\ (InSlots(h) = {} /\ \E p \in Positions : h.item[p] = "pending")
               => NextPending(h) # {}
<1> DEFINE W == {p \in Positions : h.item[p] = "pending"}
           free == Slots - Cardinality(InSlots(h))
           first == {p \in W : Cardinality({q \in W : q < p}) < free}
<1>1. Domains \in Nat /\ W \in SUBSET (1..Domains)
  BY GroupAssumption DEF Positions
<1>2. Cardinality(InSlots(h)) \in Nat /\ Slots \in Nat \ {0}
  BY SlotsOf, Countable, GroupAssumption
<1>3. free \in Nat
  BY <1>2
<1>4. NextPending(h) = first
  BY DEF NextPending
<1>5. InSlots(h) = {} => free > 0
  BY <1>2, FS_EmptySet
<1>6. W \in SUBSET Positions /\ (\A p \in W : h.item[p] = "pending")
  OBVIOUS
<1>7. (\E p \in Positions : h.item[p] = "pending") => W # {}
  OBVIOUS
<1>8. first \in SUBSET W
  OBVIOUS
<1>9. free = Slots - Cardinality(InSlots(h))
  OBVIOUS
<1> HIDE DEF W, free
<1>10. /\ IsFiniteSet(first) /\ Cardinality(first) <= free
       /\ W # {} /\ free > 0 => first # {}
  BY <1>1, <1>3, FirstFit
<1> HIDE DEF first
<1>11. Cardinality(first) \in Nat
  BY <1>10, FS_CardinalityType
<1> QED
  BY <1>2, <1>3, <1>4, <1>5, <1>6, <1>7, <1>8, <1>9, <1>10, <1>11

LEMMA FilledSane ==
  ASSUME NEW h \in Groups, NEW acc, NEW inT, NEW f, Sane(h, acc, inT, f), Good(h),
         h.state \in ActiveGroup,
         NEW broken \in {0} \cup (IF h.state = "running" THEN NextPending(h) ELSE {})
  PROVE  LET x == Filled(h, broken)
         IN  /\ x \in Groups /\ x.state \in ActiveGroup /\ x.kept = h.kept
             /\ Sane(x, acc, inT, f) /\ Good(x)
             /\ ~Idle(x) => InSlots(x) # {}
<1> DEFINE x == Filled(h, broken)
           Goal == /\ x \in Groups /\ x.state \in ActiveGroup /\ x.kept = h.kept
                   /\ Sane(x, acc, inT, f) /\ Good(x)
                   /\ ~Idle(x) => InSlots(x) # {}
<1>1. /\ NextPending(h) \in SUBSET Positions
      /\ \A p \in NextPending(h) : h.item[p] = "pending"
      /\ Cardinality(InSlots(h)) + Cardinality(NextPending(h)) <= Slots
      /\ (InSlots(h) = {} /\ \E p \in Positions : h.item[p] = "pending")
               => NextPending(h) # {}
  BY NextPendingFits DEF Sane
<1>0. 0 \notin NextPending(h)
  BY <1>1 DEF Positions
<1>2. ASSUME NEW y, y \in Groups, \A p \in Positions : y.item[p] # "pending"
      PROVE  ~Idle(y) => InSlots(y) # {}
  BY <1>2, SlotsOf DEF Idle
<1>3. ASSUME NEW y, y \in Groups, y.state \in {"stopping", "failing"}, Sane(y, acc, inT, f)
      PROVE  ~Idle(y) => InSlots(y) # {}
  BY <1>2, <1>3 DEF Sane, Item
<1>4. CASE h.state # "running"
  <2>1. x = h /\ h.state \in {"stopping", "failing"}
    BY <1>4 DEF Filled, ActiveGroup
  <2> QED
    BY <1>3, <2>1
<1>5. CASE h.state = "running" /\ broken \notin NextPending(h)
  <2>1. x = Started(h, NextPending(h))
    BY <1>5 DEF Filled
  <2>2. /\ x \in Groups /\ x.state = "running" /\ x.kept = h.kept
        /\ Sane(x, acc, inT, f) /\ Good(x)
        /\ \A p \in Positions :
              x.item[p] = IF p \in NextPending(h) THEN "active" ELSE h.item[p]
    BY <1>1, <1>5, <2>1, StartedSane
  <2> HIDE DEF x
  <2>3. ~Idle(x) => InSlots(x) # {}
    <3> SUFFICES ASSUME InSlots(x) = {} PROVE \A p \in Positions : x.item[p] # "pending"
      BY <1>2, <2>2
    <3>1. \A p \in Positions : p \notin NextPending(h) /\ h.item[p] \notin SlotItem
      BY <2>2, SlotsOf DEF SlotItem, LiveItem
    <3>2. InSlots(h) = {} /\ NextPending(h) = {}
      BY <1>1, <3>1, SlotsOf
    <3> QED
      BY <1>1, <2>2, <3>2
  <2> QED
    BY <2>2, <2>3 DEF ActiveGroup, x
<1>6. CASE h.state = "running" /\ broken \in NextPending(h)
  <2> DEFINE P == {p \in NextPending(h) : p < broken}
             before == Started(h, P)
             y == [before EXCEPT !.item[broken] = "start_failed"]
  <2>1. x = Failing(y, broken)
    BY <1>6 DEF Filled
  <2>2. broken \in Positions /\ broken \notin P /\ P \in SUBSET NextPending(h)
    BY <1>1, <1>6 DEF Positions
  <2>3. Cardinality(InSlots(h)) + Cardinality(P) <= Slots
    <3>1. IsFiniteSet(NextPending(h)) /\ Cardinality(NextPending(h)) \in Nat
      BY <1>1, Countable
    <3>2. Cardinality(P) \in Nat /\ Cardinality(InSlots(h)) \in Nat
      BY <1>1, <2>2, SlotsOf, Countable
    <3>3. Cardinality(P) <= Cardinality(NextPending(h))
      BY <2>2, <3>1, FS_Subset
    <3> HIDE DEF P
    <3> QED
      BY <1>1, <3>1, <3>2, <3>3, GroupAssumption
  <2> HIDE DEF P
  <2>4. /\ before \in Groups /\ before.state = "running" /\ before.kept = h.kept
        /\ Sane(before, acc, inT, f) /\ Good(before)
        /\ \A p \in Positions :
              /\ before.item[p] = IF p \in P THEN "active" ELSE h.item[p]
              /\ p \notin P => before.child[p] = h.child[p]
    BY <1>1, <1>6, <2>2, <2>3, StartedSane
  <2> HIDE DEF before
  <2>5. before.item[broken] = "pending" /\ before.item \in [Positions -> ItemStates]
    BY <1>1, <1>6, <2>2, <2>4, GroupFields
  <2>6. /\ y \in Groups /\ y.state = "running" /\ y.kept = h.kept
        /\ y.item = [before.item EXCEPT ![broken] = "start_failed"]
        /\ y.child = before.child /\ y.progress = before.progress
        /\ y.armed = before.armed /\ y.retries = before.retries
    BY <2>2, <2>4 DEF Groups, ItemStates
  <2> HIDE DEF y
  <2>7. \A p \in Positions : y.item[p] = IF p = broken THEN "start_failed" ELSE before.item[p]
    BY <2>5, <2>6
  <2>8. Sane(y, acc, inT, f)
    <3>1. InSlots(y) = InSlots(before)
      BY <2>5, <2>7, SlotsOf DEF SlotItem, LiveItem
    <3>2. ASSUME NEW p \in Positions PROVE Item(y, p, acc, inT, f)
      <4>1. Item(before, p, acc, inT, f)
        BY <2>4 DEF Sane
      <4> QED
        BY <2>4, <2>5, <2>6, <2>7, <4>1 DEF Item, LiveItem, SlotItem
    <3> QED
      BY <2>4, <3>1, <3>2 DEF Sane
  <2>9. y.item[broken] \notin SlotItem
    BY <2>2, <2>7 DEF SlotItem, LiveItem
  <2> DEFINE z == Failing(y, broken)
  <2>10. /\ z \in Groups /\ z.state = "failing" /\ z.kept = y.kept
         /\ Sane(z, acc, inT, f) /\ Good(z)
    BY <2>2, <2>6, <2>8, <2>9, FailingSane
  <2> HIDE DEF z
  <2>11. ~Idle(z) => InSlots(z) # {}
    BY <1>3, <2>10
  <2>12. x = z
    BY <2>1 DEF z
  <2> HIDE DEF x
  <2> QED
    BY <2>6, <2>10, <2>11, <2>12 DEF ActiveGroup, x
<1> QED
  BY <1>4, <1>5, <1>6

\* The values of the fields of a group that is over.
LEMMA FinalSane ==
  ASSUME NEW h \in Groups, NEW acc, NEW inT, NEW f, Sane(h, acc, inT, f), Good(h),
         h.state \in ActiveGroup, Idle(h)
  PROVE  LET x == [h EXCEPT !.state = Final(h), !.armed = NoTimers, !.events = {}]
         IN  /\ x \in Groups /\ x.state \in TerminalGroup /\ x.kept = h.kept
             /\ Sane(x, acc, inT, f) /\ Good(x) /\ Idle(x)
<1> DEFINE x == [h EXCEPT !.state = Final(h), !.armed = NoTimers, !.events = {}]
<1>1. Final(h) \in TerminalGroup /\ (Final(h) = "completed" => h.state = "running")
  BY DEF Final, TerminalGroup, ActiveGroup
<1>2. NoTimers \in [Positions -> 0..RetryLimit]
  BY GroupAssumption DEF NoTimers
<1>3. /\ x \in Groups /\ x.state = Final(h) /\ x.kept = h.kept
      /\ x.item = h.item /\ x.child = h.child /\ x.progress = h.progress
  BY <1>1, <1>2 DEF Groups
<1> HIDE DEF x
<1>4. \A p \in Positions : h.item[p] \notin SlotItem \cup {"pending"}
  BY DEF Idle
<1>5. Idle(x) /\ InSlots(x) = InSlots(h)
  BY <1>3 DEF Idle, InSlots
<1>6. Good(x)
  BY <1>1, <1>3, <1>4 DEF Good, SlotItem, LiveItem, TerminalGroup
<1>7. ASSUME NEW p \in Positions PROVE Item(x, p, acc, inT, f)
  <2>1. Item(h, p, acc, inT, f)
    BY DEF Sane
  <2> QED
    BY <1>1, <1>3, <1>4, <2>1 DEF Item, SlotItem, LiveItem, TerminalGroup
<1> QED
  BY <1>1, <1>3, <1>5, <1>6, <1>7 DEF Sane, x

\* Whatever group a method has made, sane, in work and not yet filled up, what
\* it leaves is sane, and idle exactly if it is over.
LEMMA SettlesSound ==
  ASSUME TypeOK, db \in ActiveGroup,
         NEW h \in Groups, h.state \in ActiveGroup, h.kept = TRUE,
         Sane(h, accounts', inTask', fired'), Good(h),
         Settles(h)
  PROVE  /\ g' \in Groups /\ faults' \in 0..MaxFaults
         /\ db' \in ActiveGroup \cup TerminalGroup
         /\ Sane(g', accounts', inTask', fired') /\ Good(g') /\ Standing'
<1>1. PICK broken \in {0} \cup (IF h.state = "running" THEN NextPending(h) ELSE {}) :
        LET full  == Filled(h, broken)
            final == [full EXCEPT !.state = Final(full), !.armed = NoTimers, !.events = {}]
        IN  \/ /\ g' = IF Idle(full) THEN [final EXCEPT !.kept = FALSE] ELSE full
               /\ db' = g'.state
               /\ UNCHANGED faults
            \/ /\ faults < MaxFaults
               /\ faults' = faults + 1
               /\ g' = IF Idle(full) THEN final ELSE full
               /\ db' \in {db, full.state}
  BY DEF Settles
<1> DEFINE full  == Filled(h, broken)
           final == [full EXCEPT !.state = Final(full), !.armed = NoTimers, !.events = {}]
           gone  == [final EXCEPT !.kept = FALSE]
<1>2. \/ /\ g' = IF Idle(full) THEN gone ELSE full
         /\ db' = g'.state
         /\ UNCHANGED faults
      \/ /\ faults < MaxFaults
         /\ faults' = faults + 1
         /\ g' = IF Idle(full) THEN final ELSE full
         /\ db' \in {db, full.state}
  BY <1>1
<1>3. /\ full \in Groups /\ full.state \in ActiveGroup /\ full.kept = TRUE
      /\ Sane(full, accounts', inTask', fired') /\ Good(full)
      /\ ~Idle(full) => InSlots(full) # {}
  BY FilledSane
<1> HIDE DEF full
<1>4. faults' \in 0..MaxFaults
  BY <1>2, GroupAssumption DEF TypeOK
<1>5. CASE ~Idle(full)
  <2>1. g' = full /\ db' \in ActiveGroup
    BY <1>2, <1>3, <1>5
  <2>2. Standing'
    BY <1>3, <1>5, <2>1 DEF Standing, ActiveGroup, TerminalGroup
  <2> QED
    BY <1>3, <1>4, <2>1, <2>2
<1>6. CASE Idle(full)
  <2>1. /\ final \in Groups /\ final.state \in TerminalGroup /\ final.kept = TRUE
        /\ Sane(final, accounts', inTask', fired') /\ Good(final) /\ Idle(final)
    BY <1>3, <1>6, FinalSane
  <2> HIDE DEF final
  <2>2. /\ gone \in Groups /\ gone.state = final.state /\ gone.kept = FALSE
        /\ gone.item = final.item /\ gone.child = final.child
        /\ gone.progress = final.progress /\ gone.armed = final.armed
        /\ gone.retries = final.retries
    BY <2>1 DEF Groups
  <2> HIDE DEF gone
  <2>3. Sane(gone, accounts', inTask', fired') /\ Good(gone) /\ Idle(gone)
    <3>1. InSlots(gone) = InSlots(final) /\ Idle(gone) /\ Good(gone)
      BY <2>1, <2>2 DEF InSlots, Idle, Good
    <3>2. ASSUME NEW p \in Positions PROVE Item(gone, p, accounts', inTask', fired')
      <4>1. Item(final, p, accounts', inTask', fired')
        BY <2>1 DEF Sane
      <4> QED
        BY <2>2, <4>1 DEF Item
    <3> QED
      BY <2>1, <3>1, <3>2 DEF Sane
  <2>4. CASE g' = gone /\ db' = g'.state
    <3>1. Standing'
      BY <2>1, <2>2, <2>3, <2>4 DEF Standing, ActiveGroup, TerminalGroup
    <3> QED
      BY <1>4, <2>1, <2>2, <2>3, <2>4, <3>1
  <2>5. CASE g' = final /\ db' \in {db, full.state}
    <3>1. Standing'
      BY <1>3, <2>1, <2>5 DEF Standing, ActiveGroup, TerminalGroup
    <3> QED
      BY <1>3, <1>4, <2>1, <2>5, <3>1
  <2> QED
    BY <1>2, <1>6, <2>4, <2>5
<1> QED
  BY <1>5, <1>6

-----------------------------------------------------------------------------
(* The steps of the children, the timers and the operator. *)

\* A child task is that of a domain at work, in a group that is not over.
LEMMA ChildInGroup ==
  ASSUME IInv, NEW p \in Positions, g.child[p] # "none"
  PROVE  /\ g \in Groups /\ g.state \in ActiveGroup /\ g.kept = TRUE /\ db \in ActiveGroup
         /\ g.item[p] \in LiveItem
         /\ accounts[p] = inTask[p] /\ inTask[p] <= Count
<1>1. g \in Groups /\ Item(g, p, accounts, inTask, fired)
  BY DEF IInv, TypeOK, Sane
<1>2. g.item[p] \in LiveItem /\ accounts[p] = inTask[p] /\ inTask[p] <= Count
  BY <1>1 DEF Item
<1>3. g.state \in ActiveGroup
  BY <1>1, <1>2, GroupFields DEF IInv, Standing, Idle, SlotItem
<1> QED
  BY <1>1, <1>2, <1>3, GroupFields DEF IInv, Standing

\* A step that leaves the group where it is; a domain at work may be drained.
LEMMA QuietSound ==
  ASSUME IInv, NEW h \in Groups,
         h.state = g.state, h.kept = g.kept,
         \A p \in Positions :
            /\ \/ h.item[p] = g.item[p]
               \/ h.item[p] \in LiveItem /\ g.item[p] \in LiveItem
            /\ h.child[p] = "none" <=> g.child[p] = "none"
            /\ g.armed[p] = 0 => h.armed[p] = 0
            /\ Item(h, p, accounts', inTask', fired'),
         g' = h, db' = db
  PROVE  Sane(g', accounts', inTask', fired') /\ Good(g') /\ Standing'
<1>0. \A p \in Positions : h.item[p] \in SlotItem <=> g.item[p] \in SlotItem
  BY DEF SlotItem
<1>1. InSlots(h) = InSlots(g)
  BY <1>0 DEF InSlots
<1>2. Sane(h, accounts', inTask', fired')
  BY <1>1 DEF Sane, IInv
<1>3. Good(h)
  BY DEF Good, IInv, SlotItem, LiveItem
<1>4. Idle(g) => Idle(h)
  BY DEF Idle, SlotItem
<1>5. Standing'
  BY <1>1, <1>4 DEF Standing, IInv
<1> QED
  BY <1>2, <1>3, <1>5

\* Forgetting the failures of a domain changes nothing else.
LEMMA RecoveredShape ==
  ASSUME NEW h \in Groups, NEW p
  PROVE  LET x == Recovered(h, p)
         IN  /\ x \in Groups
             /\ x.state = h.state /\ x.kept = h.kept /\ x.item = h.item
             /\ x.retries = h.retries /\ x.trigger = h.trigger
             /\ x.progress = h.progress /\ x.armed = h.armed /\ x.child = h.child
             /\ x.moved = h.moved /\ x.stop = h.stop
<1> DEFINE kept == {e \in h.events : e[2] # p}
           x == Recovered(h, p)
<1>1. kept \in SUBSET (Codes \X Positions)
  BY GroupFields
<1>2. x = [h EXCEPT !.events = kept]
  BY DEF Recovered
<1> HIDE DEF kept, x
<1>3. /\ x \in Groups
      /\ x.state = h.state /\ x.kept = h.kept /\ x.item = h.item
      /\ x.retries = h.retries /\ x.trigger = h.trigger
      /\ x.progress = h.progress /\ x.armed = h.armed /\ x.child = h.child
      /\ x.moved = h.moved /\ x.stop = h.stop
  BY <1>1, <1>2 DEF Groups
<1> QED
  BY <1>3 DEF x

\* A domain of poor quality: it goes on, but after the current account it stops.
LEMMA DrainedShape ==
  ASSUME NEW h \in Groups, NEW p \in Positions
  PROVE  LET x == Drained(h, p)
         IN  /\ x \in Groups
             /\ x.state = h.state /\ x.kept = h.kept
             /\ x.retries = h.retries /\ x.progress = h.progress
             /\ x.armed = h.armed /\ x.child = h.child
             /\ \A q \in Positions :
                   \/ x.item[q] = h.item[q]
                   \/ x.item[q] = "draining" /\ h.item[q] = "active"
<1> DEFINE stops == StopRequested(h, {p}, "after_current")
           y == [h EXCEPT !.item[p] = "draining", !.trigger[p] = TRUE, !.stop = stops]
<1>1. stops \in [Positions -> {"none", "after_current", "immediate"}]
  BY StopRequestedType
<1> HIDE DEF stops
<1>2. /\ y \in Groups
      /\ y.state = h.state /\ y.kept = h.kept
      /\ y.retries = h.retries /\ y.progress = h.progress
      /\ y.armed = h.armed /\ y.child = h.child
      /\ y.item = [h.item EXCEPT ![p] = "draining"]
  BY <1>1 DEF Groups, ItemStates, SlotItem, LiveItem
<1>3. Drained(h, p) = IF h.item[p] = "active" THEN y ELSE h
  BY DEF Drained, stops
<1> HIDE DEF y
<1>4. \A q \in Positions : y.item[q] = IF q = p THEN "draining" ELSE h.item[q]
  BY <1>2, GroupFields
<1>5. CASE h.item[p] = "active"
  <2>1. Drained(h, p) = y
    BY <1>3, <1>5
  <2> QED
    BY <1>2, <1>4, <1>5, <2>1
<1>6. CASE h.item[p] # "active"
  <2>1. Drained(h, p) = h
    BY <1>3, <1>6
  <2> QED
    BY <2>1
<1> QED
  BY <1>5, <1>6

\* A child registers an account, decides, reports, skips or ends.
LEMMA ChildSound ==
  ASSUME IInv, NEW p \in Positions, Child(p)
  PROVE  IInv'
<1>c. /\ g \in Groups /\ g.state \in ActiveGroup /\ g.kept = TRUE /\ db \in ActiveGroup
      /\ g.item[p] \in LiveItem /\ g.child[p] = "running"
      /\ accounts[p] = inTask[p] /\ inTask[p] <= Count
  <2>1. g.child[p] = "running"
    BY DEF Child, ChildRegisters, ChildDecides, ChildLinks, ChildSkips, ChildEnds
  <2> QED
    BY <2>1, ChildInGroup
<1>t. /\ TypeOK
      /\ \A q \in Positions : Item(g, q, accounts, inTask, fired)
  BY DEF IInv, Sane
<1>f. /\ g.item \in [Positions -> ItemStates] /\ g.progress \in [Positions -> BOOLEAN]
      /\ g.child \in [Positions -> {"none", "running", "ended"}]
  BY <1>c, GroupFields
<1>1. ASSUME NEW h \in Groups, g' = h, TypeOK', db' = db,
             Sane(g', accounts', inTask', fired'), Good(g'), Standing'
      PROVE  IInv'
  BY <1>1 DEF IInv, Sane
<1>3. CASE ChildRegisters(p)
  <2> DEFINE y == [g EXCEPT !.progress[p] = TRUE]
             x == Recovered(y, p)
  <2>1. /\ y \in Groups
        /\ y.state = g.state /\ y.kept = g.kept /\ y.item = g.item
        /\ y.retries = g.retries /\ y.armed = g.armed /\ y.child = g.child
        /\ y.progress = [g.progress EXCEPT ![p] = TRUE]
    BY <1>c DEF Groups
  <2>2. g' = x
    BY <1>3 DEF ChildRegisters
  <2> HIDE DEF y
  <2>3. /\ x \in Groups
        /\ x.state = g.state /\ x.kept = g.kept /\ x.item = g.item
        /\ x.retries = g.retries /\ x.armed = g.armed /\ x.child = g.child
        /\ x.progress = [g.progress EXCEPT ![p] = TRUE]
    BY <2>1, RecoveredShape
  <2> HIDE DEF x
  <2>4. /\ inTask' = [inTask EXCEPT ![p] = @ + 1] /\ inTask[p] < Count
        /\ accounts' = [accounts EXCEPT ![p] = @ + 1]
        /\ UNCHANGED <<fired, result, db, faults>>
    BY <1>3 DEF ChildRegisters
  <2>5. /\ inTask \in [Positions -> 0..Count] /\ accounts \in [Positions -> Nat]
        /\ Count \in Nat
    BY <1>t, GroupAssumption DEF TypeOK
  <2>6. inTask' \in [Positions -> 0..Count] /\ accounts' \in [Positions -> Nat]
    BY <2>4, <2>5
  <2>7. TypeOK'
    BY <1>t, <2>2, <2>3, <2>4, <2>6 DEF TypeOK
  <2>8. ASSUME NEW q \in Positions PROVE Item(x, q, accounts', inTask', fired')
    <3>1. Item(g, q, accounts, inTask, fired)
      BY <1>t
    <3>2. CASE q = p
      <4>1. accounts'[p] = accounts[p] + 1 /\ inTask'[p] = inTask[p] + 1 /\ x.progress[p]
        BY <1>f, <2>3, <2>4, <2>5
      <4>2. accounts'[p] = inTask'[p] /\ accounts'[p] <= Count
        BY <1>c, <2>4, <2>5, <4>1
      <4> QED
        BY <1>c, <2>3, <2>4, <3>1, <3>2, <4>1, <4>2 DEF Item, LiveItem
    <3>3. CASE q # p
      <4>1. accounts'[q] = accounts[q] /\ inTask'[q] = inTask[q] /\ x.progress[q] = g.progress[q]
        BY <1>f, <2>3, <2>4, <2>5, <3>3
      <4> QED
        BY <2>3, <2>4, <3>1, <4>1 DEF Item
    <3> QED
      BY <3>2, <3>3
  <2>9. Sane(g', accounts', inTask', fired') /\ Good(g') /\ Standing'
    BY <2>2, <2>3, <2>4, <2>8, QuietSound
  <2> QED
    BY <1>1, <2>2, <2>3, <2>4, <2>7, <2>9
<1>4. ASSUME NEW h \in Groups, Reports(h, p), UNCHANGED inTask,
             h.state = g.state, h.kept = g.kept, h.item = g.item,
             h.retries = g.retries, h.armed = g.armed, h.child = g.child,
             \A q \in Positions : g.progress[q] => h.progress[q]
      PROVE  IInv'
  <2>1. PICK poor \in BOOLEAN : g' = IF poor THEN Drained(h, p) ELSE h
    BY <1>4 DEF Reports
  <2>2. UNCHANGED <<fired, result, accounts, db, faults, inTask>>
    BY <1>4 DEF Reports
  <2>3. /\ g' \in Groups
        /\ g'.state = g.state /\ g'.kept = g.kept
        /\ g'.retries = g.retries /\ g'.progress = h.progress
        /\ g'.armed = g.armed /\ g'.child = g.child
        /\ \A q \in Positions :
              \/ g'.item[q] = g.item[q]
              \/ g'.item[q] = "draining" /\ g.item[q] = "active"
    <3>1. CASE poor
      BY <1>4, <2>1, <3>1, DrainedShape
    <3>2. CASE ~poor
      BY <1>4, <2>1, <3>2
    <3> QED
      BY <3>1, <3>2
  <2>4. TypeOK'
    BY <1>t, <2>2, <2>3 DEF TypeOK
  <2>5. ASSUME NEW q \in Positions PROVE Item(g', q, accounts', inTask', fired')
    <3>1. Item(g, q, accounts, inTask, fired)
      BY <1>t
    <3> QED
      BY <1>4, <2>2, <2>3, <3>1 DEF Item, LiveItem
  <2>6. Sane(g', accounts', inTask', fired') /\ Good(g') /\ Standing'
    BY <2>2, <2>3, <2>5, QuietSound DEF LiveItem
  <2> QED
    BY <1>1, <2>2, <2>3, <2>4, <2>6
<1>5. CASE ChildDecides(p)
  <2> DEFINE y == [g EXCEPT !.progress[p] = TRUE]
             x == Recovered(y, p)
  <2>1. /\ y \in Groups
        /\ y.state = g.state /\ y.kept = g.kept /\ y.item = g.item
        /\ y.retries = g.retries /\ y.armed = g.armed /\ y.child = g.child
        /\ y.progress = [g.progress EXCEPT ![p] = TRUE]
    BY <1>c DEF Groups
  <2>2. Reports(x, p) /\ UNCHANGED inTask
    BY <1>5 DEF ChildDecides
  <2> HIDE DEF y
  <2>3. /\ x \in Groups
        /\ x.state = g.state /\ x.kept = g.kept /\ x.item = g.item
        /\ x.retries = g.retries /\ x.armed = g.armed /\ x.child = g.child
        /\ x.progress = [g.progress EXCEPT ![p] = TRUE]
    BY <2>1, RecoveredShape
  <2> HIDE DEF x
  <2>4. \A q \in Positions : g.progress[q] => x.progress[q]
    BY <1>f, <2>3
  <2> QED
    BY <1>4, <2>2, <2>3, <2>4
<1>6. CASE ChildLinks(p)
  <2>1. Reports(g, p) /\ UNCHANGED inTask
    BY <1>6 DEF ChildLinks
  <2> QED
    BY <1>4, <1>c, <2>1
<1>7. ASSUME ChildSkips(p) \/ ChildEnds(p) PROVE IInv'
  <2>1. PICK x \in Groups :
          /\ g' = x
          /\ x.state = g.state /\ x.kept = g.kept /\ x.item = g.item
          /\ x.retries = g.retries /\ x.armed = g.armed /\ x.progress = g.progress
          /\ \A q \in Positions : x.child[q] = "none" <=> g.child[q] = "none"
    <3>1. CASE ChildSkips(p)
      <4> DEFINE x == [g EXCEPT !.moved[p] = TRUE]
      <4>1. /\ x \in Groups
            /\ x.state = g.state /\ x.kept = g.kept /\ x.item = g.item
            /\ x.retries = g.retries /\ x.armed = g.armed /\ x.progress = g.progress
            /\ x.child = g.child
        BY <1>c DEF Groups
      <4>2. g' = x
        BY <3>1 DEF ChildSkips
      <4> HIDE DEF x
      <4> QED
        BY <4>1, <4>2
    <3>2. CASE ChildEnds(p)
      <4> DEFINE x == [g EXCEPT !.child[p] = "ended"]
      <4>1. /\ x \in Groups
            /\ x.state = g.state /\ x.kept = g.kept /\ x.item = g.item
            /\ x.retries = g.retries /\ x.armed = g.armed /\ x.progress = g.progress
            /\ x.child = [g.child EXCEPT ![p] = "ended"]
        BY <1>c DEF Groups
      <4>2. g' = x
        BY <3>2 DEF ChildEnds
      <4> HIDE DEF x
      <4>3. \A q \in Positions : x.child[q] = "none" <=> g.child[q] = "none"
        BY <1>c, <1>f, <4>1
      <4> QED
        BY <4>1, <4>2, <4>3
    <3> QED
      BY <1>7, <3>1, <3>2
  <2>2. /\ UNCHANGED <<fired, inTask, accounts, db, faults>>
        /\ result' \in [Positions -> {"none", "done", "stopped", "plain"} \cup Codes]
    <3>1. CASE ChildSkips(p)
      BY <1>t, <3>1 DEF ChildSkips, TypeOK
    <3>2. CASE ChildEnds(p)
      BY <1>t, <3>2 DEF ChildEnds, TypeOK
    <3> QED
      BY <1>7, <3>1, <3>2
  <2>3. TypeOK'
    BY <1>t, <2>1, <2>2 DEF TypeOK
  <2>4. ASSUME NEW q \in Positions PROVE Item(x, q, accounts', inTask', fired')
    <3>1. Item(g, q, accounts, inTask, fired)
      BY <1>t
    <3> QED
      BY <2>1, <2>2, <3>1 DEF Item
  <2>5. Sane(g', accounts', inTask', fired') /\ Good(g') /\ Standing'
    BY <2>1, <2>2, <2>4, QuietSound
  <2> QED
    BY <1>1, <2>1, <2>2, <2>3, <2>5
<1> QED
  BY <1>3, <1>5, <1>6, <1>7 DEF Child

\* A task that has ended leaves its domain, which is settled or waits.
LEMMA TakenSane ==
  ASSUME IInv, NEW p \in Positions, g.child[p] = "ended",
         Forgets(p), UNCHANGED <<fired, accounts>>,
         NEW it \in ItemStates \ (LiveItem \cup {"pending"}),
         NEW z \in Groups,
         z.state = g.state, z.progress = g.progress,
         z.item = [g.item EXCEPT ![p] = it],
         z.child = [g.child EXCEPT ![p] = "none"],
         \A q \in Positions \ {p} : z.retries[q] = g.retries[q] /\ z.armed[q] = g.armed[q],
         IF it = "retry_wait"
         THEN /\ g.state = "running" /\ accounts[p] = 0
              /\ z.retries[p] # 0 /\ z.armed[p] = z.retries[p]
         ELSE z.armed[p] = g.armed[p]
  PROVE  Sane(z, accounts', inTask', fired')
<1>1. /\ \A q \in Positions : Item(g, q, accounts, inTask, fired)
      /\ Cardinality(InSlots(g)) <= Slots
      /\ g \in Groups /\ inTask \in [Positions -> 0..Count] /\ g.item[p] \in LiveItem
  BY ChildInGroup DEF IInv, TypeOK, Sane
<1>2. /\ g.item \in [Positions -> ItemStates]
      /\ g.child \in [Positions -> {"none", "running", "ended"}]
  BY <1>1, GroupFields
<1>3. \A q \in Positions :
        /\ z.item[q] = IF q = p THEN it ELSE g.item[q]
        /\ z.child[q] = IF q = p THEN "none" ELSE g.child[q]
        /\ inTask'[q] = IF q = p THEN 0 ELSE inTask[q]
  BY <1>1, <1>2 DEF Forgets
<1>4. ASSUME NEW q \in Positions PROVE Item(z, q, accounts', inTask', fired')
  <2>1. Item(g, q, accounts, inTask, fired) /\ accounts' = accounts /\ fired' = fired
    BY <1>1
  <2>2. CASE q = p
    <3>1. z.item[q] = it /\ z.child[q] = "none" /\ inTask'[q] = 0
      BY <1>3, <2>2
    <3>2. g.item[q] \notin {"retry_wait", "pending"}
      BY <1>1, <2>2 DEF LiveItem
    <3>3. it = "retry_wait" =>
             g.state = "running" /\ accounts[q] = 0 /\ z.retries[q] # 0 /\ z.armed[q] = z.retries[q]
      BY <2>2
    <3>4. it # "retry_wait" => z.armed[q] = g.armed[q]
      BY <2>2
    <3>5. g.state = "running" =>
             g.armed[q] = 0 /\ \A n \in 1..RetryLimit : <<q, n>> \notin fired
      BY <2>1, <3>2 DEF Item
    <3> QED
      BY <2>1, <3>1, <3>3, <3>4, <3>5 DEF Item, LiveItem
  <2>3. CASE q # p
    <3>1. /\ z.item[q] = g.item[q] /\ z.child[q] = g.child[q] /\ inTask'[q] = inTask[q]
          /\ z.retries[q] = g.retries[q] /\ z.armed[q] = g.armed[q]
      BY <1>3, <2>3
    <3> QED
      BY <2>1, <3>1 DEF Item
  <2> QED
    BY <2>2, <2>3
<1>5. Cardinality(InSlots(z)) <= Slots
  <2>1. \A q \in Positions : z.item[q] \in SlotItem => g.item[q] \in SlotItem
    BY <1>1, <1>3 DEF SlotItem
  <2>2. InSlots(z) \in SUBSET InSlots(g)
    BY <2>1, SlotsOf
  <2>3. /\ IsFiniteSet(InSlots(g)) /\ Cardinality(InSlots(g)) \in Nat
        /\ Cardinality(InSlots(z)) \in Nat
    BY SlotsOf, Countable
  <2>4. Cardinality(InSlots(z)) <= Cardinality(InSlots(g))
    BY <2>2, <2>3, FS_Subset
  <2> QED
    BY <1>1, <2>3, <2>4, GroupAssumption
<1> QED
  BY <1>4, <1>5 DEF Sane

\* What the ways of settling it have in common: the group h that is left settles.
LEMMA TerminalSettles ==
  ASSUME IInv, NEW p \in Positions, g.child[p] = "ended",
         Forgets(p), UNCHANGED <<fired, accounts>>,
         NEW h \in Groups, h.state \in ActiveGroup, h.kept = TRUE,
         Sane(h, accounts', inTask', fired'), Good(h), Settles(h)
  PROVE  IInv'
<1>1. TypeOK /\ db \in ActiveGroup
  BY ChildInGroup DEF IInv
<1>2. /\ g' \in Groups /\ faults' \in 0..MaxFaults
      /\ db' \in ActiveGroup \cup TerminalGroup
      /\ Sane(g', accounts', inTask', fired') /\ Good(g') /\ Standing'
  BY <1>1, SettlesSound
<1>3. /\ result' \in [Positions -> {"none", "done", "stopped", "plain"} \cup Codes]
      /\ inTask' \in [Positions -> 0..Count]
  BY <1>1, GroupAssumption DEF Forgets, TypeOK
<1>4. TypeOK'
  BY <1>1, <1>2, <1>3 DEF TypeOK
<1> QED
  BY <1>2, <1>4 DEF IInv, Sane

LEMMA TakenShape ==
  ASSUME NEW h \in Groups, NEW p \in Positions
  PROVE  LET x == Taken(h, p)
         IN  /\ x \in Groups
             /\ x.state = h.state /\ x.kept = h.kept /\ x.item = h.item
             /\ x.retries = h.retries /\ x.progress = h.progress /\ x.armed = h.armed
             /\ x.child = [h.child EXCEPT ![p] = "none"]
BY DEF Taken, Groups

\* A technical failure before any progress waits for a retry, or is one too many.
LEMMA TechnicalFailureSound ==
  ASSUME IInv, NEW p \in Positions, TechnicalFailure(p)
  PROVE  IInv'
<1>1. /\ g.child[p] = "ended" /\ Forgets(p) /\ UNCHANGED <<fired, accounts>>
      /\ g.state = "running" /\ ~g.progress[p] /\ result[p] \in Codes
      /\ \/ Settles(RetryScheduled(Taken(g, p), p))
         \/ Settles(TechnicallyFailed(Taken(g, p), p))
  BY DEF TechnicalFailure, Retryable
<1>2. g \in Groups /\ g.kept = TRUE /\ accounts[p] = 0
  <2>1. Item(g, p, accounts, inTask, fired)
    BY DEF IInv, Sane
  <2> QED
    BY <1>1, <2>1, ChildInGroup DEF Item
<1> DEFINE t == Taken(g, p)
<1>3. /\ t \in Groups
      /\ t.state = g.state /\ t.kept = g.kept /\ t.item = g.item
      /\ t.retries = g.retries /\ t.progress = g.progress /\ t.armed = g.armed
      /\ t.child = [g.child EXCEPT ![p] = "none"]
  BY <1>2, TakenShape
<1> HIDE DEF t
<1> DEFINE noted == [t EXCEPT !.events = @ \cup {<<result[p], p>>}]
<1>4. /\ noted \in Groups
      /\ noted.state = g.state /\ noted.kept = g.kept /\ noted.item = g.item
      /\ noted.retries = g.retries /\ noted.progress = g.progress /\ noted.armed = g.armed
      /\ noted.child = [g.child EXCEPT ![p] = "none"]
  <2> DEFINE noise == t.events \cup {<<result[p], p>>}
  <2>1. noise \in SUBSET (Codes \X Positions)
    BY <1>1, <1>3, GroupFields
  <2>2. noted = [t EXCEPT !.events = noise]
    OBVIOUS
  <2> HIDE DEF noise, noted
  <2> QED
    BY <1>3, <2>1, <2>2 DEF Groups
<1> HIDE DEF noted
<1>5. ASSUME NEW u \in Groups,
             u.state = g.state, u.kept = g.kept, u.item = g.item,
             u.retries = g.retries, u.progress = g.progress, u.armed = g.armed,
             u.child = [g.child EXCEPT ![p] = "none"],
             Settles(TechnicallyFailed(u, p))
      PROVE  IInv'
  <2> DEFINE y == [u EXCEPT !.item[p] = "technical_failed"]
             x == Failing(y, p)
  <2>1. /\ y \in Groups
        /\ y.state = g.state /\ y.kept = g.kept
        /\ y.item = [g.item EXCEPT ![p] = "technical_failed"]
        /\ y.retries = g.retries /\ y.progress = g.progress /\ y.armed = g.armed
        /\ y.child = [g.child EXCEPT ![p] = "none"]
    BY <1>5 DEF Groups, ItemStates
  <2>2. Settles(x)
    BY <1>5 DEF TechnicallyFailed
  <2> HIDE DEF y
  <2>3. "technical_failed" \in ItemStates \ (LiveItem \cup {"pending"})
    BY DEF ItemStates, LiveItem
  <2>4. Sane(y, accounts', inTask', fired')
    BY <1>1, <2>1, <2>3, TakenSane
  <2>5. y.item[p] \notin SlotItem
    <3>1. y.item[p] = "technical_failed"
      BY <1>2, <2>1, GroupFields
    <3> QED
      BY <3>1 DEF SlotItem, LiveItem
  <2>6. /\ x \in Groups /\ x.state = "failing" /\ x.kept = y.kept
        /\ Sane(x, accounts', inTask', fired') /\ Good(x)
    BY <2>1, <2>4, <2>5, FailingSane
  <2> HIDE DEF x
  <2> QED
    BY <1>1, <1>2, <2>1, <2>2, <2>6, TerminalSettles DEF ActiveGroup
<1>6. ASSUME t.retries[p] < RetryLimit,
             Settles([noted EXCEPT !.item[p] = "retry_wait", !.retries[p] = @ + 1,
                                   !.armed[p] = t.retries[p] + 1])
      PROVE  IInv'
  <2> DEFINE n == t.retries[p] + 1
             x == [noted EXCEPT !.item[p] = "retry_wait", !.retries[p] = n, !.armed[p] = n]
  <2>1. t.retries[p] \in 0..RetryLimit /\ noted.retries[p] = t.retries[p]
    BY <1>3, <1>4, GroupFields
  <2>2. n \in 1..RetryLimit /\ n \in 0..RetryLimit
    BY <1>6, <2>1, GroupAssumption
  <2>3. Settles(x)
    BY <1>6, <2>1
  <2> HIDE DEF n
  <2>4. /\ x \in Groups
        /\ x.state = g.state /\ x.kept = g.kept
        /\ x.item = [g.item EXCEPT ![p] = "retry_wait"]
        /\ x.retries = [g.retries EXCEPT ![p] = n]
        /\ x.armed = [g.armed EXCEPT ![p] = n]
        /\ x.progress = g.progress
        /\ x.child = [g.child EXCEPT ![p] = "none"]
    BY <1>4, <2>2 DEF Groups, ItemStates, SlotItem
  <2> HIDE DEF x
  <2>5. \A q \in Positions :
           /\ x.retries[q] = IF q = p THEN n ELSE g.retries[q]
           /\ x.armed[q] = IF q = p THEN n ELSE g.armed[q]
           /\ x.item[q] = IF q = p THEN "retry_wait" ELSE g.item[q]
    BY <1>2, <2>4, GroupFields
  <2>6. "retry_wait" \in ItemStates \ (LiveItem \cup {"pending"})
    BY DEF ItemStates, SlotItem, LiveItem
  <2>7. Sane(x, accounts', inTask', fired')
    <3>1. n # 0
      BY <2>2
    <3>2. /\ \A q \in Positions \ {p} : x.retries[q] = g.retries[q] /\ x.armed[q] = g.armed[q]
          /\ x.retries[p] # 0 /\ x.armed[p] = x.retries[p]
      BY <2>5, <3>1
    <3> QED
      BY <1>1, <1>2, <2>4, <2>6, <3>2, TakenSane
  <2>8. Good(x)
    BY <1>1, <2>4, <2>5 DEF Good, IInv, SlotItem
  <2> QED
    BY <1>1, <1>2, <2>3, <2>4, <2>7, <2>8, TerminalSettles DEF ActiveGroup
<1>7. CASE Settles(RetryScheduled(t, p))
  <2>1. RetryScheduled(t, p) =
          IF Cardinality({q \in Positions : <<result[p], q>> \in noted.events}) >= Circuit
             \/ t.retries[p] >= RetryLimit
          THEN TechnicallyFailed(noted, p)
          ELSE [noted EXCEPT !.item[p] = "retry_wait", !.retries[p] = @ + 1,
                             !.armed[p] = t.retries[p] + 1]
    BY DEF RetryScheduled, noted
  <2>2. t.retries[p] >= RetryLimit \/ t.retries[p] < RetryLimit
    <3>1. t.retries[p] \in 0..RetryLimit
      BY <1>3, GroupFields
    <3> QED
      BY <3>1, GroupAssumption
  <2>3. CASE Settles(TechnicallyFailed(noted, p))
    BY <1>4, <1>5, <2>3
  <2>4. CASE /\ t.retries[p] < RetryLimit
             /\ Settles([noted EXCEPT !.item[p] = "retry_wait", !.retries[p] = @ + 1,
                                      !.armed[p] = t.retries[p] + 1])
    BY <1>6, <2>4
  <2> QED
    BY <1>7, <2>1, <2>2, <2>3, <2>4
<1>8. CASE Settles(TechnicallyFailed(t, p))
  BY <1>3, <1>5, <1>8
<1> QED
  BY <1>1, <1>7, <1>8 DEF t

\* Any other end settles the domain, and may fail the group.
LEMMA ChildTerminalSound ==
  ASSUME IInv, NEW p \in Positions, ChildTerminal(p)
  PROVE  IInv'
<1>1. /\ g.child[p] = "ended" /\ Forgets(p) /\ UNCHANGED <<fired, accounts>>
      /\ Settles(AfterTerminal(p))
  BY DEF ChildTerminal
<1>2. g \in Groups /\ g.kept = TRUE /\ g.state \in ActiveGroup
  BY <1>1, ChildInGroup
<1> DEFINE t == Taken(g, p)
           it == TerminalItem(p)
           h == [t EXCEPT !.item[p] = it]
<1>3. /\ t \in Groups
      /\ t.state = g.state /\ t.kept = g.kept /\ t.item = g.item
      /\ t.retries = g.retries /\ t.progress = g.progress /\ t.armed = g.armed
      /\ t.child = [g.child EXCEPT ![p] = "none"]
  BY <1>2, TakenShape
<1>4. /\ it \in {"quality_rejected", "stopped", "completed", "failed"}
      /\ g.trigger[p] => it = "quality_rejected"
  BY DEF TerminalItem
<1>5. it \in ItemStates \ (LiveItem \cup {"pending"}) /\ it # "retry_wait" /\ it \notin SlotItem
  BY <1>4 DEF ItemStates, LiveItem, SlotItem
<1>6. AfterTerminal(p) =
         IF g.state = "running" /\ ~g.trigger[p]
         THEN IF h.item[p] = "failed" THEN Failing(h, p)
              ELSE IF h.item[p] = "completed" THEN Recovered(h, p)
              ELSE h
         ELSE h
  BY DEF AfterTerminal
<1> HIDE DEF t, it
<1>7. /\ h \in Groups
      /\ h.state = g.state /\ h.kept = g.kept
      /\ h.item = [g.item EXCEPT ![p] = it]
      /\ h.retries = g.retries /\ h.progress = g.progress /\ h.armed = g.armed
      /\ h.child = [g.child EXCEPT ![p] = "none"]
  BY <1>3, <1>5 DEF Groups
<1> HIDE DEF h
<1>8. \A q \in Positions : h.item[q] = IF q = p THEN it ELSE g.item[q]
  BY <1>2, <1>7, GroupFields
<1>9. Sane(h, accounts', inTask', fired')
  BY <1>1, <1>5, <1>7, TakenSane
<1>10. it # "failed" \/ g.state # "running" => Good(h)
  BY <1>2, <1>4, <1>7, <1>8 DEF Good, IInv, ActiveGroup, SlotItem
<1>11. CASE Settles(h) /\ (it # "failed" \/ g.state # "running")
  BY <1>1, <1>2, <1>7, <1>9, <1>10, <1>11, TerminalSettles
<1>12. CASE Settles(Recovered(h, p)) /\ it # "failed"
  <2> DEFINE x == Recovered(h, p)
  <2>1. /\ x \in Groups
        /\ x.state = h.state /\ x.kept = h.kept /\ x.item = h.item
        /\ x.retries = h.retries /\ x.progress = h.progress
        /\ x.armed = h.armed /\ x.child = h.child
    BY <1>7, RecoveredShape
  <2>2. Settles(x)
    BY <1>12
  <2> HIDE DEF x
  <2>3. Sane(x, accounts', inTask', fired')
    BY <1>1, <1>5, <1>7, <2>1, TakenSane
  <2>4. Good(x)
    BY <1>10, <1>12, <2>1 DEF Good
  <2> QED
    BY <1>1, <1>2, <1>7, <2>1, <2>2, <2>3, <2>4, TerminalSettles
<1>13. CASE Settles(Failing(h, p))
  <2> DEFINE x == Failing(h, p)
  <2>1. h.item[p] \notin SlotItem
    BY <1>5, <1>8
  <2>2. /\ x \in Groups /\ x.state = "failing" /\ x.kept = h.kept
        /\ Sane(x, accounts', inTask', fired') /\ Good(x)
    BY <1>7, <1>9, <2>1, FailingSane
  <2>3. Settles(x)
    BY <1>13
  <2> HIDE DEF x
  <2> QED
    BY <1>1, <1>2, <1>7, <2>2, <2>3, TerminalSettles DEF ActiveGroup
<1>14. h.item[p] = it
  BY <1>8
<1> QED
  BY <1>1, <1>4, <1>6, <1>11, <1>12, <1>13, <1>14

\* The manager's methods other than the terminal callback settle the group h.
LEMMA ManagerSettles ==
  ASSUME IInv, db \in ActiveGroup,
         UNCHANGED <<result, inTask, accounts>>, fired' \in SUBSET fired,
         NEW h \in Groups, h.state \in ActiveGroup, h.kept = TRUE,
         Sane(h, accounts', inTask', fired'), Good(h), Settles(h)
  PROVE  IInv'
<1>1. TypeOK
  BY DEF IInv
<1>2. /\ g' \in Groups /\ faults' \in 0..MaxFaults
      /\ db' \in ActiveGroup \cup TerminalGroup
      /\ Sane(g', accounts', inTask', fired') /\ Good(g') /\ Standing'
  BY <1>1, SettlesSound
<1>3. TypeOK'
  BY <1>1, <1>2 DEF TypeOK
<1> QED
  BY <1>2, <1>3 DEF IInv, Sane

\* A timer that fires leaves its callback, for the same retry.
LEMMA TimerFiresSound ==
  ASSUME IInv, NEW p \in Positions, TimerFires(p)
  PROVE  IInv'
<1>1. /\ g.armed[p] # 0 /\ fired' = fired \cup {<<p, g.armed[p]>>}
      /\ g' = [g EXCEPT !.armed[p] = 0]
      /\ UNCHANGED <<result, inTask, accounts, db, faults>>
  BY DEF TimerFires
<1>2. /\ TypeOK /\ g \in Groups
      /\ \A q \in Positions : Item(g, q, accounts, inTask, fired)
  BY DEF IInv, Sane, TypeOK
<1> DEFINE x == [g EXCEPT !.armed[p] = 0]
<1>3. /\ x \in Groups
      /\ x.state = g.state /\ x.kept = g.kept /\ x.item = g.item
      /\ x.retries = g.retries /\ x.progress = g.progress /\ x.child = g.child
      /\ x.armed = [g.armed EXCEPT ![p] = 0]
  BY <1>2, GroupAssumption DEF Groups
<1>4. g' = x
  BY <1>1
<1> HIDE DEF x
<1>5. g.armed \in [Positions -> 0..RetryLimit]
  BY <1>2, GroupFields
<1>6. \A q \in Positions : x.armed[q] = IF q = p THEN 0 ELSE g.armed[q]
  BY <1>3, <1>5
<1>7. g.armed[p] \in 1..RetryLimit
  <2>1. g.armed[p] \in 0..RetryLimit
    BY <1>5
  <2> QED
    BY <1>1, <2>1, GroupAssumption
<1>8. TypeOK'
  <2>1. fired' \subseteq (Positions \X (1..RetryLimit))
    BY <1>1, <1>2, <1>7 DEF TypeOK
  <2> QED
    BY <1>1, <1>2, <1>3, <1>4, <2>1 DEF TypeOK
<1>9. ASSUME NEW q \in Positions PROVE Item(x, q, accounts', inTask', fired')
  <2>1. Item(g, q, accounts, inTask, fired) /\ accounts' = accounts /\ inTask' = inTask
    BY <1>1, <1>2
  <2>2. CASE q = p
    <3>1. x.armed[q] = 0 /\ g.armed[q] # 0 /\ fired' = fired \cup {<<q, g.armed[q]>>}
      BY <1>1, <1>6, <2>2
    <3>2. g.state = "running" => g.item[q] = "retry_wait" /\ g.armed[q] = g.retries[q]
      BY <2>1, <3>1 DEF Item
    <3>3. \A n : <<q, n>> \in fired' => <<q, n>> \in fired \/ n = g.armed[q]
      BY <3>1
    <3>4. g.item[q] = "retry_wait" => g.state = "running" /\ <<q, g.retries[q]>> \in fired'
      BY <2>1, <3>1, <3>2 DEF Item
    <3> QED
      BY <1>3, <2>1, <3>1, <3>2, <3>3, <3>4 DEF Item
  <2>3. CASE q # p
    <3>1. x.armed[q] = g.armed[q]
      BY <1>6, <2>3
    <3>2. \A n : <<q, n>> \in fired' <=> <<q, n>> \in fired
      BY <1>1, <2>3
    <3> QED
      BY <1>3, <2>1, <3>1, <3>2 DEF Item
  <2> QED
    BY <2>2, <2>3
<1>10. \A q \in Positions : g.armed[q] = 0 => x.armed[q] = 0
  BY <1>6
<1>11. Sane(g', accounts', inTask', fired') /\ Good(g') /\ Standing'
  BY <1>1, <1>3, <1>4, <1>9, <1>10, QuietSound
<1> QED
  BY <1>8, <1>11 DEF IInv, Sane

\* A callback puts its domain back into the queue, or finds that the group does
\* not wait for it any more.
LEMMA RetryCallbackSound ==
  ASSUME IInv, NEW p \in Positions, NEW n \in 1..RetryLimit, RetryCallback(p, n)
  PROVE  IInv'
<1> DEFINE h == [g EXCEPT !.armed[p] = 0]
           y == [h EXCEPT !.item[p] = "pending"]
           due == g.kept /\ g.state = "running" /\ g.item[p] = "retry_wait" /\ g.retries[p] = n
<1>1. /\ <<p, n>> \in fired /\ fired' = fired \ {<<p, n>>}
      /\ UNCHANGED <<result, inTask, accounts>>
      /\ due => Settles(y)
      /\ ~due => g' = (IF g.kept THEN h ELSE g) /\ UNCHANGED <<db, faults>>
  BY DEF RetryCallback
<1>2. /\ TypeOK /\ g \in Groups
      /\ \A q \in Positions : Item(g, q, accounts, inTask, fired)
      /\ Cardinality(InSlots(g)) <= Slots
  BY DEF IInv, Sane, TypeOK
<1>3. /\ h \in Groups
      /\ h.state = g.state /\ h.kept = g.kept /\ h.item = g.item
      /\ h.retries = g.retries /\ h.progress = g.progress /\ h.child = g.child
      /\ h.armed = [g.armed EXCEPT ![p] = 0]
  BY <1>2, GroupAssumption DEF Groups
<1> HIDE DEF h
<1>4. /\ y \in Groups
      /\ y.state = g.state /\ y.kept = g.kept
      /\ y.item = [g.item EXCEPT ![p] = "pending"]
      /\ y.retries = g.retries /\ y.progress = g.progress /\ y.child = g.child
      /\ y.armed = [g.armed EXCEPT ![p] = 0]
  BY <1>3 DEF Groups, ItemStates
<1> HIDE DEF y
<1>5. \A q \in Positions :
        /\ h.armed[q] = IF q = p THEN 0 ELSE g.armed[q]
        /\ y.armed[q] = IF q = p THEN 0 ELSE g.armed[q]
        /\ y.item[q] = IF q = p THEN "pending" ELSE g.item[q]
  BY <1>2, <1>3, <1>4, GroupFields
<1>6. \A q \in Positions : \A m : <<q, m>> \in fired' <=> <<q, m>> \in fired /\ ~(q = p /\ m = n)
  BY <1>1
<1>7. fired' \in SUBSET fired
  BY <1>1
<1>8. CASE due
  <2>1. ASSUME NEW q \in Positions PROVE Item(y, q, accounts', inTask', fired')
    <3>1. Item(g, q, accounts, inTask, fired) /\ accounts' = accounts /\ inTask' = inTask
      BY <1>1, <1>2
    <3>2. CASE q = p
      <4>1. \A m \in 1..RetryLimit : <<q, m>> \notin fired'
        BY <1>6, <1>8, <3>1, <3>2 DEF Item
      <4>2. /\ y.armed[q] = 0 /\ y.item[q] = "pending" /\ g.item[q] = "retry_wait"
            /\ y.state = "running"
        BY <1>4, <1>5, <1>8, <3>2
      <4> QED
        BY <1>4, <3>1, <4>1, <4>2 DEF Item, LiveItem
    <3>3. CASE q # p
      <4>1. /\ y.armed[q] = g.armed[q] /\ y.item[q] = g.item[q]
            /\ \A m : <<q, m>> \in fired' <=> <<q, m>> \in fired
        BY <1>5, <1>6, <3>3
      <4> QED
        BY <1>4, <3>1, <4>1 DEF Item
    <3> QED
      BY <3>2, <3>3
  <2>2. Cardinality(InSlots(y)) <= Slots
    <3>1. \A q \in Positions : y.item[q] \in SlotItem => g.item[q] \in SlotItem
      BY <1>5 DEF SlotItem, LiveItem
    <3>2. InSlots(y) \in SUBSET InSlots(g)
      BY <3>1, SlotsOf
    <3>3. /\ IsFiniteSet(InSlots(g)) /\ Cardinality(InSlots(g)) \in Nat
          /\ Cardinality(InSlots(y)) \in Nat
      BY SlotsOf, Countable
    <3>4. Cardinality(InSlots(y)) <= Cardinality(InSlots(g))
      BY <3>2, <3>3, FS_Subset
    <3> QED
      BY <1>2, <3>3, <3>4, GroupAssumption
  <2>3. Good(y)
    BY <1>4, <1>5, <1>8 DEF Good, IInv
  <2>4. Sane(y, accounts', inTask', fired')
    BY <2>1, <2>2 DEF Sane
  <2>5. db \in ActiveGroup /\ y.state \in ActiveGroup /\ y.kept = TRUE /\ Settles(y)
    BY <1>1, <1>2, <1>4, <1>8, GroupFields DEF IInv, Standing, ActiveGroup
  <2> QED
    BY <1>1, <1>4, <1>7, <2>3, <2>4, <2>5, ManagerSettles
<1>9. CASE ~due
  <2>1. g.state # "running"
    <3>1. g.state = "running" => g.item[p] = "retry_wait" /\ g.retries[p] = n
      BY <1>1, <1>2 DEF Item
    <3> QED
      BY <1>9, <3>1 DEF IInv, Standing, ActiveGroup
  <2>2. PICK x \in {g, h} : g' = x
    BY <1>1, <1>9
  <2>3. /\ x \in Groups
        /\ x.state = g.state /\ x.kept = g.kept /\ x.item = g.item
        /\ x.retries = g.retries /\ x.progress = g.progress /\ x.child = g.child
        /\ \A q \in Positions : x.armed[q] \in {0, g.armed[q]}
    BY <1>2, <1>3, <1>5
  <2>4. TypeOK'
    BY <1>1, <1>2, <1>7, <1>9, <2>2, <2>3 DEF TypeOK
  <2>5. ASSUME NEW q \in Positions PROVE Item(x, q, accounts', inTask', fired')
    <3>1. Item(g, q, accounts, inTask, fired) /\ accounts' = accounts /\ inTask' = inTask
      BY <1>1, <1>2
    <3> QED
      BY <2>1, <2>3, <3>1 DEF Item
  <2>6. \A q \in Positions : g.armed[q] = 0 => x.armed[q] = 0
    BY <2>3
  <2>7. Sane(g', accounts', inTask', fired') /\ Good(g') /\ Standing'
    BY <1>1, <1>9, <2>2, <2>3, <2>5, <2>6, QuietSound
  <2> QED
    BY <2>4, <2>7 DEF IInv, Sane
<1> QED
  BY <1>8, <1>9

LEMMA WindowMovesSound ==
  ASSUME IInv, WindowMoves
  PROVE  IInv'
<1>1. PICK e \in g.events : g' = [g EXCEPT !.events = @ \ {e}]
  BY DEF WindowMoves
<1>2. UNCHANGED <<fired, result, inTask, accounts, db, faults>>
  BY DEF WindowMoves
<1>3. /\ TypeOK /\ g \in Groups
      /\ \A q \in Positions : Item(g, q, accounts, inTask, fired)
  BY DEF IInv, Sane, TypeOK
<1> DEFINE left == g.events \ {e}
           x == [g EXCEPT !.events = left]
<1>4. left \in SUBSET (Codes \X Positions) /\ g' = x
  BY <1>1, <1>3, GroupFields
<1> HIDE DEF left
<1>5. /\ x \in Groups
      /\ x.state = g.state /\ x.kept = g.kept /\ x.item = g.item
      /\ x.retries = g.retries /\ x.progress = g.progress /\ x.child = g.child
      /\ x.armed = g.armed
  BY <1>3, <1>4 DEF Groups
<1> HIDE DEF x
<1>6. TypeOK'
  BY <1>2, <1>3, <1>4, <1>5 DEF TypeOK
<1>7. ASSUME NEW q \in Positions PROVE Item(x, q, accounts', inTask', fired')
  <2>1. Item(g, q, accounts, inTask, fired)
    BY <1>3
  <2> QED
    BY <1>2, <1>5, <2>1 DEF Item
<1>8. Sane(g', accounts', inTask', fired') /\ Good(g') /\ Standing'
  BY <1>2, <1>4, <1>5, <1>7, QuietSound
<1> QED
  BY <1>6, <1>8 DEF IInv, Sane

\* A stop: nothing waits any more, and what runs is asked to end.
LEMMA StopGroupSound ==
  ASSUME IInv, NEW mode \in {"after_current", "immediate"}, StopGroup(mode)
  PROVE  IInv'
<1>1. /\ g.kept /\ g.state \notin TerminalGroup /\ Settles(Stopping(g, mode))
      /\ UNCHANGED <<fired, result, inTask, accounts>>
  BY DEF StopGroup
<1>2. /\ g \in Groups /\ Cardinality(InSlots(g)) <= Slots
      /\ \A q \in Positions : Item(g, q, accounts, inTask, fired)
  BY DEF IInv, Sane, TypeOK
<1>3. g.state \in ActiveGroup /\ db \in ActiveGroup /\ g.kept = TRUE
  BY <1>1, <1>2, GroupFields DEF IInv, Standing
<1> DEFINE x == Stopping(g, mode)
           items == [p \in Positions |->
                      IF g.item[p] = "pending" THEN "cancelled"
                      ELSE IF g.item[p] = "retry_wait" THEN "stopped"
                      ELSE IF g.item[p] \in LiveItem THEN "draining"
                      ELSE g.item[p]]
           stops == StopRequested(g, {p \in Positions : g.item[p] \in LiveItem}, mode)
<1>4. items \in [Positions -> ItemStates]
  BY <1>2, GroupFields DEF ItemStates, SlotItem, LiveItem
<1>5. stops \in [Positions -> {"none", "after_current", "immediate"}]
  BY <1>2, StopRequestedType
<1>6. NoTimers \in [Positions -> 0..RetryLimit]
  BY GroupAssumption DEF NoTimers
<1>7. x = [g EXCEPT !.state = "stopping", !.armed = NoTimers, !.item = items, !.stop = stops]
  BY DEF Stopping
<1>8. \A p \in Positions :
        items[p] = IF g.item[p] = "pending" THEN "cancelled"
                   ELSE IF g.item[p] = "retry_wait" THEN "stopped"
                   ELSE IF g.item[p] \in LiveItem THEN "draining"
                   ELSE g.item[p]
  OBVIOUS
<1>9. Settles(x)
  BY <1>1
<1> HIDE DEF x, items, stops
<1>10. /\ x \in Groups
       /\ x.state = "stopping" /\ x.kept = g.kept /\ x.item = items
       /\ x.child = g.child /\ x.progress = g.progress
  BY <1>2, <1>4, <1>5, <1>6, <1>7 DEF Groups, ActiveGroup
<1>11. ASSUME NEW p \in Positions PROVE Item(x, p, accounts', inTask', fired')
  <2>1. Item(g, p, accounts, inTask, fired)
    BY <1>2
  <2> QED
    BY <1>1, <1>8, <1>10, <2>1 DEF Item, SlotItem, LiveItem
<1>12. Cardinality(InSlots(x)) <= Slots
  <2>1. \A p \in Positions : x.item[p] \in SlotItem => g.item[p] \in SlotItem
    BY <1>8, <1>10 DEF SlotItem, LiveItem
  <2>2. InSlots(x) \in SUBSET InSlots(g)
    BY <2>1, SlotsOf
  <2>3. /\ IsFiniteSet(InSlots(g)) /\ Cardinality(InSlots(g)) \in Nat
        /\ Cardinality(InSlots(x)) \in Nat
    BY SlotsOf, Countable
  <2>4. Cardinality(InSlots(x)) <= Cardinality(InSlots(g))
    BY <2>2, <2>3, FS_Subset
  <2> QED
    BY <1>2, <2>3, <2>4, GroupAssumption
<1>13. Good(x)
  BY <1>10 DEF Good
<1>14. Sane(x, accounts', inTask', fired')
  BY <1>11, <1>12 DEF Sane
<1> QED
  BY <1>1, <1>3, <1>9, <1>10, <1>13, <1>14, ManagerSettles DEF ActiveGroup

LEMMA GetGroupSound ==
  ASSUME IInv, GetGroup
  PROVE  IInv'
<1>1. /\ g.kept /\ g.state \in TerminalGroup
      /\ g' = [g EXCEPT !.kept = FALSE] /\ db' = g.state
      /\ UNCHANGED <<fired, result, inTask, accounts, faults>>
  BY DEF GetGroup
<1>2. /\ TypeOK /\ g \in Groups
      /\ \A q \in Positions : Item(g, q, accounts, inTask, fired)
      /\ Idle(g) /\ Good(g) /\ Cardinality(InSlots(g)) <= Slots
  BY <1>1 DEF IInv, Sane, TypeOK, Standing
<1> DEFINE x == [g EXCEPT !.kept = FALSE]
<1>3. /\ x \in Groups
      /\ x.state = g.state /\ x.kept = FALSE /\ x.item = g.item
      /\ x.retries = g.retries /\ x.progress = g.progress /\ x.child = g.child
      /\ x.armed = g.armed
  BY <1>2 DEF Groups
<1>4. g' = x
  BY <1>1
<1> HIDE DEF x
<1>5. InSlots(x) = InSlots(g) /\ Idle(x) /\ Good(x)
  BY <1>2, <1>3 DEF InSlots, Idle, Good
<1>6. ASSUME NEW q \in Positions PROVE Item(x, q, accounts', inTask', fired')
  <2>1. Item(g, q, accounts, inTask, fired)
    BY <1>2
  <2> QED
    BY <1>1, <1>3, <2>1 DEF Item
<1>7. Sane(g', accounts', inTask', fired') /\ Good(g')
  BY <1>2, <1>4, <1>5, <1>6 DEF Sane
<1>8. Standing'
  BY <1>1, <1>3, <1>4, <1>5 DEF Standing, ActiveGroup, TerminalGroup
<1>9. TypeOK'
  BY <1>1, <1>2, <1>3, <1>4 DEF TypeOK
<1> QED
  BY <1>7, <1>8, <1>9 DEF IInv, Sane

\* A group of which nothing has started.
LEMMA FreshShape ==
  ASSUME NEW h \in {Fresh, Lost}
  PROVE  /\ h \in Groups
         /\ h.state = IF h = Lost THEN "lost" ELSE "running"
         /\ h.kept = (h # Lost)
         /\ \A p \in Positions :
               /\ h.item[p] = "pending" /\ h.child[p] = "none"
               /\ h.armed[p] = 0 /\ ~h.progress[p]
<1> DEFINE a == [p \in Positions |-> "pending"]
           b == [p \in Positions |-> 0]
           c == [p \in Positions |-> FALSE]
           d == [p \in Positions |-> "none"]
<1>1. /\ a \in [Positions -> ItemStates]
      /\ b \in [Positions -> 0..RetryLimit]
      /\ c \in [Positions -> BOOLEAN]
      /\ d \in [Positions -> {"none", "running", "ended"}]
      /\ d \in [Positions -> {"none", "after_current", "immediate"}]
  BY GroupAssumption DEF ItemStates
<1>2. \A p \in Positions : a[p] = "pending" /\ b[p] = 0 /\ ~c[p] /\ d[p] = "none"
  OBVIOUS
<1>3. Fresh = [state |-> "running", kept |-> TRUE, item |-> a, retries |-> b,
               trigger |-> c, progress |-> c, armed |-> b, events |-> {},
               child |-> d, moved |-> c, stop |-> d]
  BY DEF Fresh
<1> HIDE DEF a, b, c, d
<1>4. /\ Fresh \in Groups /\ Fresh.state = "running" /\ Fresh.kept = TRUE
      /\ Fresh.item = a /\ Fresh.child = d /\ Fresh.armed = b /\ Fresh.progress = c
  BY <1>1, <1>3 DEF Groups, ActiveGroup
<1>5. /\ Lost \in Groups /\ Lost.state = "lost" /\ Lost.kept = FALSE
      /\ Lost.item = a /\ Lost.child = d /\ Lost.armed = b /\ Lost.progress = c
  BY <1>4 DEF Lost, Groups
<1>6. Fresh # Lost
  BY <1>4, <1>5
<1> QED
  BY <1>2, <1>4, <1>5, <1>6

LEMMA FreshSane ==
  ASSUME NEW h \in {Fresh, Lost}, NEW acc, NEW inT,
         \A p \in Positions : acc[p] = 0 /\ inT[p] = 0
  PROVE  h \in Groups /\ Sane(h, acc, inT, {}) /\ Good(h)
<1>1. /\ h \in Groups /\ h.state \in {"running", "lost"}
      /\ \A p \in Positions :
            /\ h.item[p] = "pending" /\ h.child[p] = "none"
            /\ h.armed[p] = 0 /\ ~h.progress[p]
  BY FreshShape
<1>2. Cardinality(InSlots(h)) <= Slots
  <2>1. InSlots(h) = {}
    BY <1>1 DEF InSlots, SlotItem, LiveItem
  <2> QED
    BY <2>1, FS_EmptySet, GroupAssumption
<1>3. ASSUME NEW p \in Positions PROVE Item(h, p, acc, inT, {})
  BY <1>1, GroupAssumption DEF Item, LiveItem
<1>4. Good(h)
  BY <1>1 DEF Good
<1> QED
  BY <1>1, <1>2, <1>3, <1>4 DEF Sane

\* A restart loses the group, and closes what the database says of it.
LEMMA RestartSound ==
  ASSUME IInv, Restart
  PROVE  IInv'
<1>1. /\ g' = Lost /\ fired' = {}
      /\ result' = [p \in Positions |-> "none"]
      /\ inTask' = [p \in Positions |-> 0]
      /\ accounts' = [p \in Positions |-> 0]
      /\ db' = IF db \in ActiveGroup THEN "interrupted" ELSE db
      /\ UNCHANGED faults
  BY DEF Restart
<1>2. \A p \in Positions : accounts'[p] = 0 /\ inTask'[p] = 0
  BY <1>1
<1>3. Lost \in Groups /\ Sane(Lost, accounts', inTask', {}) /\ Good(Lost)
  BY <1>2, FreshSane
<1>4. TypeOK'
  BY <1>1, <1>3, GroupAssumption DEF TypeOK, IInv
<1>5. /\ Lost.state = "lost" /\ Lost.kept = FALSE
      /\ \A p \in Positions : Lost.child[p] = "none" /\ Lost.armed[p] = 0
  BY FreshShape
<1>6. Standing'
  BY <1>1, <1>5 DEF Standing, ActiveGroup, TerminalGroup
<1> QED
  BY <1>1, <1>3, <1>4, <1>6 DEF IInv, Sane

-----------------------------------------------------------------------------
(* The invariant. *)

LEMMA InitIInv == Init => IInv
<1> SUFFICES ASSUME Init PROVE IInv
  OBVIOUS
<1>1. PICK broken \in {0} \cup NextPending(Fresh) :
         LET full == Filled(Fresh, broken)
         IN  g = IF Idle(full) THEN [full EXCEPT !.state = Final(full), !.kept = FALSE]
                 ELSE full
  BY DEF Init
<1>2. /\ fired = {} /\ db = g.state /\ faults = 0
      /\ result = [p \in Positions |-> "none"]
      /\ inTask = [p \in Positions |-> 0]
      /\ accounts = [p \in Positions |-> 0]
  BY DEF Init
<1> DEFINE full == Filled(Fresh, broken)
           over == [full EXCEPT !.state = Final(full), !.kept = FALSE]
<1>3. Fresh \in Groups /\ Sane(Fresh, accounts, inTask, fired) /\ Good(Fresh)
  <2>1. \A p \in Positions : accounts[p] = 0 /\ inTask[p] = 0
    BY <1>2
  <2> QED
    BY <1>2, <2>1, FreshSane
<1>4. Fresh.state = "running" /\ Fresh.kept = TRUE
  BY DEF Fresh
<1>5. /\ full \in Groups /\ full.state \in ActiveGroup /\ full.kept = TRUE
      /\ Sane(full, accounts, inTask, fired) /\ Good(full)
      /\ ~Idle(full) => InSlots(full) # {}
  BY <1>3, <1>4, FilledSane DEF ActiveGroup
<1>6. g = IF Idle(full) THEN over ELSE full
  BY <1>1
<1> HIDE DEF full
<1>7. CASE ~Idle(full)
  <2>1. g = full
    BY <1>6, <1>7
  <2>2. Standing
    BY <1>2, <1>5, <1>7, <2>1 DEF Standing, ActiveGroup, TerminalGroup
  <2>3. TypeOK
    BY <1>2, <1>5, <2>1, GroupAssumption DEF TypeOK
  <2> QED
    BY <1>5, <2>1, <2>2, <2>3 DEF IInv
<1>8. CASE Idle(full)
  <2>1. g = over
    BY <1>6, <1>8
  <2>2. Final(full) \in TerminalGroup /\ (Final(full) = "completed" => full.state = "running")
    BY <1>5 DEF Final, TerminalGroup, ActiveGroup
  <2>3. /\ over \in Groups /\ over.state = Final(full) /\ over.kept = FALSE
        /\ over.item = full.item /\ over.child = full.child
        /\ over.progress = full.progress
    BY <1>5, <2>2 DEF Groups
  <2> HIDE DEF over
  <2>4. \A p \in Positions : full.item[p] \notin SlotItem \cup {"pending"}
    BY <1>8 DEF Idle
  <2>5. Idle(over) /\ InSlots(over) = InSlots(full)
    BY <1>8, <2>3 DEF Idle, InSlots
  <2>6. Good(over)
    BY <1>5, <2>2, <2>3, <2>4 DEF Good, SlotItem, LiveItem, TerminalGroup
  <2>7. ASSUME NEW p \in Positions PROVE Item(over, p, accounts, inTask, fired)
    <3>1. Item(full, p, accounts, inTask, fired)
      BY <1>5 DEF Sane
    <3> QED
      BY <2>2, <2>3, <2>4, <3>1 DEF Item, SlotItem, LiveItem, TerminalGroup
  <2>8. Sane(g, accounts, inTask, fired) /\ Good(g)
    BY <1>5, <2>1, <2>5, <2>6, <2>7 DEF Sane
  <2>9. Standing
    BY <1>2, <2>1, <2>2, <2>3, <2>5 DEF Standing, ActiveGroup, TerminalGroup
  <2>10. TypeOK
    BY <1>2, <2>1, <2>2, <2>3, GroupAssumption DEF TypeOK
  <2> QED
    BY <2>8, <2>9, <2>10 DEF IInv
<1> QED
  BY <1>7, <1>8

LEMMA NextIInv == IInv /\ [Next]_vars => IInv'
<1> SUFFICES ASSUME IInv, [Next]_vars PROVE IInv'
  OBVIOUS
<1>1. CASE UNCHANGED vars
  BY <1>1 DEF vars, IInv, TypeOK, Sane, Item, Good, Standing, Idle, InSlots
<1>2. ASSUME NEW p \in Positions, Child(p) PROVE IInv'
  BY <1>2, ChildSound
<1>3. ASSUME NEW p \in Positions, Terminal(p) PROVE IInv'
  BY <1>3, TechnicalFailureSound, ChildTerminalSound DEF Terminal
<1>4. ASSUME NEW p \in Positions, Retry(p) PROVE IInv'
  BY <1>4, TimerFiresSound, RetryCallbackSound DEF Retry
<1>5. CASE WindowMoves
  BY <1>5, WindowMovesSound
<1>6. ASSUME NEW mode \in {"after_current", "immediate"}, StopGroup(mode) PROVE IInv'
  BY <1>6, StopGroupSound
<1>7. CASE GetGroup
  BY <1>7, GetGroupSound
<1>8. CASE Restart
  BY <1>8, RestartSound
<1> QED
  BY <1>1, <1>2, <1>3, <1>4, <1>5, <1>6, <1>7, <1>8 DEF Next

\* The invariant holds in every reachable state of the group.
THEOREM InvariantCorrect == Spec => []IInv
<1> QED
  BY InitIInv, NextIInv, PTL DEF Spec

\* The group, its children, timers and persisted state always have their types.
THEOREM TypeCorrect == Spec => []TypeOK
<1>1. IInv => TypeOK
  BY DEF IInv
<1> QED
  BY <1>1, InvariantCorrect, PTL

\* _fill_slots_locked, the terminal callbacks and the retry callbacks together
\* never put more domains to work, or into a retry's wait, than there are slots,
\* and no child task runs for a domain outside them.
THEOREM SlotsRespectedCorrect == Spec => []SlotsRespected
<1>1. IInv => SlotsRespected
  <2> SUFFICES ASSUME IInv PROVE SlotsRespected
    OBVIOUS
  <2>1. Cardinality(InSlots(g)) <= Slots
    BY DEF IInv, Sane
  <2>2. ASSUME NEW p \in Positions, g.child[p] # "none" PROVE p \in InSlots(g)
    <3>1. Item(g, p, accounts, inTask, fired)
      BY DEF IInv, Sane
    <3> QED
      BY <2>2, <3>1, SlotsOf DEF Item, SlotItem
  <2> QED
    BY <2>1, <2>2 DEF SlotsRespected
<1> QED
  BY <1>1, InvariantCorrect, PTL

\* However often handle_task_terminal schedules a retry, no domain ever registers
\* more accounts than one task was asked for.
THEOREM NoReplayCorrect == Spec => []NoReplay
<1>1. IInv => NoReplay
  BY DEF IInv, Sane, Item, NoReplay
<1> QED
  BY <1>1, InvariantCorrect, PTL

\* _finalize_if_idle_locked ends a group only when every child has been settled,
\* and as completed only if no domain failed.
THEOREM OverIsSettledCorrect == Spec => []OverIsSettled
<1>1. IInv => OverIsSettled
  <2> SUFFICES ASSUME IInv PROVE OverIsSettled
    OBVIOUS
  <2>1. ASSUME g.state \in TerminalGroup, NEW p \in Positions PROVE g.child[p] = "none"
    <3>1. Item(g, p, accounts, inTask, fired) /\ Idle(g)
      BY <2>1 DEF IInv, Sane, Standing
    <3> QED
      BY <3>1 DEF Item, Idle, SlotItem
  <2> QED
    BY <2>1 DEF OverIsSettled, IInv, Good
<1> QED
  BY <1>1, InvariantCorrect, PTL

\* A stop, a failure or a late retry_callback never leaves a domain that no task,
\* timer or callback will settle, nor a group that goes on with none at work.
THEOREM NothingStrandedCorrect == Spec => []NothingStranded
<1>1. IInv => NothingStranded
  BY DEF IInv, Sane, Item, Standing, NothingStranded
<1> QED
  BY <1>1, InvariantCorrect, PTL

\* The final state that _persist_locked and get_group write is never changed, in
\* memory or in the database, by a late stop, callback or restart.
THEOREM OutcomeFinalCorrect == Spec => OutcomeFinal
<1>1. ASSUME IInv, [Next]_vars
      PROVE  /\ g.state \in TerminalGroup => g'.state \in {g.state, "lost"}
             /\ db \in TerminalGroup => db' = db
  <2>g. g \in Groups
    BY <1>1 DEF IInv, TypeOK
  <2>1. CASE UNCHANGED vars
    BY <2>1 DEF vars
  <2>2. ASSUME NEW p \in Positions, Child(p) \/ Terminal(p)
        PROVE  g.state \notin TerminalGroup /\ db \notin TerminalGroup
    <3>1. g.child[p] # "none"
      BY <2>2 DEF Child, Terminal, ChildRegisters, ChildDecides, ChildLinks, ChildSkips,
                  ChildEnds, TechnicalFailure, ChildTerminal
    <3> QED
      BY <1>1, <3>1, ChildInGroup DEF ActiveGroup, TerminalGroup
  <2>3. ASSUME NEW p \in Positions, TimerFires(p)
        PROVE  g'.state = g.state /\ db' = db
    BY <2>3, <2>g DEF TimerFires, Groups
  <2>4. ASSUME NEW p \in Positions, NEW n \in 1..RetryLimit, RetryCallback(p, n)
        PROVE  \/ g'.state = g.state /\ db' = db
               \/ g.state \notin TerminalGroup /\ db \notin TerminalGroup
    <3>1. CASE g.state = "running"
      BY <1>1, <3>1 DEF IInv, Standing, ActiveGroup, TerminalGroup
    <3>2. CASE g.state # "running"
      BY <2>4, <2>g, <3>2 DEF RetryCallback, Groups
    <3> QED
      BY <3>1, <3>2
  <2>5. ASSUME NEW mode \in {"after_current", "immediate"}, StopGroup(mode)
        PROVE  g.state \notin TerminalGroup /\ db \notin TerminalGroup
    BY <1>1, <2>5, <2>g, GroupFields
       DEF StopGroup, IInv, Standing, ActiveGroup, TerminalGroup
  <2>6. ASSUME GetGroup
        PROVE  g'.state = g.state /\ db \notin TerminalGroup
    BY <1>1, <2>6, <2>g DEF GetGroup, IInv, Standing, ActiveGroup, TerminalGroup, Groups
  <2>7. ASSUME Restart
        PROVE  g'.state = "lost" /\ (db \in TerminalGroup => db' = db)
    <3>1. Lost.state = "lost"
      BY FreshShape
    <3> QED
      BY <2>7, <3>1 DEF Restart, ActiveGroup, TerminalGroup
  <2>8. ASSUME WindowMoves PROVE g'.state = g.state /\ db' = db
    BY <2>8, <2>g DEF WindowMoves, Groups
  <2> QED
    BY <1>1, <2>1, <2>2, <2>3, <2>4, <2>5, <2>6, <2>7, <2>8 DEF Next, Retry
<1> QED
  BY <1>1, InvariantCorrect, PTL DEF Spec, OutcomeFinal

=============================================================================
