------------------------- MODULE SchedulerPassProofs -------------------------
(***************************************************************************)
(* Machine-checked proofs about one pass of the scheduler, for any hosts,   *)
(* tasks, priorities and limits.                                            *)
(***************************************************************************)
EXTENDS SchedulerPass, Functions, FiniteSetTheorems, TLAPS

-----------------------------------------------------------------------------
(* Charging a host. *)

LEMMA ChargedRow ==
    ASSUME NEW row \in HostRow, NEW t \in Task
    PROVE  /\ Charged(row, t) \in HostRow
           /\ Charged(row, t).status = row.status
           /\ Charged(row, t).fresh = row.fresh
           /\ Charged(row, t).cpu = row.cpu - Demand(CpuLimit[t])
           /\ Charged(row, t).mem = row.mem - Demand(MemLimit[t])
<1>1. Demand(CpuLimit[t]) \in Nat /\ Demand(MemLimit[t]) \in Nat
  BY LimitAssumption DEF Demand
<1>2. row.cpu - Demand(CpuLimit[t]) \in Int /\ row.mem - Demand(MemLimit[t]) \in Int
  BY <1>1 DEF HostRow
<1> QED
  BY <1>2 DEF Charged, HostRow

(* A host is never charged more than it has. *)
LEMMA ChargeAffordable ==
    ASSUME NEW row \in HostRow, NEW t \in Task, Eligible(row, t),
           row.cpu >= 0, row.mem >= 0
    PROVE  row.cpu - Demand(CpuLimit[t]) >= 0 /\ row.mem - Demand(MemLimit[t]) >= 0
<1>1. row.cpu \in Int /\ row.mem \in Int
  BY DEF HostRow
<1>2. row.cpu - Demand(CpuLimit[t]) >= 0
  BY <1>1, LimitAssumption DEF Eligible, Enough, Demand
<1>3. row.mem - Demand(MemLimit[t]) >= 0
  BY <1>1, LimitAssumption DEF Eligible, Enough, Demand
<1> QED
  BY <1>2, <1>3

(* A host that is too small for u is so after it has been charged. *)
LEMMA ChargeKeepsOut ==
    ASSUME NEW row \in HostRow, NEW t \in Task, NEW u \in Task, ~Eligible(row, u)
    PROVE  ~Eligible(Charged(row, t), u)
<1>1. /\ row.cpu \in Int /\ row.mem \in Int
      /\ Demand(CpuLimit[t]) \in Nat /\ Demand(MemLimit[t]) \in Nat
  BY LimitAssumption DEF HostRow, Demand
<1>2. /\ ~Enough(row.cpu, CpuLimit[u]) =>
             ~Enough(row.cpu - Demand(CpuLimit[t]), CpuLimit[u])
      /\ ~Enough(row.mem, MemLimit[u]) =>
             ~Enough(row.mem - Demand(MemLimit[t]), MemLimit[u])
  BY <1>1, LimitAssumption DEF Enough
<1> QED
  BY <1>2, ChargedRow DEF Eligible

-----------------------------------------------------------------------------
(* The invariant: beside the properties, a pass changes of a host only its  *)
(* resources, and places only what the loop has come to.                    *)

SameHealth == \A h \in Host : /\ view[h].status = rows[h].status
                              /\ view[h].fresh = rows[h].fresh

IInv == TypeOK /\ SameHealth /\ NeverOverdrawn /\ NothingLeftFits /\ PlacedWhereAlive

LEMMA InitEstablishes == Init => IInv
<1> HAVE Init
<1>1. TypeOK
  BY ReadableAssumption DEF Init, TypeOK
<1>2. SameHealth
  BY DEF Init, SameHealth
<1>3. NeverOverdrawn
  BY ReadableAssumption DEF Init, NeverOverdrawn
<1>4. NothingLeftFits
  BY DEF Init, NothingLeftFits
<1>5. PlacedWhereAlive
  BY DEF Init, PlacedWhereAlive
<1> QED
  BY <1>1, <1>2, <1>3, <1>4, <1>5 DEF IInv

LEMMA PlacePreserves ==
    ASSUME IInv, NEW t \in Task, Place(t)
    PROVE  IInv'
<1> USE DEF IInv
<1>1. PICK h \in BestHosts(view, t) :
         /\ placed' = [placed EXCEPT ![t] = h]
         /\ view' = [view EXCEPT ![h] = Charged(view[h], t)]
  BY DEF Place, ChargeHost
<1>2. /\ h \in Host /\ Eligible(view[h], t)
      /\ t \in todo /\ t \in queue
      /\ todo' = todo \ {t} /\ rows' = rows /\ queue' = queue /\ returned' = returned
  BY <1>1 DEF BestHosts, Candidates, Place, IsNext, TypeOK
<1>3. view[h] \in HostRow /\ Charged(view[h], t) \in HostRow
  BY <1>2, ChargedRow DEF TypeOK
<1>4. TypeOK'
  BY <1>1, <1>2, <1>3 DEF TypeOK
<1>5. SameHealth'
  BY <1>1, <1>2, <1>3, ChargedRow DEF SameHealth, TypeOK
<1>6. NeverOverdrawn'
  <2>1. Charged(view[h], t).cpu >= 0 /\ Charged(view[h], t).mem >= 0
    BY <1>2, <1>3, ChargedRow, ChargeAffordable DEF NeverOverdrawn
  <2> QED
    BY <1>1, <1>2, <2>1 DEF NeverOverdrawn, TypeOK
<1>7. NothingLeftFits'
  <2> SUFFICES ASSUME NEW u \in (queue \ todo)', placed'[u] = NoHost, NEW g \in Host
               PROVE  ~Eligible(view'[g], u)
    BY DEF NothingLeftFits
  <2>1. u # t
    BY <1>1, <1>2, HostAssumption DEF TypeOK
  <2>2. ~Eligible(view[g], u) /\ u \in Task
    BY <1>1, <1>2, <2>1 DEF NothingLeftFits, TypeOK
  <2>3. CASE g = h
    BY <1>1, <1>2, <1>3, <2>2, <2>3, ChargeKeepsOut DEF TypeOK
  <2>4. CASE g # h
    BY <1>1, <2>2, <2>4 DEF TypeOK
  <2> QED
    BY <2>3, <2>4
<1>8. PlacedWhereAlive'
  <2> SUFFICES ASSUME NEW u \in Task, placed'[u] # NoHost
               PROVE  /\ u \in (queue \ todo)'
                      /\ rows'[placed'[u]].status = "ONLINE"
                      /\ rows'[placed'[u]].fresh
    BY DEF PlacedWhereAlive
  <2>1. CASE u = t
    BY <1>1, <1>2, <2>1 DEF Eligible, SameHealth, TypeOK
  <2>2. CASE u # t
    BY <1>1, <1>2, <2>2 DEF PlacedWhereAlive, TypeOK
  <2> QED
    BY <2>1, <2>2
<1> QED
  BY <1>4, <1>5, <1>6, <1>7, <1>8

LEMMA SkipPreserves ==
    ASSUME IInv, NEW t \in Task, Skip(t)
    PROVE  IInv'
<1> USE DEF IInv
<1>1. /\ Candidates(view, t) = {} /\ t \in todo /\ todo' = todo \ {t}
      /\ rows' = rows /\ queue' = queue /\ view' = view
      /\ placed' = placed /\ returned' = returned
  BY DEF Skip, IsNext
<1>2. TypeOK' /\ SameHealth' /\ NeverOverdrawn'
  BY <1>1 DEF TypeOK, SameHealth, NeverOverdrawn
<1>3. NothingLeftFits'
  BY <1>1 DEF NothingLeftFits, Candidates
<1>4. PlacedWhereAlive'
  BY <1>1 DEF PlacedWhereAlive
<1> QED
  BY <1>2, <1>3, <1>4

LEMMA StepPreserves == IInv /\ [Next]_vars => IInv'
<1> SUFFICES ASSUME IInv, [Next]_vars
             PROVE  IInv'
  OBVIOUS
<1>1. CASE Return
  BY <1>1 DEF IInv, Return, TypeOK, SameHealth, NeverOverdrawn, NothingLeftFits,
              PlacedWhereAlive
<1>2. CASE UNCHANGED vars
  BY <1>2 DEF IInv, vars, TypeOK, SameHealth, NeverOverdrawn, NothingLeftFits,
              PlacedWhereAlive
<1> QED
  BY <1>1, <1>2, PlacePreserves, SkipPreserves DEF Next

-----------------------------------------------------------------------------
(* The types of the loop's variables: it never touches what it has read,    *)
(* nor a task it was not given.                                             *)
THEOREM PassTypeCorrect == Spec => []TypeOK
<1>1. IInv => TypeOK
  BY DEF IInv
<1> QED
  BY InitEstablishes, StepPreserves, <1>1, PTL DEF Spec

(* The deductions of one pass never take a host below zero (the loop of     *)
(* schedule_pending_tasks).                                                 *)
THEOREM NeverOverdraws == Spec => []NeverOverdrawn
<1>1. IInv => NeverOverdrawn
  BY DEF IInv
<1> QED
  BY InitEstablishes, StepPreserves, <1>1, PTL DEF Spec

(* A pending task that a pass leaves behind fits on no host, even after the *)
(* whole pass: skipping a task and going on ("if not candidates: continue") *)
(* wastes no room.                                                          *)
THEOREM LeavesNothingThatFits == Spec => []NothingLeftFits
<1>1. IInv => NothingLeftFits
  BY DEF IInv
<1> QED
  BY InitEstablishes, StepPreserves, <1>1, PTL DEF Spec

(* A pass gives tasks only to hosts it has read as ONLINE and fresh, and    *)
(* only tasks it has read as PENDING (_is_host_eligible).                   *)
THEOREM PlacesOnLiveHosts == Spec => []PlacedWhereAlive
<1>1. IInv => PlacedWhereAlive
  BY DEF IInv
<1> QED
  BY InitEstablishes, StepPreserves, <1>1, PTL DEF Spec

-----------------------------------------------------------------------------
(* Sums over finite sets.  The community modules define a sum by recursion  *)
(* on subsets, taking out an arbitrary element each time.  That recursion   *)
(* has a solution on every finite set, and the order of the elements does   *)
(* not matter; both by the smallest set for which it would be otherwise.    *)

Element(s) == CHOOSE x \in s : TRUE

Solves(g, d, S) == g = [s \in SUBSET S |-> IF s = {} THEN 0
                                           ELSE d[Element(s)] + g[s \ {Element(s)}]]

LEMMA SumIs ==
    ASSUME NEW d, NEW S
    PROVE  SumFunctionOnSet(d, S) = (CHOOSE g : Solves(g, d, S))[S]
BY DEF SumFunctionOnSet, FoldFunctionOnSet, MapThenFoldSet, Solves, Element

LEMMA SmallestSet ==
    ASSUME NEW Bad, Bad # {}, \A T \in Bad : IsFiniteSet(T)
    PROVE  \E T \in Bad : \A U \in Bad : U \subseteq T => U = T
<1> DEFINE S == UNION Bad
<1>1. IsWellFoundedOn(StrictSubsetOrdering(S), FiniteSubsetsOf(S))
  BY FS_StrictSubsetOrderingWellFounded
<1>2. Bad \subseteq FiniteSubsetsOf(S)
  BY DEF FiniteSubsetsOf
<1>3. PICK T \in Bad : \A U \in Bad : <<U, T>> \notin StrictSubsetOrdering(S)
  BY <1>1, <1>2, WFMin
<1> QED
  BY <1>3 DEF StrictSubsetOrdering

Total(d, S) == (CHOOSE g : Solves(g, d, S))[S]

Unfolds(d, S) == Total(d, S) = IF S = {} THEN 0
                               ELSE d[Element(S)] + Total(d, S \ {Element(S)})

LEMMA ElementIn == ASSUME NEW S, S # {} PROVE Element(S) \in S
BY DEF Element

(* A solution agrees with the totals of the smaller sets. *)
LEMMA SolutionsAgree ==
    ASSUME NEW d, NEW S, IsFiniteSet(S), NEW g, Solves(g, d, S),
           \A T \in (SUBSET S) \ {S} : Unfolds(d, T)
    PROVE  \A T \in (SUBSET S) \ {S} : g[T] = Total(d, T)
<1> DEFINE Bad == {T \in (SUBSET S) \ {S} : g[T] # Total(d, T)}
<1> SUFFICES ASSUME Bad # {}
             PROVE  FALSE
  OBVIOUS
<1>1. \A T \in Bad : IsFiniteSet(T)
  BY FS_Subset
<1>2. PICK T \in Bad : \A U \in Bad : U \subseteq T => U = T
  <2> HIDE DEF Bad
  <2> QED
    BY <1>1, SmallestSet
<1>3. /\ T \in SUBSET S /\ T # S /\ Unfolds(d, T)
      /\ g[T] # Total(d, T)
  BY <1>2
<1>4. g[T] = IF T = {} THEN 0 ELSE d[Element(T)] + g[T \ {Element(T)}]
  BY <1>3 DEF Solves
<1>5. CASE T = {}
  BY <1>3, <1>4, <1>5 DEF Unfolds
<1>6. CASE T # {}
  <2> DEFINE U == T \ {Element(T)}
  <2>1. U \subseteq T /\ U # T /\ U \in (SUBSET S) \ {S}
    BY <1>3, <1>6, ElementIn
  <2>2. g[U] = Total(d, U)
    BY <1>2, <2>1
  <2> QED
    BY <1>3, <1>4, <1>6, <2>2 DEF Unfolds
<1> QED
  BY <1>5, <1>6

LEMMA TotalUnfolds ==
    ASSUME NEW d, NEW S, IsFiniteSet(S)
    PROVE  Unfolds(d, S)
<1> DEFINE Bad == {T \in SUBSET S : ~Unfolds(d, T)}
<1> SUFFICES ASSUME Bad # {}
             PROVE  FALSE
  OBVIOUS
<1>1. \A T \in Bad : IsFiniteSet(T)
  BY FS_Subset
<1>2. PICK T \in Bad : \A U \in Bad : U \subseteq T => U = T
  <2> HIDE DEF Bad
  <2> QED
    BY <1>1, SmallestSet
<1>3. /\ T \in SUBSET S /\ IsFiniteSet(T) /\ ~Unfolds(d, T)
      /\ \A U \in (SUBSET T) \ {T} : Unfolds(d, U)
  BY <1>1, <1>2
<1> DEFINE last == IF T = {} THEN 0 ELSE d[Element(T)] + Total(d, T \ {Element(T)})
           h == [U \in SUBSET T |-> IF U = T THEN last ELSE Total(d, U)]
<1>4. ASSUME NEW U \in SUBSET T, U # {}
      PROVE  /\ U \ {Element(U)} \in (SUBSET T) \ {T}
             /\ h[U \ {Element(U)}] = Total(d, U \ {Element(U)})
  BY <1>4, ElementIn
<1>5. ASSUME NEW U \in SUBSET T
      PROVE  h[U] = IF U = {} THEN 0 ELSE d[Element(U)] + h[U \ {Element(U)}]
  <2>1. CASE U = T
    BY <1>4, <2>1
  <2>2. CASE U # T
    <3>1. h[U] = Total(d, U) /\ Unfolds(d, U)
      BY <1>3, <2>2
    <3> HIDE DEF h
    <3> QED
      BY <1>4, <3>1 DEF Unfolds
  <2> QED
    BY <2>1, <2>2
<1>6. Solves(h, d, T)
  <2>1. h = [U \in SUBSET T |-> h[U]]
    OBVIOUS
  <2> HIDE DEF h
  <2> QED
    BY <1>5, <2>1 DEF Solves
<1> DEFINE g == CHOOSE f : Solves(f, d, T)
<1>7. Solves(g, d, T)
  BY <1>6
<1>8. g[T] = Total(d, T)
  BY DEF Total
<1> HIDE DEF g, h
<1>9. g[T] = IF T = {} THEN 0 ELSE d[Element(T)] + g[T \ {Element(T)}]
  BY <1>7 DEF Solves
<1>10. ASSUME T # {}
       PROVE  g[T \ {Element(T)}] = Total(d, T \ {Element(T)})
  <2>1. T \ {Element(T)} \in (SUBSET T) \ {T}
    BY <1>10, ElementIn
  <2>2. \A U \in (SUBSET T) \ {T} : g[U] = Total(d, U)
    BY <1>3, <1>7, SolutionsAgree
  <2> QED
    BY <2>1, <2>2
<1> QED
  BY <1>3, <1>8, <1>9, <1>10 DEF Unfolds

LEMMA TotalTyped ==
    ASSUME NEW d, NEW S, IsFiniteSet(S), \A x \in S : d[x] \in Int
    PROVE  Total(d, S) \in Int
<1> DEFINE Bad == {T \in SUBSET S : Total(d, T) \notin Int}
<1> SUFFICES ASSUME Bad # {}
             PROVE  FALSE
  OBVIOUS
<1>1. \A T \in Bad : IsFiniteSet(T)
  BY FS_Subset
<1>2. PICK T \in Bad : \A U \in Bad : U \subseteq T => U = T
  <2> HIDE DEF Bad
  <2> QED
    BY <1>1, SmallestSet
<1>3. Unfolds(d, T) /\ T \in SUBSET S /\ Total(d, T) \notin Int
  BY <1>1, TotalUnfolds
<1>4. T # {} /\ Element(T) \in T
  BY <1>3, ElementIn DEF Unfolds
<1>5. Total(d, T \ {Element(T)}) \in Int
  BY <1>2, <1>4
<1>6. d[Element(T)] \in Int
  BY <1>3, <1>4
<1> QED
  BY <1>3, <1>4, <1>5, <1>6 DEF Unfolds

(* The order in which the elements are taken does not matter. *)
LEMMA TotalWithout ==
    ASSUME NEW d, NEW S, IsFiniteSet(S), \A x \in S : d[x] \in Int, NEW t \in S
    PROVE  Total(d, S) = d[t] + Total(d, S \ {t})
<1> DEFINE Splits(T) == \A x \in T : Total(d, T) = d[x] + Total(d, T \ {x})
           Bad == {T \in SUBSET S : ~Splits(T)}
<1> SUFFICES ASSUME Bad # {}
             PROVE  FALSE
  OBVIOUS
<1>0. \A T \in SUBSET S : IsFiniteSet(T) /\ Total(d, T) \in Int /\ Unfolds(d, T)
  BY FS_Subset, TotalTyped, TotalUnfolds
<1>1. \A T \in Bad : IsFiniteSet(T)
  BY <1>0
<1>2. PICK T \in Bad : \A U \in Bad : U \subseteq T => U = T
  <2> HIDE DEF Bad
  <2> QED
    BY <1>1, SmallestSet
<1>3. PICK x \in T : Total(d, T) # d[x] + Total(d, T \ {x})
  BY <1>2
<1> DEFINE c == Element(T)
<1>4. c \in T /\ T \in SUBSET S
  BY <1>3, ElementIn
<1> HIDE DEF c
<1>5. Total(d, T) = d[c] + Total(d, T \ {c})
  BY <1>0, <1>3, <1>4 DEF Unfolds, c
<1>6. x # c
  BY <1>3, <1>5
<1>7. \A y \in T : Splits(T \ {y})
  BY <1>2, <1>4
<1>8. Total(d, T \ {c}) = d[x] + Total(d, (T \ {c}) \ {x})
  BY <1>4, <1>6, <1>7
<1>9. Total(d, T \ {x}) = d[c] + Total(d, (T \ {x}) \ {c})
  BY <1>4, <1>6, <1>7
<1> DEFINE rest == Total(d, (T \ {c}) \ {x})
<1>10. Total(d, (T \ {x}) \ {c}) = rest
  <2>1. (T \ {c}) \ {x} = (T \ {x}) \ {c}
    OBVIOUS
  <2> QED
    BY <2>1
<1>11. d[c] \in Int /\ d[x] \in Int /\ rest \in Int
  BY <1>0, <1>4
<1> HIDE DEF rest
<1>12. Total(d, T) = d[c] + (d[x] + rest) /\ Total(d, T \ {x}) = d[c] + rest
  BY <1>5, <1>8, <1>9, <1>10 DEF rest
<1> QED
  BY <1>3, <1>11, <1>12

-----------------------------------------------------------------------------
(* The result.  Whatever the order in which the sums are taken, what is left *)
(* of the hosts by the tasks the loop has handled is its view.              *)

Dealt == queue \ todo

Ledger == view = Result!Left(Dealt, placed)

InOrder == \A t \in todo, u \in Dealt : Before(u, t)

DealtWith == \A t \in Dealt : /\ Result!Ahead(t) \subseteq Dealt
                              /\ Result!FitsBest(placed, t)

RInv == IInv /\ IsFiniteSet(Dealt) /\ Ledger /\ InOrder /\ DealtWith

LEMMA BeforeIsStrict ==
    ASSUME NEW t \in Task, NEW u \in Task, Before(t, u)
    PROVE  t # u /\ ~Before(u, t)
BY PriorityAssumption, TaskAssumption DEF Before

(* PassResult brings its own copy of the rules of Placement. *)
LEMMA SameRules ==
    /\ \A limit : Result!Demand(limit) = Demand(limit)
    /\ \A t, u : Result!Before(t, u) <=> Before(t, u)
    /\ \A left, t : Result!Candidates(left, t) = Candidates(left, t)
    /\ \A left, t : Result!BestHosts(left, t) = BestHosts(left, t)
<1>1. \A limit : Result!Demand(limit) = Demand(limit)
  BY DEF Result!Demand, Demand
<1>2. \A t, u : Result!Before(t, u) <=> Before(t, u)
  BY DEF Result!Before, Before
<1>3. \A left, t : Result!Candidates(left, t) = Candidates(left, t)
  BY DEF Result!Candidates, Result!Eligible, Result!Enough, Candidates, Eligible, Enough
<1>4. \A a, b : Result!NoHigher(a, b) <=> NoHigher(a, b)
  BY DEF Result!NoHigher, NoHigher
<1>5. \A row, t : Result!Score(row, t) = Score(row, t)
  BY <1>1 DEF Result!Score, Score
<1>6. \A left, t : Result!BestHosts(left, t) = BestHosts(left, t)
  BY <1>3, <1>4, <1>5 DEF Result!BestHosts, BestHosts
<1> QED
  BY <1>1, <1>2, <1>3, <1>6

LEMMA DemandsTyped ==
    /\ \A t \in Task : /\ Result!CpuDemand[t] = Demand(CpuLimit[t])
                       /\ Result!MemDemand[t] = Demand(MemLimit[t])
                       /\ Demand(CpuLimit[t]) \in Int
                       /\ Demand(MemLimit[t]) \in Int
<1>1. \A t \in Task : Demand(CpuLimit[t]) \in Int /\ Demand(MemLimit[t]) \in Int
  BY LimitAssumption DEF Demand
<1> QED
  BY <1>1, SameRules DEF Result!CpuDemand, Result!MemDemand

LEMMA ResultSums ==
    ASSUME NEW d, NEW S
    PROVE  Result!SumFunctionOnSet(d, S) = Total(d, S)
BY DEF Result!SumFunctionOnSet, Result!FoldFunctionOnSet, Result!MapThenFoldSet,
       Total, Solves, Element

(* The tasks of S that were placed on h. *)
Given(S, p, h) == {t \in S : p[t] = h}

Less(row, cpu, mem) == [row EXCEPT !.cpu = row.cpu - cpu, !.mem = row.mem - mem]

LEMMA LeftRow ==
    ASSUME NEW S, NEW p, NEW h \in Host
    PROVE  Result!Left(S, p)[h] = Less(rows[h], Total(Result!CpuDemand, Given(S, p, h)),
                                                Total(Result!MemDemand, Given(S, p, h)))
BY ResultSums DEF Result!Left, Given, Less

LEMMA NothingLess ==
    ASSUME NEW row \in HostRow
    PROVE  Less(row, 0, 0) = row
<1>1. row.cpu - 0 = row.cpu /\ row.mem - 0 = row.mem
  BY DEF HostRow
<1> QED
  BY <1>1 DEF Less, HostRow

LEMMA LessAndLess ==
    ASSUME NEW row \in HostRow, NEW cpu \in Int, NEW mem \in Int,
           NEW t \in Task, NEW ccpu, NEW cmem,
           ccpu = Demand(CpuLimit[t]) + cpu, cmem = Demand(MemLimit[t]) + mem
    PROVE  Charged(Less(row, cpu, mem), t) = Less(row, ccpu, cmem)
<1> DEFINE dcpu == Demand(CpuLimit[t])
           dmem == Demand(MemLimit[t])
           less == Less(row, cpu, mem)
<1>1. dcpu \in Int /\ dmem \in Int
  BY DemandsTyped
<1>2. /\ less \in HostRow
      /\ less.cpu = row.cpu - cpu /\ less.mem = row.mem - mem
      /\ row.cpu \in Int /\ row.mem \in Int
  <2>1. row.cpu \in Int /\ row.mem \in Int
    BY DEF HostRow
  <2>2. row.cpu - cpu \in Int /\ row.mem - mem \in Int
    BY <2>1
  <2> QED
    BY <2>1, <2>2 DEF Less, HostRow
<1>3. less.cpu - dcpu = row.cpu - ccpu /\ less.mem - dmem = row.mem - cmem
  <2> HIDE DEF less, dcpu, dmem
  <2>1. ccpu = dcpu + cpu /\ cmem = dmem + mem
    BY DEF dcpu, dmem
  <2> QED
    BY <1>1, <1>2, <2>1
<1>4. Charged(less, t) = [less EXCEPT !.cpu = row.cpu - ccpu, !.mem = row.mem - cmem]
  BY <1>3 DEF Charged
<1> QED
  BY <1>4 DEF Less, HostRow

LEMMA SameGiven ==
    ASSUME NEW S, NEW p, NEW q, \A h \in Host : Given(S, p, h) = Given(S, q, h)
    PROVE  Result!Left(S, p) = Result!Left(S, q)
BY ResultSums DEF Result!Left, Given

LEMMA TotalWithNew ==
    ASSUME NEW S \in SUBSET Task, IsFiniteSet(S), NEW t \in Task \ S, NEW d,
           \A u \in Task : d[u] \in Int
    PROVE  /\ Total(d, S) \in Int
           /\ Total(d, S \cup {t}) = d[t] + Total(d, S)
<1>1. IsFiniteSet(S \cup {t})
  BY FS_AddElement
<1>2. (S \cup {t}) \ {t} = S
  OBVIOUS
<1>3. Total(d, S \cup {t}) = d[t] + Total(d, (S \cup {t}) \ {t})
  BY <1>1, TotalWithout
<1>4. Total(d, S) \in Int
  BY TotalTyped
<1> QED
  BY <1>2, <1>3, <1>4

(* One more task on a host takes from it what ChargeHost takes.             *)
LEMMA LeftAfterPlacing ==
    ASSUME TypeOK, NEW S \in SUBSET Task, IsFiniteSet(S), NEW t \in Task \ S,
           NEW p \in [Task -> Host \cup {NoHost}], NEW h \in Host, p[t] = h
    PROVE  Result!Left(S \cup {t}, p) = ChargeHost(Result!Left(S, p), h, t)
<1> DEFINE left == Result!Left(S, p)
           after == Result!Left(S \cup {t}, p)
<1>1. left = [g \in Host |-> left[g]] /\ after = [g \in Host |-> after[g]]
  BY DEF Result!Left
<1>2. rows \in [Host -> HostRow]
  BY ReadableAssumption DEF TypeOK
<1>3. ASSUME NEW g \in Host, g # h
      PROVE  after[g] = left[g]
  <2>1. Given(S \cup {t}, p, g) = Given(S, p, g)
    BY <1>3 DEF Given
  <2> QED
    BY <2>1, LeftRow
<1>4. after[h] = Charged(left[h], t)
  <2> DEFINE given == Given(S, p, h)
             cpu == Total(Result!CpuDemand, given)
             mem == Total(Result!MemDemand, given)
             ccpu == Total(Result!CpuDemand, given \cup {t})
             cmem == Total(Result!MemDemand, given \cup {t})
  <2>1. Given(S \cup {t}, p, h) = given \cup {t}
    BY DEF Given
  <2>2. given \in SUBSET Task /\ IsFiniteSet(given) /\ t \in Task \ given
    BY FS_Subset DEF Given
  <2>3. /\ cpu \in Int /\ ccpu = Demand(CpuLimit[t]) + cpu
        /\ mem \in Int /\ cmem = Demand(MemLimit[t]) + mem
    <3> HIDE DEF given
    <3> QED
      BY <2>2, DemandsTyped, TotalWithNew
  <2>4. left[h] = Less(rows[h], cpu, mem)
    BY LeftRow
  <2>5. after[h] = Less(rows[h], ccpu, cmem)
    BY <2>1, LeftRow
  <2>6. rows[h] \in HostRow
    BY <1>2
  <2> HIDE DEF cpu, mem, ccpu, cmem, left, after
  <2> QED
    BY <2>3, <2>4, <2>5, <2>6, LessAndLess
<1> HIDE DEF left, after
<1>5. ChargeHost(left, h, t) = [g \in Host |-> IF g = h THEN Charged(left[h], t) ELSE left[g]]
  BY <1>1 DEF ChargeHost
<1>6. after = ChargeHost(left, h, t)
  BY <1>1, <1>3, <1>4, <1>5
<1> QED
  BY <1>6 DEF left, after

(* The task the loop handles next has the handled ones ahead, and no other. *)
LEMMA AheadIsDealt ==
    ASSUME TypeOK, InOrder, NEW t \in todo, IsNext(t, todo)
    PROVE  Result!Ahead(t) = Dealt
<1>1. t \in Task /\ todo \subseteq Task /\ queue \subseteq Task /\ todo \subseteq queue
  BY DEF TypeOK
<1>2. \A u \in todo : ~Before(u, t)
  BY <1>1, BeforeIsStrict DEF IsNext
<1>3. Result!Ahead(t) = {u \in queue : Before(u, t)}
  BY SameRules DEF Result!Ahead
<1> QED
  BY <1>1, <1>2, <1>3 DEF InOrder, Dealt

LEMMA FirstLedger ==
    ASSUME Init
    PROVE  RInv
<1>1. Dealt = {}
  BY DEF Init, Dealt
<1>2. IsFiniteSet(Dealt)
  BY <1>1, FS_EmptySet
<1>3. view = Result!Left(Dealt, placed)
  <2> DEFINE left == Result!Left({}, placed)
  <2>1. ASSUME NEW h \in Host
        PROVE  left[h] = rows[h]
    <3>1. Given({}, placed, h) = {}
      BY DEF Given
    <3>2. \A d : Total(d, {}) = 0
      BY FS_EmptySet, TotalUnfolds DEF Unfolds
    <3>3. left[h] = Less(rows[h], 0, 0)
      BY <3>1, <3>2, LeftRow
    <3>4. rows[h] \in HostRow
      BY ReadableAssumption DEF Init
    <3> HIDE DEF left
    <3> QED
      BY <3>3, <3>4, NothingLess
  <2>2. left = [h \in Host |-> left[h]]
    BY DEF Result!Left
  <2>3. rows = [h \in Host |-> rows[h]] /\ view = rows
    BY DEF Init
  <2> HIDE DEF left
  <2>4. left = rows
    BY <2>1, <2>2, <2>3
  <2> QED
    BY <1>1, <2>3, <2>4 DEF left
<1>4. InOrder /\ DealtWith
  BY <1>1 DEF InOrder, DealtWith
<1> QED
  BY <1>2, <1>3, <1>4, InitEstablishes DEF RInv, Ledger

(* One more task is dealt with: those ahead of it stay ahead.               *)
LEMMA OneMoreDealt ==
    ASSUME RInv, RInv => IInv', NEW t \in todo, IsNext(t, todo),
           todo' = todo \ {t}, rows' = rows, queue' = queue,
           \A u \in Dealt : placed'[u] = placed[u],
           Ledger', Result!FitsBest(placed', t)
    PROVE  RInv'
<1> USE DEF RInv, IInv
<1>1. /\ t \in Task /\ t \in queue /\ t \notin Dealt
      /\ todo \subseteq Task /\ Dealt \subseteq Task
      /\ Dealt' = Dealt \cup {t}
  BY DEF TypeOK, Dealt
<1>2. IsFiniteSet(Dealt')
  BY <1>1, FS_AddElement
<1>3. InOrder'
  BY <1>1 DEF InOrder, IsNext
<1>4. \A u : Result!Ahead(u)' = Result!Ahead(u)
  BY DEF Result!Ahead
<1>5. Result!Ahead(t) = Dealt
  BY AheadIsDealt
<1>6. ASSUME NEW u \in Dealt
      PROVE  Result!Ahead(u) \subseteq Dealt /\ Result!FitsBest(placed', u)
  <2>1. Result!Ahead(u) \subseteq Dealt /\ Result!FitsBest(placed, u)
    BY DEF DealtWith
  <2>2. \A h \in Host : Given(Result!Ahead(u), placed', h) = Given(Result!Ahead(u), placed, h)
    BY <2>1 DEF Given
  <2>3. Result!Left(Result!Ahead(u), placed') = Result!Left(Result!Ahead(u), placed)
    BY <2>2, SameGiven
  <2> QED
    BY <2>1, <2>3 DEF Result!FitsBest
<1>7. DealtWith'
  <2> SUFFICES ASSUME NEW u \in Dealt'
               PROVE  Result!Ahead(u)' \subseteq Dealt' /\ Result!FitsBest(placed, u)'
    BY DEF DealtWith
  <2>1. Result!Ahead(u) \subseteq Dealt /\ Result!FitsBest(placed', u)
    BY <1>1, <1>5, <1>6
  <2>2. Result!FitsBest(placed, u)'
    BY <2>1 DEF Result!FitsBest, Result!Left, Result!Ahead
  <2> QED
    BY <1>1, <1>4, <2>1, <2>2
<1> QED
  BY <1>2, <1>3, <1>7

LEMMA PlaceDeals ==
    ASSUME RInv, NEW t \in Task, Place(t)
    PROVE  RInv'
<1> USE DEF RInv, IInv
<1>1. PICK h \in BestHosts(view, t) :
         placed' = [placed EXCEPT ![t] = h] /\ view' = ChargeHost(view, h, t)
  BY DEF Place
<1>2. /\ h \in Host /\ h \in Candidates(view, t)
      /\ IsNext(t, todo) /\ t \in todo /\ t \in queue /\ t \notin Dealt
      /\ Dealt \in SUBSET Task
      /\ todo' = todo \ {t} /\ rows' = rows /\ queue' = queue
  <2>1. h \in Host /\ h \in Candidates(view, t)
    BY <1>1 DEF BestHosts, Candidates
  <2>2. /\ IsNext(t, todo)
        /\ todo' = todo \ {t} /\ rows' = rows /\ queue' = queue
    BY DEF Place
  <2>3. t \in todo /\ todo \subseteq queue /\ queue \subseteq Task
    BY <2>2 DEF IsNext, TypeOK
  <2>4. t \in queue /\ t \notin Dealt /\ Dealt \in SUBSET Task
    BY <2>3 DEF Dealt
  <2> QED
    BY <2>1, <2>2, <2>3, <2>4
<1>3. /\ placed' \in [Task -> Host \cup {NoHost}]
      /\ placed'[t] = h
      /\ \A u \in Dealt : placed'[u] = placed[u]
  BY <1>1, <1>2 DEF TypeOK
<1>4. \A g \in Host : Given(Dealt, placed', g) = Given(Dealt, placed, g)
  BY <1>3 DEF Given
<1>5. Result!Left(Dealt, placed') = view
  BY <1>4, SameGiven DEF Ledger
<1>6. Result!FitsBest(placed', t)
  <2>1. Result!Ahead(t) = Dealt
    BY <1>2, AheadIsDealt
  <2>2. Result!BestHosts(view, t) = BestHosts(view, t)
        /\ Result!Candidates(view, t) = Candidates(view, t)
    BY SameRules
  <2> QED
    BY <1>1, <1>2, <1>3, <1>5, <2>1, <2>2 DEF Result!FitsBest
<1>7. Ledger'
  <2>1. Result!Left(Dealt \cup {t}, placed') = ChargeHost(view, h, t)
    BY <1>2, <1>3, <1>5, LeftAfterPlacing
  <2>2. Dealt' = Dealt \cup {t}
    BY <1>2 DEF Dealt
  <2>3. Result!Left(Dealt, placed)' = Result!Left(Dealt', placed')
    BY <1>2 DEF Result!Left
  <2> QED
    BY <1>1, <2>1, <2>2, <2>3 DEF Ledger
<1>8. IInv'
  BY PlacePreserves
<1> QED
  BY <1>2, <1>3, <1>6, <1>7, <1>8, OneMoreDealt

LEMMA SkipDeals ==
    ASSUME RInv, NEW t \in Task, Skip(t)
    PROVE  RInv'
<1> USE DEF RInv, IInv
<1>1. /\ Candidates(view, t) = {}
      /\ IsNext(t, todo) /\ t \in todo /\ t \in queue /\ t \notin Dealt
      /\ todo' = todo \ {t} /\ rows' = rows /\ queue' = queue
      /\ placed' = placed /\ view' = view
  BY DEF Skip, IsNext, TypeOK, Dealt
<1>2. placed[t] = NoHost
  BY <1>1 DEF PlacedWhereAlive, TypeOK
<1>3. Result!FitsBest(placed', t)
  <2>1. Result!Ahead(t) = Dealt
    BY <1>1, AheadIsDealt
  <2>2. Result!Candidates(view, t) = Candidates(view, t)
    BY SameRules
  <2> QED
    BY <1>1, <1>2, <2>1, <2>2 DEF Result!FitsBest, Ledger
<1>4. Ledger'
  <2>1. Dealt' = Dealt \cup {t}
    BY <1>1 DEF Dealt
  <2>3. ASSUME NEW g \in Host
        PROVE  Result!Left(Dealt \cup {t}, placed)[g] = Result!Left(Dealt, placed)[g]
    <3>1. Given(Dealt \cup {t}, placed, g) = Given(Dealt, placed, g)
      BY <1>2, HostAssumption DEF Given
    <3> QED
      BY <3>1, LeftRow
  <2>4. Result!Left(Dealt \cup {t}, placed) = Result!Left(Dealt, placed)
    <3> DEFINE after == Result!Left(Dealt \cup {t}, placed)
               before == Result!Left(Dealt, placed)
    <3>1. after = [g \in Host |-> after[g]] /\ before = [g \in Host |-> before[g]]
      BY DEF Result!Left
    <3> HIDE DEF after, before
    <3>2. \A g \in Host : after[g] = before[g]
      BY <2>3 DEF after, before
    <3>3. after = before
      BY <3>1, <3>2
    <3> QED
      BY <3>3 DEF after, before
  <2>5. Result!Left(Dealt, placed)' = Result!Left(Dealt', placed)
    BY <1>1 DEF Result!Left
  <2> QED
    BY <1>1, <2>1, <2>4, <2>5 DEF Ledger
<1>5. IInv'
  BY SkipPreserves
<1> QED
  BY <1>1, <1>3, <1>4, <1>5, OneMoreDealt

LEMMA SameDeals ==
    ASSUME RInv, [Next]_vars,
           UNCHANGED <<rows, queue, view, todo, placed>>
    PROVE  RInv'
<1>1. IInv'
  BY StepPreserves DEF RInv
<1>2. Dealt' = Dealt
  BY DEF Dealt
<1>3. /\ Result!Left(Dealt, placed)' = Result!Left(Dealt, placed)
      /\ \A t : Result!Ahead(t)' = Result!Ahead(t)
      /\ \A t : Result!FitsBest(placed, t)' <=> Result!FitsBest(placed, t)
  BY <1>2 DEF Result!Left, Result!Ahead, Result!FitsBest
<1> QED
  BY <1>1, <1>2, <1>3 DEF RInv, Ledger, InOrder, DealtWith

LEMMA StepDeals == RInv /\ [Next]_vars => RInv'
<1> SUFFICES ASSUME RInv, [Next]_vars
             PROVE  RInv'
  OBVIOUS
<1>1. CASE Return \/ UNCHANGED vars
  BY <1>1, SameDeals DEF Return, vars
<1> QED
  BY <1>1, PlaceDeals, SkipDeals DEF Next

(* A pass of schedule_pending_tasks implements PassResult: what the loop    *)
(* returns, handling one task after the other and deducting as it goes, is  *)
(* a result in which every pending task has a best fitting host of what the *)
(* tasks ahead of it in the queue leave, or none when none fits.            *)
THEOREM PassImplementsResult == Spec => ImplementsPassResult
<1> DEFINE result == IF returned THEN placed ELSE [t \in Task |-> NoHost]
<1>1. Init => Result!PassInit
  BY ReadableAssumption DEF Init, Result!PassInit, Result!HostRow, Result!HostStatus,
                            HostRow, HostStatus
<1>2. RInv /\ [Next]_vars => [Result!Deliver]_<<rows, queue, result, returned>>
  <2> SUFFICES ASSUME RInv, [Next]_vars
               PROVE  [Result!Deliver]_<<rows, queue, result, returned>>
    OBVIOUS
  <2>1. ASSUME NEW t \in Task, Place(t) \/ Skip(t)
        PROVE  UNCHANGED <<rows, queue, result, returned>>
    BY <2>1 DEF Place, Skip
  <2>2. CASE Return
    <3>1. todo = {} /\ ~returned /\ returned' /\ placed' = placed
          /\ rows' = rows /\ queue' = queue
      BY <2>2 DEF Return
    <3>2. Dealt = queue
      BY <3>1 DEF Dealt
    <3>3. Result!IsResult(placed)
      BY <3>2 DEF RInv, IInv, PlacedWhereAlive, DealtWith, Result!IsResult
    <3>4. result' = placed /\ placed \in [Task -> Host \cup {NoHost}]
      BY <3>1 DEF RInv, IInv, TypeOK
    <3> QED
      BY <3>1, <3>3, <3>4 DEF Result!Deliver
  <2>3. CASE UNCHANGED vars
    BY <2>3 DEF vars
  <2> QED
    BY <2>1, <2>2, <2>3 DEF Next
<1> QED
  BY FirstLedger, StepDeals, <1>1, <1>2, PTL
  DEF Spec, ImplementsPassResult, Result!PassSpec
=============================================================================
