------------------------ MODULE DeferredSessionProofs ------------------------
(***************************************************************************)
(* Proofs about DeferredSession, for any number of sessions, lanes,        *)
(* packets, workers and tasks: the count of a session is exact, no tracked *)
(* packet is stranded, and removals stop the tasks they should and no      *)
(* others.                                                                 *)
(***************************************************************************)
EXTENDS DeferredSession, FiniteSetTheorems, WellFoundedInduction, TLAPS

-----------------------------------------------------------------------------
(* The inductive invariant.                                                  *)

TaskIds == DOMAIN pkt
Hands == {Free} \union [task : TaskIds, phase : Phases]
HandlerStates ==
  {Idle} \union [op : {"enqueue", "refused"}, task : TaskIds]
    \union [op : {"removeLane"}, lane : Lanes]
    \union [op : {"removeSession"}, session : Sessions]

TypeOK ==
  /\ tracked \subseteq Packets
  /\ pkt \in Seq(Packets)
  /\ handler \in [Handlers -> HandlerStates]
  /\ jobs \in [Workers -> Seq(TaskIds)]
  /\ cur \in [Workers -> Hands]
  /\ laneWorker \in [Lanes -> Workers \union {None}]
  /\ cancelled \subseteq Lanes
  /\ running \in [Lanes -> TaskIds \union {0}]
  /\ sessionPending \in [Sessions -> Nat]

InHand == TasksIn(cur)

\* A task is in one place: once in one queue, in one worker's hand, or with the
\* goroutine that is about to queue it.
Distinct(s) == \A i, j \in DOMAIN s : s[i] = s[j] => i = j

QueueDistinct == \A w \in Workers : Distinct(jobs[w])

QueuesApart ==
  \A v, w \in Workers : v # w => ToSet(jobs[v]) \intersect ToSet(jobs[w]) = {}

HandsApart ==
  /\ \A v, w \in Workers : v # w /\ cur[v].task = cur[w].task => cur[v].task = 0
  /\ InHand \intersect Queued = {}

HandlersApart ==
  \A h \in Handlers :
    handler[h].op = "enqueue" =>
      /\ handler[h].task \notin InHand \union Queued
      /\ \A g \in Handlers :
           g # h /\ handler[g].op = "enqueue" => handler[g].task # handler[h].task

Placed == QueueDistinct /\ QueuesApart /\ HandsApart /\ HandlersApart

\* The contexts that exist, or have been cancelled, and the history of removals are
\* about tasks in hand; a lane that two workers have in hand is known to be split.
AboutHands ==
  /\ ctxDone \subseteq InHand /\ removed \subseteq InHand
  /\ \A l \in Lanes : running[l] # 0 => running[l] \in InHand /\ Lane(running[l]) = l

SplitTold ==
  \A v, w \in Workers :
    v # w /\ cur[v] # Free /\ cur[w] # Free /\ Lane(cur[v].task) = Lane(cur[w].task)
      => Lane(cur[v].task) \in split

\* The mark of a removal: its lane has nothing queued, and a task that was taken
\* before it is one of the removed.
Marked ==
  /\ \A n \in Queued : Lane(n) \notin cancelled
  /\ \A w \in Workers :
       At(w, {"taken"}) /\ Lane(cur[w].task) \in cancelled
         => cur[w].task \in removed \/ Lane(cur[w].task) \in split

\* The processor can cancel a task whose context it has made, unless it has done so.
RunningKnown ==
  \A w \in Workers :
    At(w, {"begun", "running"}) =>
      \/ cur[w].task \in ctxDone
      \/ running[Lane(cur[w].task)] = cur[w].task
      \/ Lane(cur[w].task) \in split

Alive ==
  \A w \in Workers :
    LET n == cur[w].task
    IN At(w, {"taken", "begun", "running"}) /\ n \notin removed /\ Lane(n) \notin split
         => n \notin ctxDone

\* A removed task that has not started finds its packet forgotten.
WillStop ==
  \A w \in Workers :
    LET n == cur[w].task
    IN At(w, {"taken", "begun", "running"}) /\ n \in removed /\ Lane(n) \notin split
         => \/ n \in ctxDone \/ Redispatched(n) \/ pkt[n] \in overtaken
            \/ pkt[n] \notin tracked /\ ~ At(w, {"running"})

Contexts == AboutHands /\ SplitTold /\ Marked /\ RunningKnown /\ Alive /\ WillStop

IInv == TypeOK /\ Placed /\ SessionPendingExact /\ NoneStranded /\ Contexts

-----------------------------------------------------------------------------
(* Facts about the operators of the module.                                  *)

Less == {p \in Nat \X Nat : p[1] < p[2]}

\* Induction over the numbers, for a set of them.
LEMMA SetInduction ==
  ASSUME NEW S, 0 \in S, \A n \in Nat : n \in S => n + 1 \in S
  PROVE  Nat \subseteq S
<1> SUFFICES ASSUME Nat \ S # {} PROVE FALSE
  OBVIOUS
<1>1. IsWellFoundedOn(Less, Nat)
  BY NatLessThanWellFounded, Zenon DEF OpToRel, Less
<1> DEFINE T == Nat \ S
<1>2. T \subseteq Nat /\ T # {}
  OBVIOUS
<1> HIDE DEF T
<1>3. PICK x \in T : \A y \in T : ~ (<<y, x>> \in Less)
  BY <1>1, <1>2, WFMin
<1>4. x \in Nat /\ x # 0 /\ x \notin S
  BY <1>3 DEF T
<1>5. x - 1 \in Nat /\ x - 1 < x /\ x = (x - 1) + 1
  BY <1>4
<1>6. x - 1 \notin S
  BY <1>4, <1>5
<1>7. <<x - 1, x>> \in Less
  BY <1>4, <1>5 DEF Less
<1> QED
  BY <1>3, <1>5, <1>6, <1>7 DEF T

\* What a queue holds after a push, and after a worker has taken its first task.
LEMMA AppendFacts ==
  ASSUME NEW T, NEW s \in Seq(T), NEW x \in T
  PROVE  /\ Append(s, x) \in Seq(T)
         /\ ToSet(Append(s, x)) = ToSet(s) \union {x}
         /\ Distinct(s) /\ x \notin ToSet(s) => Distinct(Append(s, x))
<1>1. Len(s) \in Nat /\ DOMAIN s = 1 .. Len(s) /\ Append(s, x) \in Seq(T)
  OBVIOUS
<1>2. /\ DOMAIN Append(s, x) = 1 .. (Len(s) + 1)
      /\ Append(s, x)[Len(s) + 1] = x
      /\ \A i \in 1 .. Len(s) : Append(s, x)[i] = s[i]
  BY <1>1
<1>3. 1 .. (Len(s) + 1) = (1 .. Len(s)) \union {Len(s) + 1}
  BY <1>1
<1>4. ToSet(Append(s, x)) = ToSet(s) \union {x}
  BY <1>1, <1>2, <1>3 DEF ToSet
<1>5. ASSUME Distinct(s), x \notin ToSet(s) PROVE Distinct(Append(s, x))
  BY <1>1, <1>2, <1>3, <1>5 DEF ToSet, Distinct
<1> QED
  BY <1>1, <1>4, <1>5

LEMMA HeadTailFacts ==
  ASSUME NEW T, NEW s \in Seq(T), s # <<>>, Distinct(s)
  PROVE  /\ Head(s) \in ToSet(s) /\ Head(s) \in T /\ Tail(s) \in Seq(T)
         /\ ToSet(Tail(s)) = ToSet(s) \ {Head(s)}
         /\ Distinct(Tail(s))
<1>1. Len(s) \in Nat /\ Len(s) # 0 /\ DOMAIN s = 1 .. Len(s)
  OBVIOUS
<1>2. /\ Head(s) = s[1] /\ Tail(s) \in Seq(T) /\ DOMAIN Tail(s) = 1 .. (Len(s) - 1)
      /\ \A i \in 1 .. (Len(s) - 1) : Tail(s)[i] = s[i + 1]
  BY <1>1
<1>3. 1 \in DOMAIN s /\ Head(s) \in T /\ Head(s) \in ToSet(s)
  BY <1>1, <1>2 DEF ToSet
<1>4. Distinct(Tail(s))
  BY <1>1, <1>2 DEF Distinct
<1>5. ToSet(Tail(s)) \subseteq ToSet(s) \ {Head(s)}
  BY <1>1, <1>2 DEF ToSet, Distinct
<1>6. ASSUME NEW i \in DOMAIN s, s[i] # Head(s) PROVE s[i] \in ToSet(Tail(s))
  <2>1. i - 1 \in 1 .. (Len(s) - 1) /\ (i - 1) + 1 = i
    BY <1>1, <1>2, <1>6
  <2>2. Tail(s)[i - 1] = s[i]
    BY <2>1, <1>2
  <2> QED
    BY <2>1, <2>2, <1>2 DEF ToSet
<1>7. ToSet(s) \ {Head(s)} \subseteq ToSet(Tail(s))
  BY <1>6 DEF ToSet
<1> QED
  BY <1>2, <1>3, <1>4, <1>5, <1>7

\* The equations of the recursive function in Without.
Keeps(k, s, D, m) ==
  k = [i \in 0 .. m |->
         IF i = 0 THEN <<>> ELSE IF s[i] \in D THEN k[i - 1] ELSE Append(k[i - 1], s[i])]

LEMMA KeepsExists ==
  ASSUME NEW T, NEW s \in Seq(T), NEW D
  PROVE  \A m \in Nat : m <= Len(s) => \E k : Keeps(k, s, D, m)
<1> DEFINE S == {m \in Nat : m <= Len(s) => \E k : Keeps(k, s, D, m)}
<1>1. 0 \in S
  <2>1. 0 .. 0 = {0}
    OBVIOUS
  <2> DEFINE k == [i \in 0 .. 0 |-> <<>>]
  <2>2. Keeps(k, s, D, 0)
    BY <2>1 DEF Keeps
  <2> QED
    BY <2>2
<1>2. ASSUME NEW m \in Nat, m \in S, m + 1 <= Len(s) PROVE \E k : Keeps(k, s, D, m + 1)
  <2>1. PICK f : Keeps(f, s, D, m)
    BY <1>2
  <2> DEFINE x == IF s[m + 1] \in D THEN f[m] ELSE Append(f[m], s[m + 1])
             g == [i \in 0 .. (m + 1) |-> IF i = m + 1 THEN x ELSE f[i]]
  <2>2. \A i \in 0 .. m : i \in 0 .. (m + 1) /\ i # m + 1 /\ g[i] = f[i]
    OBVIOUS
  <2>3. g[m + 1] = x
    OBVIOUS
  <2>4. \A i \in 0 .. (m + 1) : i # 0 => i - 1 \in 0 .. m /\ g[i - 1] = f[i - 1]
    BY <2>2
  <2>5. \A i \in 0 .. (m + 1) : i = m + 1 \/ i \in 0 .. m
    OBVIOUS
  <2>6. \A i \in 0 .. m :
          f[i] = IF i = 0 THEN <<>> ELSE IF s[i] \in D THEN f[i - 1] ELSE Append(f[i - 1], s[i])
    BY <2>1 DEF Keeps
  <2>7. (m + 1) - 1 = m /\ m + 1 # 0 /\ m + 1 \in 0 .. (m + 1)
    OBVIOUS
  <2>8. DOMAIN g = 0 .. (m + 1)
    OBVIOUS
  <2>a. g = [i \in 0 .. (m + 1) |-> g[i]]
    OBVIOUS
  <2>b. x = IF s[m + 1] \in D THEN f[m] ELSE Append(f[m], s[m + 1])
    OBVIOUS
  <2> HIDE DEF g, x
  <2>9. \A i \in 0 .. (m + 1) :
          g[i] = IF i = 0 THEN <<>> ELSE IF s[i] \in D THEN g[i - 1] ELSE Append(g[i - 1], s[i])
    <3> TAKE i \in 0 .. (m + 1)
    <3>1. CASE i = m + 1
      <4>1. g[i - 1] = f[m]
        BY <3>1, <2>4, <2>7
      <4> QED
        BY <3>1, <4>1, <2>3, <2>7, <2>b
    <3>2. CASE i \in 0 .. m
      <4>1. g[i] = f[i] /\ (i # 0 => g[i - 1] = f[i - 1])
        BY <3>2, <2>2, <2>4
      <4> QED
        BY <3>2, <4>1, <2>6
    <3> QED
      BY <3>1, <3>2, <2>5
  <2> QED
    BY <2>9, <2>a DEF Keeps
<1>3. \A m \in Nat : m \in S => m + 1 \in S
  <2> TAKE m \in Nat
  <2> HAVE m \in S
  <2>1. m + 1 \in Nat
    OBVIOUS
  <2> QED
    BY <1>2, <2>1
<1>4. Nat \subseteq S
  <2> HIDE DEF S
  <2> QED
    BY <1>1, <1>3, SetInduction
<1> QED
  BY <1>4

\* What Without returns: the elements that are not in D, each as often as before.
LEMMA WithoutFacts ==
  ASSUME NEW T, NEW s \in Seq(T), NEW D
  PROVE  /\ Without(s, D) \in Seq(T)
         /\ ToSet(Without(s, D)) = ToSet(s) \ D
         /\ Distinct(s) => Distinct(Without(s, D))
<1>1. Len(s) \in Nat /\ DOMAIN s = 1 .. Len(s)
  OBVIOUS
<1> DEFINE kept == CHOOSE k : Keeps(k, s, D, Len(s))
<1>2. Keeps(kept, s, D, Len(s))
  BY <1>1, KeepsExists
<1>3. Without(s, D) = kept[Len(s)]
  BY Zenon DEF Without, Keeps
<1>4. \A i \in 0 .. Len(s) :
        kept[i] = IF i = 0 THEN <<>>
                  ELSE IF s[i] \in D THEN kept[i - 1] ELSE Append(kept[i - 1], s[i])
  BY <1>2 DEF Keeps
<1> HIDE DEF kept
<1> DEFINE Good(m) == /\ kept[m] \in Seq(T)
                      /\ ToSet(kept[m]) = {s[j] : j \in 1 .. m} \ D
                      /\ Distinct(s) => Distinct(kept[m])
           S == {m \in Nat : m <= Len(s) => Good(m)}
<1>5. Good(0)
  <2>1. kept[0] = <<>>
    BY <1>1, <1>4
  <2> QED
    BY <2>1 DEF ToSet, Distinct
<1>6. ASSUME NEW m \in Nat, Good(m), m + 1 <= Len(s) PROVE Good(m + 1)
  <2>1. m + 1 \in 0 .. Len(s) /\ m + 1 # 0 /\ (m + 1) - 1 = m /\ m + 1 \in DOMAIN s
    BY <1>1, <1>6
  <2>2. {s[j] : j \in 1 .. (m + 1)} = {s[j] : j \in 1 .. m} \union {s[m + 1]}
    <3>1. 1 .. (m + 1) = (1 .. m) \union {m + 1}
      OBVIOUS
    <3> QED
      BY <3>1
  <2>3. CASE s[m + 1] \in D
    <3>1. kept[m + 1] = kept[m]
      BY <2>1, <2>3, <1>4
    <3> QED
      BY <3>1, <2>2, <2>3, <1>6
  <2>4. CASE s[m + 1] \notin D
    <3> DEFINE k == kept[m]
               x == s[m + 1]
    <3>1. kept[m + 1] = Append(k, x)
      BY <2>1, <2>4, <1>4
    <3>2. k \in Seq(T) /\ x \in T /\ ToSet(k) = {s[j] : j \in 1 .. m} \ D
      BY <1>6, <2>1
    <3>3. (Distinct(s) => x \notin ToSet(k)) /\ (Distinct(s) => Distinct(k))
      <4>1. ASSUME Distinct(s) PROVE x \notin {s[j] : j \in 1 .. m}
        BY <4>1, <2>1, <1>1 DEF Distinct
      <4> QED
        BY <4>1, <3>2, <1>6
    <3>4. x \notin D
      BY <2>4
    <3> HIDE DEF k, x
    <3>5. /\ Append(k, x) \in Seq(T) /\ ToSet(Append(k, x)) = ToSet(k) \union {x}
          /\ Distinct(s) => Distinct(Append(k, x))
      BY <3>2, <3>3, AppendFacts
    <3> QED
      BY <3>1, <3>2, <3>4, <3>5, <2>2 DEF x
  <2> QED
    BY <2>3, <2>4
<1>7. 0 \in S
  BY <1>5
<1>8. \A m \in Nat : m \in S => m + 1 \in S
  <2> TAKE m \in Nat
  <2> HAVE m \in S
  <2>1. m + 1 \in Nat /\ (m + 1 <= Len(s) => m <= Len(s))
    BY <1>1
  <2>2. m + 1 <= Len(s) => Good(m)
    BY <2>1
  <2> HIDE DEF Good
  <2> QED
    BY <1>6, <2>1, <2>2
<1>9. Nat \subseteq S
  <2> HIDE DEF S
  <2> QED
    BY <1>7, <1>8, SetInduction
<1>10. Good(Len(s))
  <2> HIDE DEF Good
  <2> QED
    BY <1>9, <1>1
<1>11. ToSet(s) = {s[j] : j \in 1 .. Len(s)}
  BY <1>1 DEF ToSet
<1> QED
  BY <1>3, <1>10, <1>11

\* A set with two elements counts more than one.
LEMMA TwoElements ==
  ASSUME NEW S, IsFiniteSet(S), NEW a \in S, NEW b \in S, a # b
  PROVE  Cardinality(S) > 1
<1>1. IsFiniteSet({a}) /\ Cardinality({a}) = 1
  BY FS_Singleton
<1>2. Cardinality({a} \union {b}) = 2
  BY <1>1, FS_AddElement
<1> DEFINE T == {a} \union {b}
<1>3. T \in SUBSET S
  OBVIOUS
<1>4. Cardinality(T) = 2
  BY <1>2
<1> HIDE DEF T
<1>5. Cardinality(T) <= Cardinality(S)
  BY <1>3, FS_Subset
<1>6. Cardinality(S) \in Nat
  BY FS_CardinalityType
<1> QED
  BY <1>4, <1>5, <1>6

\* What the types say of tasks, queues and hands.
LEMMA TaskFacts ==
  ASSUME TypeOK
  PROVE  /\ Len(pkt) \in Nat /\ TaskIds = 1 .. Len(pkt) /\ 0 \notin TaskIds
         /\ \A n \in TaskIds : pkt[n] \in Packets /\ Lane(n) \in Lanes /\ Session(n) \in Sessions
         /\ \A w \in Workers : jobs[w] \in Seq(TaskIds) /\ ToSet(jobs[w]) \subseteq TaskIds
         /\ Queued \subseteq TaskIds /\ InHand \subseteq TaskIds
         /\ IsFiniteSet(InHand \union Queued)
<1>1. Len(pkt) \in Nat /\ TaskIds = 1 .. Len(pkt) /\ \A n \in TaskIds : pkt[n] \in Packets
  BY DEF TypeOK, TaskIds
<1>2. 0 \notin TaskIds
  BY <1>1
<1>3. \A n \in TaskIds : Lane(n) \in Lanes /\ Session(n) \in Sessions
  BY <1>1, DeferredAssumption DEF Lane, Session
<1>4. \A w \in Workers : jobs[w] \in Seq(TaskIds)
  BY DEF TypeOK
<1>5. \A w \in Workers : ToSet(jobs[w]) \subseteq TaskIds
  BY <1>4 DEF ToSet
<1>6. Queued \subseteq TaskIds
  BY <1>5 DEF Queued
<1>7. \A w \in Workers : cur[w] \in Hands
  BY DEF TypeOK
<1>8. InHand \subseteq TaskIds
  BY <1>7 DEF InHand, TasksIn, Hands, Free
<1>9. IsFiniteSet(TaskIds)
  BY <1>1, FS_Interval
<1> DEFINE W == InHand \union Queued
<1>10. W \in SUBSET TaskIds
  BY <1>6, <1>8
<1> HIDE DEF W
<1>11. IsFiniteSet(W)
  BY <1>9, <1>10, FS_Subset
<1> QED
  BY <1>1, <1>2, <1>3, <1>4, <1>5, <1>6, <1>8, <1>11 DEF W

LEMMA HandFacts ==
  ASSUME TypeOK
  PROVE  \A w \in Workers :
           /\ cur[w] = Free => cur[w].task = 0 /\ cur[w].phase = "idle"
           /\ cur[w] # Free => /\ cur[w].task \in TaskIds /\ cur[w].task \in InHand
                               /\ cur[w].phase \in Phases /\ cur[w].task # 0
<1> SUFFICES ASSUME NEW w \in Workers
             PROVE  /\ cur[w] = Free => cur[w].task = 0 /\ cur[w].phase = "idle"
                    /\ cur[w] # Free => /\ cur[w].task \in TaskIds /\ cur[w].task \in InHand
                                        /\ cur[w].phase \in Phases /\ cur[w].task # 0
  OBVIOUS
<1>1. cur[w] \in Hands
  BY DEF TypeOK
<1>2. 0 \notin TaskIds
  BY TaskFacts
<1>3. cur[w] = Free => cur[w].task = 0 /\ cur[w].phase = "idle"
  BY DEF Free
<1>4. cur[w] # Free => cur[w].task \in TaskIds /\ cur[w].phase \in Phases
  BY <1>1 DEF Hands
<1> QED
  BY <1>2, <1>3, <1>4 DEF InHand, TasksIn

LEMMA HandlerFacts ==
  ASSUME TypeOK
  PROVE  \A h \in Handlers :
           /\ handler[h].op \in {"enqueue", "refused"} =>
                handler[h].task \in TaskIds
                  /\ handler[h] = [op |-> handler[h].op, task |-> handler[h].task]
           /\ handler[h].op = "removeLane" => handler[h].lane \in Lanes
           /\ handler[h].op = "removeSession" => handler[h].session \in Sessions
<1> TAKE h \in Handlers
<1>1. handler[h] \in HandlerStates
  BY DEF TypeOK
<1>2. CASE handler[h] = Idle
  BY <1>2 DEF Idle
<1>3. CASE handler[h] \in [op : {"enqueue", "refused"}, task : TaskIds]
  BY <1>3
<1>4. CASE handler[h] \in [op : {"removeLane"}, lane : Lanes]
  BY <1>4
<1>5. CASE handler[h] \in [op : {"removeSession"}, session : Sessions]
  BY <1>5
<1> QED
  BY <1>1, <1>2, <1>3, <1>4, <1>5 DEF HandlerStates

\* A task in hand is in some worker's hand.
LEMMA HolderOf ==
  ASSUME TypeOK, NEW n \in InHand
  PROVE  \E w \in Workers : cur[w] # Free /\ cur[w].task = n
<1>1. PICK w \in Workers : cur[w].task = n /\ n # 0
  BY DEF InHand, TasksIn
<1> QED
  BY <1>1, HandFacts

\* A worker that goes on to another phase keeps its task.
LEMMA GotoFacts ==
  ASSUME TypeOK, NEW w \in Workers, cur[w] # Free, NEW ph \in Phases
  PROVE  LET hands == Goto(w, ph)
         IN /\ hands \in [Workers -> Hands]
            /\ \A v \in Workers : hands[v].task = cur[v].task /\ (hands[v] = Free <=> cur[v] = Free)
            /\ \A v \in Workers : v # w => hands[v] = cur[v]
            /\ hands[w] # Free /\ hands[w].phase = ph
            /\ TasksIn(hands) = InHand
<1> DEFINE hands == Goto(w, ph)
<1>1. cur \in [Workers -> Hands] /\ cur[w] \in [task : TaskIds, phase : Phases]
  BY DEF TypeOK, Hands
<1>2. "idle" \notin Phases
  BY DEF Phases
<1> DEFINE r == [cur[w] EXCEPT !.phase = ph]
<1>3. hands = [v \in Workers |-> IF v = w THEN r ELSE cur[v]]
  BY <1>1 DEF Goto
<1>4. r \in [task : TaskIds, phase : Phases] /\ r.task = cur[w].task /\ r.phase = ph
  BY <1>1
<1>5. r # Free /\ r \in Hands
  BY <1>2, <1>4 DEF Free, Hands
<1> HIDE DEF r, hands
<1>6. \A v \in Workers : v # w => hands[v] = cur[v]
  BY <1>3
<1>7. hands[w] = r
  BY <1>3
<1>8. \A v \in Workers : hands[v].task = cur[v].task /\ (hands[v] = Free <=> cur[v] = Free)
  BY <1>4, <1>5, <1>6, <1>7
<1>9. hands \in [Workers -> Hands]
  BY <1>1, <1>3, <1>5
<1>10. TasksIn(hands) = InHand
  BY <1>8 DEF TasksIn, InHand
<1> QED
  BY <1>4, <1>5, <1>6, <1>7, <1>8, <1>9, <1>10 DEF hands

-----------------------------------------------------------------------------
(* What a step that does not move tasks leaves true.                         *)

\* The count stays exact while the tasks that are queued or in hand are the same.
LEMMA SameCount ==
  ASSUME TypeOK, SessionPendingExact, sessionPending' = sessionPending,
         \A n \in TaskIds : pkt'[n] = pkt[n],
         (InHand \union Queued)' = InHand \union Queued
  PROVE  SessionPendingExact'
<1> SUFFICES ASSUME NEW s \in Sessions
             PROVE  sessionPending'[s] =
                      Cardinality({n \in (InHand \union Queued)' : Session(n)' = s})
  BY DEF SessionPendingExact, InHand
<1>1. InHand \union Queued \subseteq TaskIds
  BY TaskFacts
<1>2. {n \in (InHand \union Queued)' : Session(n)' = s} = {n \in InHand \union Queued : Session(n) = s}
  BY <1>1 DEF Session, Lane
<1> QED
  BY <1>2 DEF SessionPendingExact, InHand

\* Tasks stay in one place while neither queues nor hands nor the tasks about to be
\* queued change.
LEMMA SamePlaces ==
  ASSUME TypeOK, Placed, jobs' = jobs,
         \A w \in Workers : cur'[w].task = cur[w].task,
         \A h \in Handlers : handler'[h].op = "enqueue" => handler'[h] = handler[h]
  PROVE  Placed' /\ InHand' = InHand /\ Queued' = Queued
<1>1. InHand' = InHand /\ Queued' = Queued
  BY DEF InHand, TasksIn, Queued
<1>2. QueueDistinct' /\ QueuesApart'
  BY DEF Placed, QueueDistinct, QueuesApart
<1>3. HandsApart'
  BY <1>1 DEF Placed, HandsApart
<1>4. HandlersApart'
  BY <1>1 DEF Placed, HandlersApart
<1> QED
  BY <1>1, <1>2, <1>3, <1>4 DEF Placed

\* What a removal, or the end of a refused task, does to the packets that are tracked.
LEMMA TrackedShrinks ==
  ASSUME TypeOK, Contexts, tracked' \subseteq tracked,
         UNCHANGED <<jobs, cur, processor, pkt, ctxDone, history>>
  PROVE  Contexts'
<1>1. AboutHands' /\ SplitTold' /\ Marked' /\ RunningKnown' /\ Alive'
  BY DEF Contexts, AboutHands, SplitTold, Marked, RunningKnown, Alive, InHand, TasksIn, Queued,
         At, Lane, processor, history
<1>2. WillStop'
  BY DEF Contexts, WillStop, At, Lane, Redispatched, processor, history
<1> QED
  BY <1>1, <1>2 DEF Contexts

LEMMA InitIInv == Init => IInv
<1> SUFFICES ASSUME Init PROVE IInv
  OBVIOUS
<1>1. InHand = {} /\ Queued = {} /\ TaskIds = {}
  BY DEF Init, InHand, TasksIn, Queued, ToSet, TaskIds, Free
<1>2. \A w \in Workers : cur[w] = Free /\ cur[w].task = 0 /\ cur[w].phase = "idle" /\ jobs[w] = <<>>
  BY DEF Init, Free
<1>3. \A h \in Handlers : handler[h] = Idle /\ handler[h].op = "idle"
  BY DEF Init, Idle
<1>4. TypeOK
  <2>1. pkt \in Seq(Packets) /\ tracked \subseteq Packets /\ cancelled \subseteq Lanes
    BY DEF Init
  <2>2. handler \in [Handlers -> HandlerStates] /\ cur \in [Workers -> Hands]
    BY DEF Init, HandlerStates, Hands
  <2>3. jobs \in [Workers -> Seq(TaskIds)] /\ laneWorker \in [Lanes -> Workers \union {None}]
    BY DEF Init
  <2>4. running \in [Lanes -> TaskIds \union {0}] /\ sessionPending \in [Sessions -> Nat]
    BY DEF Init
  <2> QED
    BY <2>1, <2>2, <2>3, <2>4 DEF TypeOK
<1>5. Placed
  BY <1>1, <1>2, <1>3 DEF Placed, QueueDistinct, Distinct, QueuesApart, HandsApart, HandlersApart, ToSet
<1>6. SessionPendingExact
  <2> SUFFICES ASSUME NEW s \in Sessions
               PROVE  sessionPending[s] = Cardinality({n \in InHand \union Queued : Session(n) = s})
    BY DEF SessionPendingExact, InHand
  <2>1. {n \in InHand \union Queued : Session(n) = s} = {}
    BY <1>1
  <2> QED
    BY <2>1, FS_EmptySet DEF Init
<1>7. NoneStranded
  BY DEF Init, NoneStranded
<1>8. Contexts
  BY <1>1, <1>2 DEF Init, Contexts, AboutHands, SplitTold, Marked, RunningKnown, Alive, WillStop, At
<1> QED
  BY <1>4, <1>5, <1>6, <1>7, <1>8 DEF IInv

-----------------------------------------------------------------------------
(* The steps of the goroutines that dispatch and remove.                     *)

LEMMA StartRemovalStep ==
  ASSUME IInv, NEW h \in Handlers, NEW r \in HandlerStates, handler[h] = Idle,
         r.op \in {"removeLane", "removeSession"}, tracked' \subseteq tracked,
         handler' = [handler EXCEPT ![h] = r],
         UNCHANGED <<jobs, cur, processor, pkt, ctxDone, history>>
  PROVE  IInv'
<1> USE DEF IInv
<1>1. TypeOK'
  BY DEF TypeOK, TaskIds, Hands, HandlerStates, processor
<1>2. \A g \in Handlers : handler'[g] = IF g = h THEN r ELSE handler[g]
  BY DEF TypeOK
<1>3. Placed' /\ InHand' = InHand /\ Queued' = Queued
  BY <1>2, SamePlaces
<1>4. SessionPendingExact'
  BY <1>3, SameCount DEF processor
<1>5. NoneStranded'
  <2>1. handler[h].op = "idle"
    BY DEF Idle
  <2>2. \A g \in Handlers : handler[g].op \in {"enqueue", "refused"} => handler'[g] = handler[g]
    BY <2>1, <1>2
  <2> QED
    BY <2>2, <1>3 DEF NoneStranded, At, history
<1>6. Contexts'
  BY TrackedShrinks
<1> QED
  BY <1>1, <1>3, <1>4, <1>5, <1>6

LEMMA FinishRefusedStep ==
  ASSUME IInv, NEW h \in Handlers, FinishRefused(h)
  PROVE  IInv'
<1> USE DEF IInv
<1>1. UNCHANGED <<jobs, cur, processor, pkt, ctxDone, history>> /\ tracked' \subseteq tracked
  BY DEF FinishRefused
<1>2. handler' = [handler EXCEPT ![h] = Idle] /\ handler[h].op = "refused"
  BY DEF FinishRefused
<1>3. TypeOK'
  BY <1>1, <1>2 DEF TypeOK, TaskIds, Hands, HandlerStates, processor
<1>4. \A g \in Handlers : handler'[g] = IF g = h THEN Idle ELSE handler[g]
  BY <1>2 DEF TypeOK
<1>5. Placed' /\ InHand' = InHand /\ Queued' = Queued
  <2>1. Idle.op # "enqueue"
    BY DEF Idle
  <2> QED
    BY <2>1, <1>1, <1>4, SamePlaces
<1>6. SessionPendingExact'
  BY <1>1, <1>5, SameCount DEF processor
<1>7. NoneStranded'
  <2>1. \A p \in tracked' : p \in tracked /\ p # pkt[handler[h].task]
    BY DEF FinishRefused
  <2> QED
    BY <2>1, <1>1, <1>4, <1>5 DEF NoneStranded, At, history
<1>8. Contexts'
  BY <1>1, TrackedShrinks
<1> QED
  BY <1>3, <1>5, <1>6, <1>7, <1>8

\* A new task is numbered after the others, and is with its dispatcher.
LEMMA TryBeginStep ==
  ASSUME IInv, NEW h \in Handlers, NEW p \in Packets, TryBeginDeferredPacket(h, p)
  PROVE  IInv'
<1> USE DEF IInv
<1> DEFINE n == Len(pkt) + 1
           r == [op |-> "enqueue", task |-> n]
<1>1. /\ UNCHANGED <<jobs, cur, processor, ctxDone, history>>
      /\ handler[h] = Idle /\ p \notin tracked /\ tracked' = tracked \union {p}
      /\ pkt' = Append(pkt, p) /\ handler' = [handler EXCEPT ![h] = r]
  BY DEF TryBeginDeferredPacket
<1>2. /\ Len(pkt) \in Nat /\ TaskIds = 1 .. Len(pkt) /\ n \notin TaskIds
      /\ \A m \in TaskIds : pkt'[m] = pkt[m] /\ m < n
      /\ pkt' \in Seq(Packets) /\ TaskIds' = 1 .. n /\ pkt'[n] = p /\ n \in TaskIds'
      /\ TaskIds \subseteq TaskIds'
  <2>1. Len(pkt) \in Nat /\ TaskIds = 1 .. Len(pkt) /\ pkt \in Seq(Packets)
    BY TaskFacts DEF TypeOK
  <2>2. /\ pkt' \in Seq(Packets) /\ Len(pkt') = n /\ pkt'[n] = p
        /\ \A m \in 1 .. Len(pkt) : pkt'[m] = pkt[m]
    BY <2>1, <1>1
  <2>3. TaskIds' = 1 .. n
    BY <2>2 DEF TaskIds
  <2> QED
    BY <2>1, <2>2, <2>3
<1>3. \A g \in Handlers : handler'[g] = IF g = h THEN r ELSE handler[g]
  BY <1>1 DEF TypeOK
<1>4. r.op = "enqueue" /\ r.task = n /\ r \in HandlerStates'
  BY <1>2 DEF HandlerStates
<1> HIDE DEF n, r
<1>5. TypeOK'
  <2>1. tracked' \subseteq Packets /\ pkt' \in Seq(Packets)
    BY <1>1, <1>2 DEF TypeOK
  <2>2. \A g \in Handlers : handler[g] \in HandlerStates'
    BY <1>2 DEF TypeOK, HandlerStates
  <2>3. handler' \in [Handlers -> HandlerStates']
    BY <2>2, <1>1, <1>4 DEF TypeOK
  <2>4. \A w \in Workers : jobs[w] \in Seq(TaskIds')
    <3> TAKE w \in Workers
    <3>1. jobs[w] \in Seq(TaskIds)
      BY DEF TypeOK
    <3> QED
      BY <3>1, <1>2
  <2>5. jobs' \in [Workers -> Seq(TaskIds')]
    BY <2>4, <1>1 DEF TypeOK
  <2>6. Hands \subseteq Hands'
    BY <1>2 DEF Hands
  <2>7. cur' \in [Workers -> Hands']
    BY <2>6, <1>1 DEF TypeOK
  <2>8. /\ laneWorker' \in [Lanes -> Workers \union {None}] /\ cancelled' \subseteq Lanes
        /\ sessionPending' \in [Sessions -> Nat]
    BY <1>1 DEF TypeOK, processor
  <2>9. running' \in [Lanes -> TaskIds' \union {0}]
    BY <1>1, <1>2 DEF TypeOK, processor
  <2> QED
    BY <2>1, <2>3, <2>5, <2>7, <2>8, <2>9 DEF TypeOK
<1>6. InHand' = InHand /\ Queued' = Queued
  BY <1>1 DEF InHand, TasksIn, Queued
<1>7. n \notin InHand \union Queued
  BY <1>2, TaskFacts
<1>8. \A g \in Handlers : handler[g].op = "enqueue" => handler[g].task \in TaskIds
  BY HandlerFacts
<1>9. Placed'
  <2>1. QueueDistinct' /\ QueuesApart' /\ HandsApart'
    BY <1>1, <1>6 DEF Placed, QueueDistinct, QueuesApart, HandsApart
  <2>2. HandlersApart'
    BY <1>2, <1>3, <1>4, <1>6, <1>7, <1>8 DEF Placed, HandlersApart
  <2> QED
    BY <2>1, <2>2 DEF Placed
<1>10. SessionPendingExact'
  BY <1>1, <1>2, <1>6, SameCount DEF processor
<1>11. Queued \subseteq TaskIds /\ InHand \subseteq TaskIds
  BY TaskFacts
<1>12. \A w \in Workers : cur[w] # Free => cur[w].task \in TaskIds
  BY HandFacts
<1>13. NoneStranded'
  <2> SUFFICES ASSUME NEW q \in tracked' \ overtaken'
               PROVE  \/ \E m \in Queued : pkt'[m] = q
                      \/ \E w \in Workers : cur[w] # Free /\ ~ At(w, {"ending"}) /\ pkt'[cur[w].task] = q
                      \/ \E g \in Handlers : handler'[g].op \in {"enqueue", "refused"} /\ pkt'[handler'[g].task] = q
    BY <1>1, <1>6 DEF NoneStranded, At
  <2>1. CASE q = p
    BY <2>1, <1>2, <1>3, <1>4
  <2>2. CASE q # p
    <3>1. q \in tracked \ overtaken
      BY <2>2, <1>1 DEF history
    <3>2. CASE \E m \in Queued : pkt[m] = q
      BY <3>2, <1>2, <1>11
    <3>3. CASE \E w \in Workers : cur[w] # Free /\ ~ At(w, {"ending"}) /\ pkt[cur[w].task] = q
      BY <3>3, <1>2, <1>12
    <3>4. CASE \E g \in Handlers : handler[g].op \in {"enqueue", "refused"} /\ pkt[handler[g].task] = q
      <4>1. PICK g \in Handlers : handler[g].op \in {"enqueue", "refused"} /\ pkt[handler[g].task] = q
        BY <3>4
      <4>2. handler[g].task \in TaskIds
        BY <4>1, HandlerFacts
      <4>3. g # h
        BY <4>1, <1>1 DEF Idle
      <4> QED
        BY <4>1, <4>2, <4>3, <1>2, <1>3
    <3> QED
      BY <3>1, <3>2, <3>3, <3>4 DEF NoneStranded
  <2> QED
    BY <2>1, <2>2
<1>14. \A m \in TaskIds : Lane(m)' = Lane(m)
  BY <1>2 DEF Lane
<1>15. Contexts'
  <2>1. \A w \in Workers : cur'[w] = cur[w]
    BY <1>1
  <2>2. AboutHands'
    BY <1>1, <1>2, <1>6, <1>11 DEF Contexts, AboutHands, processor, history, Lane
  <2>3. SplitTold'
    BY <2>1, <1>1, <1>2, <1>12 DEF Contexts, SplitTold, history, Lane
  <2>4. ASSUME NEW w \in Workers, cur[w].phase \in {"taken", "begun", "running"}
        PROVE  cur[w] # Free /\ cur[w].task \in TaskIds
    BY <2>4, HandFacts
  <2>5. Marked'
    <3>1. \A m \in Queued : Lane(m)' \notin cancelled
      BY <1>11, <1>14 DEF Contexts, Marked
    <3> QED
      BY <3>1, <1>1, <1>2, <1>6, <2>1, <2>4 DEF Contexts, Marked, At, Lane, processor, history
  <2>6. RunningKnown'
    BY <1>1, <1>2, <2>1, <2>4 DEF Contexts, RunningKnown, At, Lane, processor, history
  <2>7. Alive'
    BY <1>1, <1>2, <2>1, <2>4 DEF Contexts, Alive, At, Lane, processor, history
  <2>8. WillStop'
    <3> SUFFICES ASSUME NEW w \in Workers, cur[w].phase \in {"taken", "begun", "running"},
                        cur[w].task \in removed, Lane(cur[w].task) \notin split
                 PROVE  \/ cur[w].task \in ctxDone \/ Redispatched(cur[w].task)'
                        \/ pkt[cur[w].task] \in overtaken
                        \/ pkt[cur[w].task] \notin tracked' /\ ~ At(w, {"running"})
      BY <1>1, <1>2, <2>4 DEF WillStop, At, Lane, Redispatched, processor, history
    <3>1. cur[w].task \in TaskIds
      BY <2>4
    <3>2. Redispatched(cur[w].task) => Redispatched(cur[w].task)'
      BY <3>1, <1>1, <1>2 DEF Redispatched, TaskIds
    <3>3. pkt[cur[w].task] = p => Redispatched(cur[w].task)'
      BY <3>1, <1>1, <1>2 DEF Redispatched, TaskIds
    <3> QED
      BY <3>1, <3>2, <3>3, <1>1 DEF Contexts, WillStop, At
  <2> QED
    BY <2>2, <2>3, <2>5, <2>6, <2>7, <2>8 DEF Contexts
<1> QED
  BY <1>5, <1>9, <1>10, <1>13, <1>15

\* Enqueue leaves the hands alone; a lane whose mark goes has no use for it.
LEMMA UnmarkContexts ==
  ASSUME TypeOK, Contexts, NEW l \in Lanes, Unmark(l),
         UNCHANGED <<tracked, cur, running, pkt, ctxDone, history>>,
         \A n \in Queued' : n \in Queued \/ Lane(n) = l
  PROVE  Contexts'
<1>1. InHand' = InHand
  BY DEF InHand, TasksIn
<1>2. AboutHands' /\ SplitTold'
  BY <1>1 DEF Contexts, AboutHands, SplitTold, Lane, history
<1>3. RunningKnown' /\ Alive'
  BY DEF Contexts, RunningKnown, Alive, At, Lane, history
<1>4. WillStop'
  BY DEF Contexts, WillStop, At, Lane, Redispatched, history
<1>5. Marked'
  BY DEF Contexts, Marked, Unmark, At, Lane, history
<1> QED
  BY <1>2, <1>3, <1>4, <1>5 DEF Contexts

LEMMA EnqueueStep ==
  ASSUME IInv, NEW h \in Handlers, Enqueue(h)
  PROVE  IInv'
<1> USE DEF IInv
<1> DEFINE n == handler[h].task
           l == Lane(n)
           s == Session(n)
<1>1. /\ handler[h].op = "enqueue" /\ Unmark(l)
      /\ UNCHANGED <<tracked, cur, running, pkt, ctxDone, history>>
  BY DEF Enqueue
<1>2. n \in TaskIds /\ handler[h] = [op |-> "enqueue", task |-> n]
  BY <1>1, HandlerFacts
<1>3. l \in Lanes /\ s \in Sessions
  BY <1>2, TaskFacts
<1>4. PICK w \in IF laneWorker[l] # None THEN {laneWorker[l]} ELSE LeastLoaded :
        \/ /\ jobs' = [jobs EXCEPT ![w] = Append(@, n)]
           /\ laneWorker' = [laneWorker EXCEPT ![l] = w]
           /\ sessionPending' = [sessionPending EXCEPT ![s] = @ + 1]
           /\ handler' = [handler EXCEPT ![h] = Idle]
        \/ /\ handler' = [handler EXCEPT ![h].op = "refused"]
           /\ UNCHANGED <<jobs, laneWorker, sessionPending>>
  BY DEF Enqueue
<1>5. w \in Workers
  BY <1>3, <1>4 DEF TypeOK, LeastLoaded
<1>6. cancelled' = cancelled \ {l}
  BY <1>1 DEF Unmark
<1>7. n \notin InHand /\ n \notin Queued
  BY <1>1 DEF Placed, HandlersApart
<1>8. InHand' = InHand
  BY <1>1 DEF InHand, TasksIn
<1>9. Lane(n) = l /\ Session(n) = s
  OBVIOUS
<1>10. /\ UNCHANGED <<tracked, pkt, cur, running>> /\ overtaken' = overtaken /\ TaskIds' = TaskIds
       /\ Hands' = Hands /\ HandlerStates' = HandlerStates
  BY <1>1 DEF history, TaskIds, Hands, HandlerStates
<1>11. n = handler[h].task
  OBVIOUS
<1> HIDE DEF n, l, s
<1>12. CASE /\ jobs' = [jobs EXCEPT ![w] = Append(@, n)]
            /\ laneWorker' = [laneWorker EXCEPT ![l] = w]
            /\ sessionPending' = [sessionPending EXCEPT ![s] = @ + 1]
            /\ handler' = [handler EXCEPT ![h] = Idle]
  <2>1. jobs[w] \in Seq(TaskIds) /\ n \notin ToSet(jobs[w])
    BY <1>5, <1>7, TaskFacts DEF Queued
  <2> DEFINE q == Append(jobs[w], n)
  <2>2. q \in Seq(TaskIds) /\ ToSet(q) = ToSet(jobs[w]) \union {n} /\ Distinct(q)
    <3>1. Distinct(jobs[w])
      BY <1>5 DEF Placed, QueueDistinct
    <3> QED
      BY <3>1, <2>1, <1>2, AppendFacts
  <2>3. \A v \in Workers : jobs'[v] = IF v = w THEN q ELSE jobs[v]
    BY <1>5, <1>12 DEF TypeOK
  <2>4. jobs' \in [Workers -> Seq(TaskIds)]
    BY <1>5, <1>12, <2>2 DEF TypeOK
  <2> HIDE DEF q
  <2>5. Queued' = Queued \union {n}
    BY <2>2, <2>3, <1>5 DEF Queued
  <2>6. \A g \in Handlers : handler'[g] = IF g = h THEN Idle ELSE handler[g]
    BY <1>12 DEF TypeOK
  <2>7. TypeOK'
    <3>1. handler' \in [Handlers -> HandlerStates]
      BY <1>12 DEF TypeOK, HandlerStates
    <3>2. /\ laneWorker' \in [Lanes -> Workers \union {None}] /\ cancelled' \subseteq Lanes
          /\ sessionPending' \in [Sessions -> Nat]
      BY <1>3, <1>5, <1>6, <1>12 DEF TypeOK
    <3> QED
      BY <3>1, <3>2, <2>4, <1>10 DEF TypeOK
  <2>8. Placed'
    <3>1. QueueDistinct'
      BY <2>2, <2>3 DEF Placed, QueueDistinct
    <3>2. QueuesApart'
      BY <2>2, <2>3, <1>7 DEF Placed, QueuesApart, Queued
    <3>3. HandsApart'
      BY <2>5, <1>7, <1>8, <1>10 DEF Placed, HandsApart
    <3>4. HandlersApart'
      <4>1. Idle.op # "enqueue"
        BY DEF Idle
      <4>2. \A g \in Handlers : g # h /\ handler[g].op = "enqueue" => handler[g].task # n
        BY <1>1, <1>11 DEF Placed, HandlersApart
      <4> QED
        BY <4>1, <4>2, <2>5, <2>6, <1>8 DEF Placed, HandlersApart
    <3> QED
      BY <3>1, <3>2, <3>3, <3>4 DEF Placed
  <2>9. SessionPendingExact'
    <3> SUFFICES ASSUME NEW t \in Sessions
                 PROVE  sessionPending'[t] =
                          Cardinality({m \in (InHand \union Queued)' : Session(m)' = t})
      BY DEF SessionPendingExact, InHand
    <3> DEFINE old == {m \in InHand \union Queued : Session(m) = t}
               new == {m \in (InHand \union Queued)' : Session(m)' = t}
    <3>1. IsFiniteSet(old) /\ sessionPending[t] = Cardinality(old)
      <4>1. IsFiniteSet(InHand \union Queued)
        BY TaskFacts
      <4>2. old \in SUBSET (InHand \union Queued)
        OBVIOUS
      <4>3. sessionPending[t] = Cardinality(old)
        BY DEF SessionPendingExact, InHand
      <4> HIDE DEF old
      <4>4. IsFiniteSet(old)
        BY <4>1, <4>2, FS_Subset
      <4> QED
        BY <4>3, <4>4
    <3>2. new = IF t = s THEN old \union {n} ELSE old
      BY <1>8, <1>9, <1>10, <2>5 DEF Session, Lane
    <3>3. n \notin old
      BY <1>7
    <3>4. sessionPending'[t] = IF t = s THEN sessionPending[t] + 1 ELSE sessionPending[t]
      BY <1>3, <1>12 DEF TypeOK
    <3> HIDE DEF old, new
    <3>5. Cardinality(old \union {n}) = Cardinality(old) + 1
      BY <3>1, <3>3, FS_AddElement
    <3>6. sessionPending'[t] = Cardinality(new)
      BY <3>1, <3>2, <3>4, <3>5
    <3> QED
      BY <3>6 DEF new
  <2>10. NoneStranded'
    BY <2>5, <2>6, <1>10, <1>11 DEF NoneStranded, At
  <2>11. Contexts'
    <3>1. \A m \in Queued' : m \in Queued \/ Lane(m) = l
      BY <2>5, <1>9
    <3> QED
      BY <3>1, <1>1, <1>3, UnmarkContexts
  <2> QED
    BY <2>7, <2>8, <2>9, <2>10, <2>11
<1>13. CASE /\ handler' = [handler EXCEPT ![h].op = "refused"]
            /\ UNCHANGED <<jobs, laneWorker, sessionPending>>
  <2> DEFINE r == [handler[h] EXCEPT !.op = "refused"]
  <2>1. \A g \in Handlers : handler'[g] = IF g = h THEN r ELSE handler[g]
    BY <1>13 DEF TypeOK
  <2>2. r \in HandlerStates /\ r.op = "refused" /\ r.task = n
    BY <1>2 DEF HandlerStates
  <2>3. handler' \in [Handlers -> HandlerStates]
    BY <1>13, <2>2 DEF TypeOK
  <2> HIDE DEF r
  <2>4. TypeOK'
    BY <2>3, <1>6, <1>10, <1>13 DEF TypeOK
  <2>5. Placed' /\ InHand' = InHand /\ Queued' = Queued
    BY <2>1, <2>2, <1>10, <1>13, SamePlaces
  <2>6. SessionPendingExact'
    BY <2>5, <1>10, <1>13, SameCount
  <2>7. NoneStranded'
    BY <2>1, <2>2, <2>5, <1>10, <1>11 DEF NoneStranded, At
  <2>8. Contexts'
    BY <2>5, <1>1, <1>3, UnmarkContexts
  <2> QED
    BY <2>4, <2>5, <2>6, <2>7, <2>8
<1> QED
  BY <1>4, <1>12, <1>13

-----------------------------------------------------------------------------
(* The steps of the workers.                                                 *)

\* NoteSplit sees every lane that two workers have in hand.
LEMMA SplitNoted ==
  ASSUME TypeOK, pkt' = pkt, cur' \in [Workers -> Hands], NoteSplit,
         \A v, w \in Workers : v # w /\ cur'[v].task = cur'[w].task => cur'[v].task = 0
  PROVE  SplitTold' /\ split \subseteq split'
<1>1. split \subseteq split'
  BY DEF NoteSplit
<1> SUFFICES ASSUME NEW v \in Workers, NEW w \in Workers, v # w, cur'[v] # Free, cur'[w] # Free,
                    Lane(cur'[v].task) = Lane(cur'[w].task)
             PROVE  Lane(cur'[v].task) \in split'
  BY <1>1 DEF SplitTold, Lane
<1> DEFINE l == Lane(cur'[v].task)
           S == {n \in TasksIn(cur') : Lane(n) = l}
<1>2. \A x \in Workers : cur'[x] # Free => cur'[x].task \in TaskIds
  BY DEF Hands
<1>3. 0 \notin TaskIds /\ Len(pkt) \in Nat /\ TaskIds = 1 .. Len(pkt)
  BY TaskFacts
<1>4. cur'[v].task \in S /\ cur'[w].task \in S /\ cur'[v].task # cur'[w].task
  BY <1>2, <1>3 DEF TasksIn
<1>5. IsFiniteSet(TaskIds)
  BY <1>3, FS_Interval
<1>6. S \in SUBSET TaskIds
  <2>1. \A x \in Workers : cur'[x].task = 0 \/ cur'[x].task \in TaskIds
    BY DEF Hands, Free
  <2> QED
    BY <2>1 DEF TasksIn
<1>7. l \in Lanes
  BY <1>2, TaskFacts
<1> HIDE DEF S
<1>8. IsFiniteSet(S)
  BY <1>5, <1>6, FS_Subset
<1>9. Cardinality(S) > 1
  BY <1>4, <1>8, TwoElements
<1> QED
  BY <1>7, <1>9 DEF NoteSplit, S

LEMMA TakeStep ==
  ASSUME IInv, NEW w \in Workers, Take(w)
  PROVE  IInv'
<1> USE DEF IInv
<1> DEFINE n == Head(jobs[w])
           r == [task |-> n, phase |-> "taken"]
<1>1. /\ cur[w] = Free /\ jobs[w] # <<>>
      /\ cur' = [cur EXCEPT ![w] = r] /\ jobs' = [jobs EXCEPT ![w] = Tail(@)]
      /\ NoteSplit /\ UNCHANGED <<tracked, handler, processor, pkt, ctxDone, removed, overtaken>>
  BY DEF Take
<1>2. Distinct(jobs[w]) /\ jobs[w] \in Seq(TaskIds)
  BY TaskFacts DEF Placed, QueueDistinct
<1>3. /\ n \in ToSet(jobs[w]) /\ n \in TaskIds /\ Tail(jobs[w]) \in Seq(TaskIds)
      /\ ToSet(Tail(jobs[w])) = ToSet(jobs[w]) \ {n} /\ Distinct(Tail(jobs[w]))
  BY <1>1, <1>2, HeadTailFacts
<1>4. r.task = n /\ r.phase = "taken" /\ r \in Hands /\ r # Free
  BY <1>3 DEF Hands, Phases, Free
<1>5. \A v \in Workers : /\ cur'[v] = IF v = w THEN r ELSE cur[v]
                         /\ jobs'[v] = IF v = w THEN Tail(jobs[w]) ELSE jobs[v]
  BY <1>1 DEF TypeOK
<1>6. cur' \in [Workers -> Hands] /\ jobs' \in [Workers -> Seq(TaskIds)]
  BY <1>1, <1>3, <1>4 DEF TypeOK
<1> HIDE DEF n, r
<1>7. n \in Queued /\ n \notin InHand /\ n # 0
  BY <1>3, TaskFacts DEF Queued, Placed, HandsApart
<1>8. Queued' = Queued \ {n}
  <2>1. \A v \in Workers : ToSet(jobs'[v]) = ToSet(jobs[v]) \ {n}
    BY <1>3, <1>5 DEF Placed, QueuesApart
  <2> QED
    BY <2>1 DEF Queued
<1>9. InHand' = InHand \union {n}
  <2>1. cur[w].task = 0
    BY <1>1, HandFacts
  <2> QED
    BY <2>1, <1>4, <1>5, <1>7 DEF InHand, TasksIn
<1>10. /\ UNCHANGED <<tracked, handler, pkt, ctxDone, removed, overtaken>>
       /\ UNCHANGED <<laneWorker, cancelled, running, sessionPending>>
       /\ TaskIds' = TaskIds /\ Hands' = Hands /\ HandlerStates' = HandlerStates
  BY <1>1 DEF processor, TaskIds, Hands, HandlerStates
<1>11. TypeOK'
  BY <1>6, <1>10 DEF TypeOK
<1>12. Placed'
  <2>1. QueueDistinct'
    BY <1>3, <1>5 DEF Placed, QueueDistinct
  <2>2. QueuesApart'
    BY <1>3, <1>5 DEF Placed, QueuesApart
  <2>3. HandsApart'
    <3>1. \A v \in Workers : v # w => cur[v].task # n
      BY <1>7 DEF InHand, TasksIn
    <3>2. (InHand \intersect Queued)' = {}
      BY <1>8, <1>9 DEF Placed, HandsApart
    <3> QED
      BY <3>1, <3>2, <1>4, <1>5 DEF Placed, HandsApart
  <2>4. HandlersApart'
    BY <1>7, <1>8, <1>9, <1>10 DEF Placed, HandlersApart
  <2> QED
    BY <2>1, <2>2, <2>3, <2>4 DEF Placed
<1>13. SessionPendingExact'
  <2>1. (InHand \union Queued)' = InHand \union Queued
    BY <1>7, <1>8, <1>9
  <2> QED
    BY <2>1, <1>10, SameCount
<1>14. NoneStranded'
  BY <1>1, <1>4, <1>5, <1>8, <1>10 DEF NoneStranded, At
<1>15. SplitTold' /\ split \subseteq split'
  BY <1>1, <1>6, <1>10, <1>12, SplitNoted DEF Placed, HandsApart
<1>16. Lane(n) \notin cancelled /\ n \notin removed /\ n \notin ctxDone
  BY <1>7 DEF Contexts, Marked, AboutHands
<1>17. Contexts'
  <2>1. AboutHands'
    BY <1>9, <1>10 DEF Contexts, AboutHands, Lane
  <2>2. Marked'
    BY <1>4, <1>5, <1>8, <1>10, <1>15, <1>16 DEF Contexts, Marked, At, Lane
  <2>3. RunningKnown'
    BY <1>4, <1>5, <1>10, <1>15 DEF Contexts, RunningKnown, At, Lane
  <2>4. Alive'
    BY <1>4, <1>5, <1>10, <1>15, <1>16 DEF Contexts, Alive, At, Lane
  <2>5. WillStop'
    BY <1>4, <1>5, <1>10, <1>15, <1>16 DEF Contexts, WillStop, At, Lane, Redispatched
  <2> QED
    BY <2>1, <2>2, <2>3, <2>4, <2>5, <1>15 DEF Contexts
<1> QED
  BY <1>11, <1>12, <1>13, <1>14, <1>17

\* What every step of a worker with its task in hand leaves true.
LEMMA GotoStep ==
  ASSUME IInv, NEW w \in Workers, cur[w] # Free, NEW ph \in Phases, cur' = Goto(w, ph),
         tracked' \subseteq tracked, running' \in [Lanes -> TaskIds \union {0}],
         UNCHANGED <<handler, jobs, laneWorker, cancelled, sessionPending, pkt, history>>
  PROVE  /\ TypeOK' /\ Placed' /\ SessionPendingExact' /\ SplitTold'
         /\ InHand' = InHand /\ Queued' = Queued
         /\ \A v \in Workers : cur'[v].task = cur[v].task /\ (cur'[v] = Free <=> cur[v] = Free)
         /\ \A v \in Workers : v # w => cur'[v] = cur[v]
         /\ cur'[w].phase = ph
<1> USE DEF IInv
<1>1. /\ cur' \in [Workers -> Hands] /\ cur'[w].phase = ph
      /\ \A v \in Workers : cur'[v].task = cur[v].task /\ (cur'[v] = Free <=> cur[v] = Free)
      /\ \A v \in Workers : v # w => cur'[v] = cur[v]
  BY GotoFacts
<1>2. Placed' /\ InHand' = InHand /\ Queued' = Queued
  BY <1>1, SamePlaces
<1>3. TypeOK'
  BY <1>1 DEF TypeOK, TaskIds, Hands, HandlerStates
<1>4. SessionPendingExact'
  BY <1>2, SameCount
<1>5. SplitTold'
  BY <1>1 DEF Contexts, SplitTold, Lane, history
<1> QED
  BY <1>1, <1>2, <1>3, <1>4, <1>5

\* A worker in one of the phases has a task.
LEMMA BusyHas ==
  ASSUME TypeOK, NEW w \in Workers, NEW ps \in SUBSET Phases, At(w, ps)
  PROVE  cur[w] # Free /\ cur[w].task \in TaskIds /\ cur[w].task \in InHand
<1>1. cur[w] # Free
  BY DEF At, Free, Phases
<1> QED
  BY <1>1, HandFacts

\* The lane of two tasks in hand is known to be split.
LEMMA Beside ==
  ASSUME IInv, NEW v \in Workers, NEW w \in Workers, v # w, cur[v] # Free, cur[w] # Free,
         Lane(cur[v].task) \notin split
  PROVE  Lane(cur[v].task) # Lane(cur[w].task) /\ cur[v].task # cur[w].task
BY DEF IInv, Contexts, SplitTold

LEMMA BeginStep ==
  ASSUME IInv, NEW w \in Workers, BeginTaskContext(w)
  PROVE  IInv'
<1> USE DEF IInv
<1> DEFINE n == cur[w].task
           l == Lane(n)
<1>1. /\ At(w, {"taken"}) /\ cur' = Goto(w, "begun")
      /\ \/ l \in cancelled /\ ctxDone' = ctxDone \union {n} /\ UNCHANGED running
         \/ l \notin cancelled /\ running' = [running EXCEPT ![l] = n] /\ UNCHANGED ctxDone
      /\ UNCHANGED <<tracked, handler, jobs, laneWorker, cancelled, sessionPending, pkt, history>>
  BY DEF BeginTaskContext
<1>2. cur[w] # Free /\ n \in TaskIds /\ n \in InHand
  BY <1>1, BusyHas DEF Phases
<1>3. l \in Lanes
  BY <1>2, TaskFacts
<1>4. running' \in [Lanes -> TaskIds \union {0}]
  BY <1>1, <1>2 DEF TypeOK
<1>5. /\ TypeOK' /\ Placed' /\ SessionPendingExact' /\ SplitTold'
      /\ InHand' = InHand /\ Queued' = Queued
      /\ \A v \in Workers : cur'[v].task = cur[v].task /\ (cur'[v] = Free <=> cur[v] = Free)
      /\ \A v \in Workers : v # w => cur'[v] = cur[v]
      /\ cur'[w].phase = "begun"
  <2>1. "begun" \in Phases
    BY DEF Phases
  <2> QED
    BY <2>1, <1>1, <1>2, <1>4, GotoStep
<1>6. cur[w].phase = "taken" /\ Lane(n) = l /\ cur[w].task = n /\ cur'[w].task = n
  BY <1>1, <1>5 DEF At
<1>7. UNCHANGED <<tracked, handler, cancelled, pkt, removed, overtaken, split>>
  BY <1>1 DEF history
<1>8. running \in [Lanes -> TaskIds \union {0}]
  BY DEF TypeOK
<1> HIDE DEF n, l
<1>9. NoneStranded'
  BY <1>5, <1>6, <1>7 DEF NoneStranded, At
<1>10. AboutHands'
  BY <1>1, <1>2, <1>3, <1>5, <1>6, <1>7, <1>8 DEF Contexts, AboutHands, Lane
<1>11. Marked'
  BY <1>5, <1>6, <1>7 DEF Contexts, Marked, At, Lane
<1>12. ASSUME NEW v \in Workers, v # w, cur[v].phase \in Phases, Lane(cur[v].task) \notin split
       PROVE  Lane(cur[v].task) # l /\ cur[v].task # n
  <2>1. cur[v] # Free
    BY <1>12 DEF Free, Phases
  <2> QED
    BY <2>1, <1>2, <1>6, <1>12, Beside
<1>13. RunningKnown'
  <2> SUFFICES ASSUME NEW v \in Workers, cur'[v].phase \in {"begun", "running"},
                      Lane(cur[v].task) \notin split
               PROVE  cur[v].task \in ctxDone' \/ running'[Lane(cur[v].task)] = cur[v].task
    BY <1>5, <1>7 DEF RunningKnown, At, Lane
  <2>1. CASE v = w
    BY <2>1, <1>1, <1>3, <1>6, <1>8
  <2>2. CASE v # w
    <3>1. cur[v].phase \in {"begun", "running"} /\ Lane(cur[v].task) # l
      BY <2>2, <1>5, <1>12 DEF Phases
    <3>2. running'[Lane(cur[v].task)] = running[Lane(cur[v].task)] \/ cur[v].task \in ctxDone
      <4>1. cur[v] # Free
        BY <3>1 DEF Free
      <4>2. Lane(cur[v].task) \in Lanes
        BY <4>1, HandFacts, TaskFacts
      <4> QED
        BY <4>2, <3>1, <1>1, <1>8
    <3> QED
      BY <3>1, <3>2, <1>1 DEF Contexts, RunningKnown, At
  <2> QED
    BY <2>1, <2>2
<1>14. l \in cancelled => n \in removed \/ l \in split
  BY <1>6 DEF Contexts, Marked, At
<1>15. Alive'
  <2> SUFFICES ASSUME NEW v \in Workers, cur'[v].phase \in {"taken", "begun", "running"},
                      cur[v].task \notin removed, Lane(cur[v].task) \notin split
               PROVE  cur[v].task \notin ctxDone'
    BY <1>5, <1>7 DEF Alive, At, Lane
  <2>1. CASE v = w
    BY <2>1, <1>1, <1>6, <1>14 DEF Contexts, Alive, At
  <2>2. CASE v # w
    <3>1. cur[v].phase \in {"taken", "begun", "running"} /\ cur[v].task # n
      BY <2>2, <1>5, <1>12 DEF Phases
    <3> QED
      BY <3>1, <1>1 DEF Contexts, Alive, At
  <2> QED
    BY <2>1, <2>2
<1>16. WillStop'
  <2>1. \A m : Redispatched(m)' = Redispatched(m)
    BY <1>7 DEF Redispatched
  <2>2. ctxDone \subseteq ctxDone'
    BY <1>1
  <2> SUFFICES ASSUME NEW v \in Workers, cur'[v].phase \in {"taken", "begun", "running"},
                      cur[v].task \in removed, Lane(cur[v].task) \notin split
               PROVE  \/ cur[v].task \in ctxDone' \/ Redispatched(cur[v].task)
                      \/ pkt[cur[v].task] \in overtaken
                      \/ pkt[cur[v].task] \notin tracked /\ cur'[v].phase # "running"
    BY <1>5, <1>7 DEF WillStop, At, Lane, Redispatched
  <2>3. cur[v].phase \in {"taken", "begun", "running"} /\ (cur[v].phase # "running" => cur'[v].phase # "running")
    BY <1>5, <1>6
  <2> QED
    BY <2>2, <2>3 DEF Contexts, WillStop, At
<1> QED
  BY <1>5, <1>9, <1>10, <1>11, <1>13, <1>15, <1>16 DEF Contexts

\* Run finds its packet tracked, and Answer and Return leave a phase that the
\* invariant speaks of: none of them touches what the processor knows.
LEMMA GoesOnStep ==
  ASSUME IInv, NEW w \in Workers, cur[w] # Free, NEW ph \in Phases \ {"taken", "begun"},
         cur' = Goto(w, ph), tracked' \subseteq tracked,
         ph = "running" => cur[w].phase = "begun" /\ pkt[cur[w].task] \in tracked,
         \/ ph # "ending" /\ cur[w].phase # "ending" /\ tracked' \subseteq tracked
         \/ tracked' = tracked \ {pkt[cur[w].task]},
         UNCHANGED <<handler, jobs, processor, pkt, ctxDone, history>>
  PROVE  IInv'
<1> USE DEF IInv
<1> DEFINE n == cur[w].task
<1>1. UNCHANGED <<handler, jobs, pkt, ctxDone, laneWorker, cancelled, running, sessionPending>>
  BY DEF processor
<1>2. UNCHANGED <<removed, overtaken, split>>
  BY DEF history
<1>3. /\ TypeOK' /\ Placed' /\ SessionPendingExact' /\ SplitTold'
      /\ InHand' = InHand /\ Queued' = Queued
      /\ \A v \in Workers : cur'[v].task = cur[v].task /\ (cur'[v] = Free <=> cur[v] = Free)
      /\ \A v \in Workers : v # w => cur'[v] = cur[v]
      /\ cur'[w].phase = ph
  <2>1. running' \in [Lanes -> TaskIds \union {0}]
    BY <1>1 DEF TypeOK
  <2>2. UNCHANGED <<handler, jobs, laneWorker, cancelled, sessionPending, pkt, history>>
    BY <1>1
  <2>3. ph \in Phases
    OBVIOUS
  <2> QED
    BY <2>1, <2>2, <2>3, GotoStep
<1>4. NoneStranded'
  <2>1. \A v \in Workers : v # w => (At(v, {"ending"})' <=> At(v, {"ending"}))
    BY <1>3 DEF At
  <2>2. CASE ph # "ending" /\ cur[w].phase # "ending" /\ tracked' \subseteq tracked
    <3>1. ~ At(w, {"ending"})' /\ ~ At(w, {"ending"})
      BY <2>2, <1>3 DEF At
    <3> QED
      BY <2>1, <2>2, <3>1, <1>1, <1>2, <1>3 DEF NoneStranded
  <2>3. CASE tracked' = tracked \ {pkt[cur[w].task]}
    BY <2>1, <2>3, <1>1, <1>2, <1>3 DEF NoneStranded
  <2> QED
    BY <2>2, <2>3
<1>5. AboutHands'
  BY <1>1, <1>2, <1>3 DEF Contexts, AboutHands, Lane
<1>6. Marked'
  BY <1>1, <1>2, <1>3 DEF Contexts, Marked, At, Lane
<1>7. \A v \in Workers : cur'[v].phase \in {"taken", "begun", "running"} =>
                           cur[v].phase \in {"taken", "begun", "running"}
  BY <1>3
<1>8. RunningKnown'
  BY <1>1, <1>2, <1>3 DEF Contexts, RunningKnown, At, Lane
<1>9. Alive'
  BY <1>1, <1>2, <1>3, <1>7 DEF Contexts, Alive, At, Lane
<1>10. WillStop'
  <2> SUFFICES ASSUME NEW v \in Workers, cur'[v].phase \in {"taken", "begun", "running"},
                      cur[v].task \in removed, Lane(cur[v].task) \notin split
               PROVE  \/ cur[v].task \in ctxDone \/ Redispatched(cur[v].task)
                      \/ pkt[cur[v].task] \in overtaken
                      \/ pkt[cur[v].task] \notin tracked' /\ cur'[v].phase # "running"
    BY <1>1, <1>2, <1>3 DEF WillStop, At, Lane, Redispatched
  <2>1. CASE v = w
    BY <2>1, <1>3, <1>7 DEF Contexts, WillStop, At
  <2>2. CASE v # w
    BY <2>2, <1>3, <1>7 DEF Contexts, WillStop, At
  <2> QED
    BY <2>1, <2>2
<1> QED
  BY <1>3, <1>4, <1>5, <1>6, <1>8, <1>9, <1>10 DEF Contexts

\* The count after a task has ended, or has been dropped.
LEMMA CountAfter ==
  ASSUME TypeOK, SessionPendingExact, pkt' = pkt, NEW D, D \subseteq InHand \union Queued,
         (InHand \union Queued)' = (InHand \union Queued) \ D,
         \A s \in Sessions :
           sessionPending'[s] = DecrementSessionPending(s, Cardinality({n \in D : Session(n) = s}))
  PROVE  SessionPendingExact'
<1> SUFFICES ASSUME NEW s \in Sessions
             PROVE  sessionPending'[s] =
                      Cardinality({n \in (InHand \union Queued)' : Session(n)' = s})
  BY DEF SessionPendingExact, InHand
<1> DEFINE W == InHand \union Queued
           old == {n \in W : Session(n) = s}
           new == {n \in W' : Session(n)' = s}
           gone == {n \in D : Session(n) = s}
<1>1. IsFiniteSet(W)
  BY TaskFacts
<1>2. old \in SUBSET W /\ gone \in SUBSET old /\ new = old \ gone /\ old \intersect gone = gone
  BY DEF Session, Lane
<1>3. sessionPending[s] = Cardinality(old)
  BY DEF SessionPendingExact, InHand
<1>4. sessionPending'[s] = DecrementSessionPending(s, Cardinality(gone))
  OBVIOUS
<1> HIDE DEF W, old, new, gone
<1>5. IsFiniteSet(old)
  BY <1>1, <1>2, FS_Subset
<1>6. Cardinality(gone) <= Cardinality(old) /\ IsFiniteSet(gone)
  BY <1>2, <1>5, FS_Subset
<1>7. Cardinality(new) = Cardinality(old) - Cardinality(gone)
  <2>1. Cardinality(old \ gone) = Cardinality(old) - Cardinality(old \intersect gone)
    BY <1>5, FS_Difference
  <2> QED
    BY <2>1, <1>2
<1>8. Cardinality(old) \in Nat /\ Cardinality(gone) \in Nat
  BY <1>5, <1>6, FS_CardinalityType
<1>9. sessionPending'[s] = Cardinality(new)
  BY <1>3, <1>4, <1>6, <1>7, <1>8 DEF DecrementSessionPending
<1> QED
  BY <1>9 DEF new, W

LEMMA FinishLaneStep ==
  ASSUME IInv, NEW w \in Workers, FinishLane(w)
  PROVE  IInv'
<1> USE DEF IInv
<1> DEFINE n == cur[w].task
           l == Lane(n)
           s == Session(n)
<1>1. /\ At(w, {"ending"}) /\ cur' = [cur EXCEPT ![w] = Free]
      /\ laneWorker' = [laneWorker EXCEPT ![l] = IF @ = w THEN None ELSE @]
      /\ ctxDone' = (ctxDone \union {running[l]}) \ {0, n}
      /\ removed' = removed \ {n}
      /\ running' = [running EXCEPT ![l] = 0]
      /\ cancelled' = cancelled \ {l}
      /\ sessionPending' = [sessionPending EXCEPT ![s] = DecrementSessionPending(s, 1)]
      /\ UNCHANGED <<tracked, handler, jobs, pkt, overtaken, split>>
  BY DEF FinishLane
<1>2. cur[w] # Free /\ n \in TaskIds /\ n \in InHand
  BY <1>1, BusyHas DEF Phases
<1>3. l \in Lanes /\ s \in Sessions
  BY <1>2, TaskFacts
<1>4. Lane(n) = l /\ Session(n) = s /\ cur[w].task = n /\ cur[w].phase = "ending"
  BY <1>1 DEF At
<1>5. TaskIds' = TaskIds /\ Hands' = Hands /\ HandlerStates' = HandlerStates
  BY <1>1 DEF TaskIds, Hands, HandlerStates
<1> HIDE DEF n, l, s
<1>6. \A v \in Workers : cur'[v] = IF v = w THEN Free ELSE cur[v]
  BY <1>1 DEF TypeOK
<1>7. TypeOK'
  <2>1. cur' \in [Workers -> Hands]
    BY <1>1 DEF TypeOK, Hands
  <2>2. laneWorker' \in [Lanes -> Workers \union {None}] /\ running' \in [Lanes -> TaskIds \union {0}]
    BY <1>1 DEF TypeOK
  <2>3. DecrementSessionPending(s, 1) \in Nat
    BY <1>3 DEF TypeOK, DecrementSessionPending
  <2>4. sessionPending' \in [Sessions -> Nat]
    BY <2>3, <1>1 DEF TypeOK
  <2> QED
    BY <2>1, <2>2, <2>4, <1>1, <1>5 DEF TypeOK
<1>8. Free.task = 0 /\ Free.phase = "idle"
  BY DEF Free
<1>9. n # 0 /\ \A v \in Workers : v # w => cur[v].task # n
  <2>1. n # 0
    BY <1>2, TaskFacts
  <2> QED
    BY <2>1, <1>4 DEF Placed, HandsApart
<1>10. InHand' = InHand \ {n} /\ Queued' = Queued
  <2>1. InHand' = InHand \ {n}
    BY <1>4, <1>6, <1>8, <1>9 DEF InHand, TasksIn
  <2> QED
    BY <2>1, <1>1 DEF Queued
<1>11. Placed'
  <2>1. QueueDistinct' /\ QueuesApart'
    BY <1>1 DEF Placed, QueueDistinct, QueuesApart
  <2>2. HandsApart'
    BY <1>6, <1>8, <1>10 DEF Placed, HandsApart
  <2>3. HandlersApart'
    BY <1>1, <1>10 DEF Placed, HandlersApart
  <2> QED
    BY <2>1, <2>2, <2>3 DEF Placed
<1>12. SessionPendingExact'
  <2> DEFINE D == {n}
  <2>1. D \subseteq InHand \union Queued /\ (InHand \union Queued)' = (InHand \union Queued) \ D
    <3>1. n \notin Queued
      BY <1>2 DEF Placed, HandsApart
    <3> QED
      BY <3>1, <1>2, <1>10
  <2>2. ASSUME NEW t \in Sessions
        PROVE  sessionPending'[t] =
                 DecrementSessionPending(t, Cardinality({m \in D : Session(m) = t}))
    <3>1. sessionPending[t] \in Nat
      BY DEF TypeOK
    <3>2. CASE t = s
      <4>1. {m \in D : Session(m) = t} = {n}
        BY <3>2, <1>4
      <4>2. Cardinality({n}) = 1
        BY FS_Singleton
      <4> QED
        BY <4>1, <4>2, <3>2, <1>1 DEF TypeOK
    <3>3. CASE t # s
      <4>1. {m \in D : Session(m) = t} = {}
        BY <3>3, <1>4
      <4>2. Cardinality({}) = 0
        BY FS_EmptySet
      <4>3. sessionPending'[t] = sessionPending[t]
        BY <3>3, <1>1 DEF TypeOK
      <4>4. Cardinality({m \in D : Session(m) = t}) = 0
        BY <4>1, <4>2
      <4> HIDE DEF D
      <4> QED
        BY <4>3, <4>4, <3>1 DEF DecrementSessionPending
    <3> QED
      BY <3>2, <3>3
  <2> HIDE DEF D
  <2> QED
    BY <2>1, <2>2, <1>1, CountAfter
<1>13. NoneStranded'
  BY <1>1, <1>4, <1>6, <1>10 DEF NoneStranded, At
<1>14. \A v \in Workers : cur'[v] # Free => v # w /\ cur'[v] = cur[v] /\ cur[v] # Free
  BY <1>6
<1>15. \A v \in Workers : cur'[v].phase \in {"taken", "begun", "running"} =>
                            v # w /\ cur'[v] = cur[v] /\ cur[v] # Free
  BY <1>6, <1>8
<1>16. SplitTold'
  BY <1>1, <1>14 DEF Contexts, SplitTold, Lane
<1>17. running \in [Lanes -> TaskIds \union {0}]
  BY DEF TypeOK
<1>18. AboutHands'
  <2>1. ctxDone' \subseteq InHand' /\ removed' \subseteq InHand'
    BY <1>1, <1>3, <1>10 DEF Contexts, AboutHands
  <2>2. ASSUME NEW k \in Lanes, running'[k] # 0
        PROVE  running'[k] \in InHand' /\ Lane(running'[k]) = k
    <3>1. k # l /\ running'[k] = running[k]
      BY <2>2, <1>1, <1>3, <1>17
    <3>2. running[k] \in InHand /\ Lane(running[k]) = k
      BY <2>2, <3>1 DEF Contexts, AboutHands
    <3>3. running[k] # n
      BY <3>1, <3>2, <1>4
    <3> QED
      BY <3>1, <3>2, <3>3, <1>10
  <2> QED
    BY <2>1, <2>2, <1>1 DEF AboutHands, Lane
<1>19. Marked'
  BY <1>1, <1>9, <1>10, <1>15 DEF Contexts, Marked, At, Lane
<1>20. ASSUME NEW v \in Workers, v # w, cur[v] # Free, Lane(cur[v].task) \notin split
       PROVE  Lane(cur[v].task) # l /\ cur[v].task # n /\ cur[v].task # running[l]
  <2>1. Lane(cur[v].task) # l /\ cur[v].task # n
    BY <1>2, <1>4, <1>20, Beside
  <2>2. cur[v].task # 0
    BY <1>20, HandFacts
  <2> QED
    BY <2>1, <2>2, <1>3 DEF Contexts, AboutHands
<1>21. RunningKnown'
  <2> SUFFICES ASSUME NEW v \in Workers, v # w, cur[v] # Free, cur[v].phase \in {"begun", "running"},
                      Lane(cur[v].task) \notin split
               PROVE  cur[v].task \in ctxDone' \/ running'[Lane(cur[v].task)] = cur[v].task
    <3>1. UNCHANGED <<pkt, split>>
      BY <1>1
    <3> QED
      BY <3>1, <1>15 DEF RunningKnown, At, Lane
  <2>1. Lane(cur[v].task) \in Lanes /\ cur[v].task # 0
    BY HandFacts, TaskFacts
  <2>2. running'[Lane(cur[v].task)] = running[Lane(cur[v].task)]
    BY <2>1, <1>1, <1>17, <1>20
  <2> QED
    BY <2>1, <2>2, <1>1, <1>20 DEF Contexts, RunningKnown, At
<1>22. Alive'
  BY <1>1, <1>15, <1>20 DEF Contexts, Alive, At, Lane
<1>23. WillStop'
  <2> SUFFICES ASSUME NEW v \in Workers, v # w, cur[v] # Free,
                      cur[v].phase \in {"taken", "begun", "running"},
                      cur[v].task \in removed, Lane(cur[v].task) \notin split
               PROVE  \/ cur[v].task \in ctxDone' \/ Redispatched(cur[v].task)
                      \/ pkt[cur[v].task] \in overtaken
                      \/ pkt[cur[v].task] \notin tracked /\ cur[v].phase # "running"
    BY <1>1, <1>15 DEF WillStop, At, Lane, Redispatched
  <2>1. cur[v].task # 0 /\ cur[v].task # n
    BY <1>9, HandFacts
  <2> QED
    BY <2>1, <1>1 DEF Contexts, WillStop, At
<1> QED
  BY <1>7, <1>11, <1>12, <1>13, <1>16, <1>18, <1>19, <1>21, <1>22, <1>23 DEF Contexts

-----------------------------------------------------------------------------
(* Compaction, which removals and the end of a lane share.                   *)

Stolen(steal) == {jobs[w][steal[w]] : w \in DOMAIN steal}

\* A worker still has what it had, or has got one of the queued tasks.
KeepsOrTakes(hands) ==
  \A v \in Workers : \/ cur'[v] = hands[v]
                     \/ cur'[v].phase = "taken" /\ cur'[v].task \in Queued /\ cur'[v] # Free

\* What a worker gets while the channels are compacted is a task of its own queue.
LEMMA StealFacts ==
  ASSUME TypeOK, NEW steal \in Steals, \A w \in DOMAIN steal : steal[w] <= Len(jobs[w])
  PROVE  \A w \in DOMAIN steal : w \in Workers /\ jobs[w][steal[w]] \in ToSet(jobs[w])
<1>1. PICK W \in SUBSET Workers : steal \in [W -> 2 .. QueueLimit]
  BY DEF Steals
<1>2. ASSUME NEW v \in DOMAIN steal PROVE v \in Workers /\ jobs[v][steal[v]] \in ToSet(jobs[v])
  <2>1. v \in Workers
    BY <1>1
  <2>2. steal[v] \in Nat /\ steal[v] >= 2
    BY <1>1, DeferredAssumption
  <2>3. jobs[v] \in Seq(TaskIds)
    BY <2>1, TaskFacts
  <2>4. steal[v] \in DOMAIN jobs[v]
    BY <2>2, <2>3
  <2> QED
    BY <2>1, <2>4 DEF ToSet
<1> QED
  BY <1>2

\* Compaction drops the queued tasks of the lanes that are gone and no others, for
\* nothing is queued on a lane that was marked before; what it does not drop stays
\* queued or is in the hand of the worker that got it.
LEMMA CompactFacts ==
  ASSUME IInv, NEW gone \in SUBSET Lanes, NEW marked \in SUBSET gone,
         NEW hands \in [Workers -> Hands], NEW steal \in Steals, Compact(gone, hands, steal),
         \A v \in Workers : /\ hands[v].task = cur[v].task /\ (hands[v] = Free <=> cur[v] = Free)
                            /\ hands[v].phase = "ending" => cur[v].phase = "ending",
         cancelled' = cancelled \union marked, UNCHANGED <<tracked, pkt>>,
         \A h \in Handlers : handler[h] # handler'[h] =>
            handler[h].op \notin {"enqueue", "refused"} /\ handler'[h] = Idle
  PROVE  /\ jobs' \in [Workers -> Seq(TaskIds)] /\ cur' \in [Workers -> Hands]
         /\ laneWorker' \in [Lanes -> Workers \union {None}] /\ sessionPending' \in [Sessions -> Nat]
         /\ Placed' /\ SessionPendingExact' /\ NoneStranded' /\ SplitTold'
         /\ split \subseteq split' /\ overtaken' = overtaken \union (PacketsOf(gone) \intersect tracked)
         /\ InHand \subseteq InHand'
         /\ \A n \in Queued' : n \in Queued /\ Lane(n) \notin gone
         /\ KeepsOrTakes(hands)
<1> USE DEF IInv
<1> DEFINE st == Stolen(steal)
           dr == {n \in Queued \ st : Lane(n) \in gone \union cancelled'}
<1>1. /\ \A w \in DOMAIN steal : hands[w] = Free /\ steal[w] <= Len(jobs[w])
      /\ jobs' = [w \in Workers |-> Without(jobs[w], dr \union st)]
      /\ cur' = [w \in Workers |->
                   IF w \in DOMAIN steal THEN [task |-> jobs[w][steal[w]], phase |-> "taken"]
                   ELSE hands[w]]
      /\ sessionPending' = [s \in Sessions |->
           DecrementSessionPending(s, Cardinality({n \in dr : Session(n) = s}))]
      /\ laneWorker' = [l \in Lanes |-> IF l \in gone \union {Lane(n) : n \in dr}
                                        THEN None ELSE laneWorker[l]]
      /\ overtaken' = overtaken \union (PacketsOf(gone) \intersect tracked)
      /\ NoteSplit
  BY DEF Compact, Stolen
<1>2. \A w \in DOMAIN steal : w \in Workers /\ jobs[w][steal[w]] \in ToSet(jobs[w])
  BY <1>1, StealFacts
<1>3. st \subseteq Queued
  BY <1>2 DEF Stolen, Queued
<1>4. dr \subseteq Queued /\ \A n \in Queued : n \in dr <=> n \notin st /\ Lane(n) \in gone
  BY DEF Contexts, Marked
<1> HIDE DEF dr
<1>5. \A w \in Workers : /\ jobs'[w] \in Seq(TaskIds) /\ Distinct(jobs'[w])
                         /\ ToSet(jobs'[w]) = ToSet(jobs[w]) \ (dr \union st)
  <2> TAKE w \in Workers
  <2>1. jobs[w] \in Seq(TaskIds) /\ Distinct(jobs[w])
    BY TaskFacts DEF Placed, QueueDistinct
  <2>2. jobs'[w] = Without(jobs[w], dr \union st)
    BY <1>1
  <2> DEFINE D == dr \union st
  <2>3. jobs'[w] = Without(jobs[w], D)
    BY <2>2
  <2> HIDE DEF D
  <2>4. /\ jobs'[w] \in Seq(TaskIds) /\ Distinct(jobs'[w])
        /\ ToSet(jobs'[w]) = ToSet(jobs[w]) \ D
    BY <2>1, <2>3, WithoutFacts
  <2> QED
    BY <2>4 DEF D
<1>6. Queued' = Queued \ (dr \union st)
  BY <1>5 DEF Queued
<1>7. jobs' \in [Workers -> Seq(TaskIds)]
  BY <1>1, <1>5
<1>8. ASSUME NEW v \in Workers, v \in DOMAIN steal
      PROVE  /\ cur'[v].task = jobs[v][steal[v]] /\ cur'[v].task \in ToSet(jobs[v])
             /\ cur'[v].task \in st /\ cur'[v].phase = "taken" /\ hands[v] = Free
             /\ cur'[v].task \in TaskIds /\ cur'[v] # Free /\ cur'[v] \in Hands
  <2>1. cur'[v] = [task |-> jobs[v][steal[v]], phase |-> "taken"]
    BY <1>1, <1>8
  <2>2. jobs[v][steal[v]] \in ToSet(jobs[v]) /\ jobs[v][steal[v]] \in TaskIds
    BY <1>2, <1>8, TaskFacts
  <2>3. cur'[v] # Free /\ cur'[v] \in Hands
    BY <2>1, <2>2 DEF Free, Hands, Phases
  <2> QED
    BY <2>1, <2>2, <2>3, <1>1, <1>8 DEF Stolen
<1>9. \A v \in Workers : v \notin DOMAIN steal => cur'[v] = hands[v]
  BY <1>1
<1>10. cur' \in [Workers -> Hands]
  <2>1. \A v \in Workers : cur'[v] \in Hands
    BY <1>8, <1>9
  <2> QED
    BY <2>1, <1>1
<1>11. laneWorker' \in [Lanes -> Workers \union {None}]
  BY <1>1 DEF TypeOK
<1>12. \A n \in st : \E v \in Workers : v \in DOMAIN steal /\ cur'[v].task = n
  BY <1>2, <1>8 DEF Stolen
<1>13. InHand' = InHand \union st
  <2>1. 0 \notin TaskIds /\ Queued \subseteq TaskIds
    BY TaskFacts
  <2>2. ASSUME NEW n \in InHand PROVE n \in InHand'
    <3>1. PICK v \in Workers : cur[v] # Free /\ cur[v].task = n
      BY <2>2, HolderOf
    <3>2. v \notin DOMAIN steal
      BY <3>1, <1>8
    <3>3. cur'[v].task = n
      BY <3>1, <3>2, <1>9
    <3> QED
      BY <2>2, <3>3 DEF InHand, TasksIn
  <2>3. ASSUME NEW v \in Workers PROVE cur'[v].task \in st \/ cur'[v].task = cur[v].task
    BY <1>8, <1>9
  <2>4. InHand' \subseteq InHand \union st
    BY <2>3 DEF InHand, TasksIn
  <2>5. st \subseteq InHand'
    BY <2>1, <1>3, <1>12 DEF InHand, TasksIn
  <2> QED
    BY <2>2, <2>4, <2>5
<1>14. Placed'
  <2>1. QueueDistinct'
    BY <1>5 DEF QueueDistinct
  <2>2. QueuesApart'
    <3>1. \A v \in Workers : ToSet(jobs'[v]) \subseteq ToSet(jobs[v])
      BY <1>5
    <3> QED
      BY <3>1 DEF Placed, QueuesApart
  <2>3. ASSUME NEW v \in Workers, NEW w \in Workers, v # w, cur'[v].task = cur'[w].task
        PROVE  cur'[v].task = 0
    <3>1. CASE v \in DOMAIN steal /\ w \in DOMAIN steal
      BY <3>1, <2>3, <1>8 DEF Placed, QueuesApart
    <3>2. CASE v \in DOMAIN steal /\ w \notin DOMAIN steal
      <4>1. cur'[v].task \in Queued /\ cur'[v].task \in TaskIds /\ cur'[w].task = cur[w].task
        BY <3>2, <1>3, <1>8, <1>9
      <4>2. cur[w].task # 0 => cur[w].task \in InHand
        BY DEF InHand, TasksIn
      <4> QED
        BY <4>1, <4>2, <2>3 DEF Placed, HandsApart
    <3>3. CASE v \notin DOMAIN steal /\ w \in DOMAIN steal
      <4>1. cur'[w].task \in Queued /\ cur'[w].task \in TaskIds /\ cur'[v].task = cur[v].task
        BY <3>3, <1>3, <1>8, <1>9
      <4>2. cur[v].task # 0 => cur[v].task \in InHand
        BY DEF InHand, TasksIn
      <4> QED
        BY <4>1, <4>2, <2>3 DEF Placed, HandsApart
    <3>4. CASE v \notin DOMAIN steal /\ w \notin DOMAIN steal
      BY <3>4, <2>3, <1>9 DEF Placed, HandsApart
    <3> QED
      BY <3>1, <3>2, <3>3, <3>4
  <2>4. HandsApart'
    <3>1. (InHand \intersect Queued)' = {}
      BY <1>6, <1>13 DEF Placed, HandsApart
    <3> QED
      BY <3>1, <2>3 DEF HandsApart
  <2>5. HandlersApart'
    <3>1. (InHand \union Queued)' \subseteq InHand \union Queued
      BY <1>3, <1>6, <1>13
    <3>2. \A h \in Handlers : handler'[h].op = "enqueue" => handler'[h] = handler[h]
      BY DEF Idle
    <3> QED
      BY <3>1, <3>2 DEF Placed, HandlersApart
  <2> QED
    BY <2>1, <2>2, <2>4, <2>5 DEF Placed
<1>15. SessionPendingExact'
  <2>1. dr \subseteq InHand \union Queued
    BY <1>4
  <2>2. (InHand \union Queued)' = (InHand \union Queued) \ dr
    BY <1>3, <1>4, <1>6, <1>13 DEF Placed, HandsApart
  <2>3. \A s \in Sessions :
          sessionPending'[s] = DecrementSessionPending(s, Cardinality({n \in dr : Session(n) = s}))
    BY <1>1
  <2> QED
    BY <2>1, <2>2, <2>3, CountAfter
<1>16. sessionPending' \in [Sessions -> Nat]
  <2>1. ASSUME NEW s \in Sessions
        PROVE  DecrementSessionPending(s, Cardinality({n \in dr : Session(n) = s})) \in Nat
    <3> DEFINE G == {n \in dr : Session(n) = s}
    <3>1. G \in SUBSET (InHand \union Queued)
      BY <1>4
    <3>2. IsFiniteSet(InHand \union Queued)
      BY TaskFacts
    <3>3. sessionPending[s] \in Nat
      BY DEF TypeOK
    <3> HIDE DEF G
    <3>4. IsFiniteSet(G)
      BY <3>1, <3>2, FS_Subset
    <3>5. Cardinality(G) \in Nat
      BY <3>4, FS_CardinalityType
    <3>6. DecrementSessionPending(s, Cardinality(G)) \in Nat
      BY <3>3, <3>5 DEF DecrementSessionPending
    <3> QED
      BY <3>6 DEF G
  <2> QED
    BY <2>1, <1>1
<1>17. SplitTold' /\ split \subseteq split'
  BY <1>1, <1>10, <1>14, SplitNoted DEF Placed, HandsApart
<1>18. NoneStranded'
  <2> SUFFICES ASSUME NEW p \in tracked \ overtaken'
               PROVE  \/ \E n \in Queued' : pkt[n] = p
                      \/ \E w \in Workers : cur'[w] # Free /\ cur'[w].phase # "ending" /\ pkt[cur'[w].task] = p
                      \/ \E h \in Handlers : handler'[h].op \in {"enqueue", "refused"} /\ pkt[handler'[h].task] = p
    BY DEF NoneStranded, At
  <2>1. p \in tracked \ overtaken /\ LaneOf[p] \notin gone
    BY <1>1 DEF PacketsOf, TypeOK
  <2>2. CASE \E n \in Queued : pkt[n] = p
    <3>1. PICK n \in Queued : pkt[n] = p
      BY <2>2
    <3>2. n \notin dr
      BY <3>1, <2>1, <1>4 DEF Lane
    <3>3. CASE n \in st
      <4>1. PICK v \in Workers : v \in DOMAIN steal /\ cur'[v].task = n
        BY <3>3, <1>12
      <4>2. cur'[v] # Free /\ cur'[v].phase = "taken"
        BY <4>1, <1>8
      <4> QED
        BY <3>1, <4>1, <4>2
    <3>4. CASE n \notin st
      BY <3>1, <3>2, <3>4, <1>6
    <3> QED
      BY <3>3, <3>4
  <2>3. CASE \E w \in Workers : cur[w] # Free /\ ~ At(w, {"ending"}) /\ pkt[cur[w].task] = p
    <3>1. PICK w \in Workers : cur[w] # Free /\ cur[w].phase # "ending" /\ pkt[cur[w].task] = p
      BY <2>3 DEF At
    <3>2. w \notin DOMAIN steal
      BY <3>1, <1>8
    <3>3. cur'[w] # Free /\ cur'[w].phase # "ending" /\ cur'[w].task = cur[w].task
      BY <3>1, <3>2, <1>9
    <3> QED
      BY <3>1, <3>3
  <2>4. CASE \E h \in Handlers : handler[h].op \in {"enqueue", "refused"} /\ pkt[handler[h].task] = p
    BY <2>4
  <2> QED
    BY <2>1, <2>2, <2>3, <2>4 DEF NoneStranded
<1>19. \A n \in Queued' : n \in Queued /\ Lane(n) \notin gone
  BY <1>4, <1>6
<1>20. KeepsOrTakes(hands)
  BY <1>3, <1>8, <1>9 DEF KeepsOrTakes
<1> QED
  BY <1>1, <1>7, <1>10, <1>11, <1>13, <1>14, <1>15, <1>16, <1>17, <1>18, <1>19, <1>20

\* A removal has the tasks in hand of its lanes in removed, their contexts cancelled
\* if they had any, and their packets forgotten unless they were tracked anew.
LEMMA RemoveTasksStep ==
  ASSUME IInv, NEW h \in Handlers, handler[h].op \in {"removeLane", "removeSession"},
         NEW lanes \in SUBSET Lanes, NEW marked \in SUBSET lanes, RemoveTasks(lanes, marked),
         handler' = [handler EXCEPT ![h] = Idle], UNCHANGED <<tracked, pkt>>
  PROVE  IInv'
<1> USE DEF IInv
<1>1. /\ ctxDone' = ctxDone \union ({running[l] : l \in lanes} \ {0})
      /\ running' = [l \in Lanes |-> IF l \in lanes THEN 0 ELSE running[l]]
      /\ cancelled' = cancelled \union marked
      /\ removed' = removed \union {n \in TasksIn(cur') : Lane(n) \in lanes}
  BY DEF RemoveTasks, CancelRunning
<1>2. PICK steal \in Steals : Compact(lanes, cur, steal)
  BY DEF RemoveTasks
<1>3. cur \in [Workers -> Hands] /\ TaskIds' = TaskIds /\ Hands' = Hands /\ HandlerStates' = HandlerStates
  BY DEF TypeOK, TaskIds, Hands, HandlerStates
<1>4. \A g \in Handlers : handler'[g] = IF g = h THEN Idle ELSE handler[g]
  BY DEF TypeOK
<1>5. \A g \in Handlers : handler[g] # handler'[g] =>
         handler[g].op \notin {"enqueue", "refused"} /\ handler'[g] = Idle
  BY <1>4
<1>6. /\ jobs' \in [Workers -> Seq(TaskIds)] /\ cur' \in [Workers -> Hands]
      /\ laneWorker' \in [Lanes -> Workers \union {None}] /\ sessionPending' \in [Sessions -> Nat]
      /\ Placed' /\ SessionPendingExact' /\ NoneStranded' /\ SplitTold'
      /\ split \subseteq split' /\ overtaken' = overtaken \union (PacketsOf(lanes) \intersect tracked)
      /\ InHand \subseteq InHand'
      /\ \A n \in Queued' : n \in Queued /\ Lane(n) \notin lanes
      /\ \A v \in Workers : \/ cur'[v] = cur[v]
                            \/ /\ cur'[v].phase = "taken" /\ cur'[v].task \in Queued
                               /\ cur'[v] # Free
  <2>1. PICK hs : hs = cur
    OBVIOUS
  <2>2. Compact(lanes, hs, steal)
    BY <1>2, <2>1 DEF Compact
  <2>3. /\ hs \in [Workers -> Hands]
        /\ \A v \in Workers : /\ hs[v].task = cur[v].task /\ (hs[v] = Free <=> cur[v] = Free)
                              /\ hs[v].phase = "ending" => cur[v].phase = "ending"
    BY <1>3, <2>1
  <2>4. cancelled' = cancelled \union marked
    BY <1>1
  <2>5. /\ jobs' \in [Workers -> Seq(TaskIds)] /\ cur' \in [Workers -> Hands]
        /\ laneWorker' \in [Lanes -> Workers \union {None}] /\ sessionPending' \in [Sessions -> Nat]
        /\ Placed' /\ SessionPendingExact' /\ NoneStranded' /\ SplitTold'
        /\ split \subseteq split' /\ overtaken' = overtaken \union (PacketsOf(lanes) \intersect tracked)
        /\ InHand \subseteq InHand'
        /\ \A n \in Queued' : n \in Queued /\ Lane(n) \notin lanes
        /\ KeepsOrTakes(hs)
    BY <1>5, <2>2, <2>3, <2>4, CompactFacts
  <2> QED
    BY <2>1, <2>5 DEF KeepsOrTakes
<1>7. running \in [Lanes -> TaskIds \union {0}] /\ running' \in [Lanes -> TaskIds \union {0}]
  BY <1>1 DEF TypeOK
<1>8. TypeOK'
  <2>1. handler' \in [Handlers -> HandlerStates]
    BY DEF TypeOK, HandlerStates
  <2>2. cancelled' \subseteq Lanes
    BY <1>1 DEF TypeOK
  <2> QED
    BY <2>1, <2>2, <1>3, <1>6, <1>7 DEF TypeOK
<1>9. \A l \in Lanes : running'[l] = IF l \in lanes THEN 0 ELSE running[l]
  BY <1>1
<1>10. \A l \in Lanes : running[l] # 0 => running[l] \in InHand /\ Lane(running[l]) = l
  BY DEF Contexts, AboutHands
<1>11. removed' = removed \union {n \in InHand' : Lane(n) \in lanes}
  BY <1>1 DEF InHand
<1>12. AboutHands'
  <2>1. ctxDone' \subseteq InHand' /\ removed' \subseteq InHand'
    BY <1>1, <1>6, <1>10, <1>11 DEF Contexts, AboutHands
  <2>2. \A l \in Lanes : running'[l] # 0 => running'[l] \in InHand' /\ Lane(running'[l]) = l
    BY <1>6, <1>9, <1>10
  <2> QED
    BY <2>1, <2>2 DEF AboutHands, Lane
<1>13. ASSUME NEW v \in Workers, cur'[v] # Free
       PROVE  cur'[v].task \in TaskIds /\ cur'[v].task \in InHand'
  <2>1. cur'[v].task \in TaskIds
    BY <1>6, <1>13 DEF Hands
  <2> QED
    BY <2>1, TaskFacts DEF InHand, TasksIn
<1>14. ASSUME NEW v \in Workers, cur'[v].phase \in Phases PROVE cur'[v] # Free
  BY <1>14 DEF Free, Phases
<1>15. ASSUME NEW v \in Workers, cur'[v].phase \in Phases, Lane(cur'[v].task) \in lanes
       PROVE  cur'[v].task \in removed'
  BY <1>11, <1>13, <1>14, <1>15
<1>16. Marked'
  <2>1. \A n \in Queued' : Lane(n) \notin cancelled'
    BY <1>1, <1>6 DEF Contexts, Marked
  <2>2. ASSUME NEW v \in Workers, cur'[v].phase = "taken", Lane(cur'[v].task) \in cancelled'
        PROVE  cur'[v].task \in removed' \/ Lane(cur'[v].task) \in split'
    <3>1. CASE Lane(cur'[v].task) \in lanes
      BY <2>2, <3>1, <1>15 DEF Phases
    <3>2. CASE Lane(cur'[v].task) \notin lanes
      <4>1. Lane(cur'[v].task) \in cancelled
        BY <2>2, <3>2, <1>1
      <4>2. cur'[v] = cur[v]
        BY <4>1, <1>6 DEF Contexts, Marked
      <4> QED
        BY <4>1, <4>2, <2>2, <1>6, <1>11 DEF Contexts, Marked, At
    <3> QED
      BY <3>1, <3>2
  <2> QED
    BY <2>1, <2>2 DEF Marked, At, Lane
<1>17. \A v \in Workers : cur'[v].phase \in {"begun", "running"} => cur'[v] = cur[v]
  BY <1>6
<1>18. RunningKnown'
  <2> SUFFICES ASSUME NEW v \in Workers, cur[v].phase \in {"begun", "running"}, cur'[v] = cur[v],
                      Lane(cur[v].task) \notin split'
               PROVE  cur[v].task \in ctxDone' \/ running'[Lane(cur[v].task)] = cur[v].task
    BY <1>17 DEF RunningKnown, At, Lane
  <2>1. cur[v] # Free
    BY DEF Free
  <2>2. cur[v].task # 0 /\ Lane(cur[v].task) \in Lanes
    BY <2>1, HandFacts, TaskFacts
  <2>3. cur[v].task \in ctxDone \/ running[Lane(cur[v].task)] = cur[v].task
    BY <1>6 DEF Contexts, RunningKnown, At
  <2> QED
    BY <2>2, <2>3, <1>1, <1>9
<1>19. Alive'
  <2> SUFFICES ASSUME NEW v \in Workers, cur'[v].phase \in {"taken", "begun", "running"},
                      cur'[v].task \notin removed', Lane(cur'[v].task) \notin split'
               PROVE  cur'[v].task \notin ctxDone'
    BY DEF Alive, At, Lane
  <2>1. Lane(cur'[v].task) \notin lanes
    BY <1>15 DEF Phases
  <2>2. cur'[v].task \notin {running[l] : l \in lanes} \ {0}
    BY <2>1, <1>10
  <2>3. CASE cur'[v] = cur[v]
    BY <2>2, <2>3, <1>1, <1>6 DEF Contexts, Alive, At
  <2>4. CASE cur'[v].task \in Queued
    BY <2>2, <2>4, <1>1 DEF Contexts, AboutHands, Placed, HandsApart
  <2> QED
    BY <2>3, <2>4, <1>6
<1>20. WillStop'
  <2> SUFFICES ASSUME NEW v \in Workers, cur'[v].phase \in {"taken", "begun", "running"},
                      cur'[v].task \in removed', Lane(cur'[v].task) \notin split'
               PROVE  \/ cur'[v].task \in ctxDone' \/ Redispatched(cur'[v].task)
                      \/ pkt[cur'[v].task] \in overtaken'
                      \/ pkt[cur'[v].task] \notin tracked /\ cur'[v].phase # "running"
    BY DEF WillStop, At, Lane, Redispatched
  <2>1. CASE Lane(cur'[v].task) \in lanes
    <3>1. cur'[v] # Free
      BY <1>14 DEF Phases
    <3>2. pkt[cur'[v].task] \in PacketsOf(lanes)
      BY <2>1, <3>1, <1>13, TaskFacts DEF PacketsOf, Lane
    <3>3. pkt[cur'[v].task] \notin tracked \/ pkt[cur'[v].task] \in overtaken'
      BY <3>2, <1>6
    <3>4. ASSUME cur'[v].phase = "running" PROVE cur'[v].task \in ctxDone'
      <4>1. cur'[v] = cur[v] /\ cur[v].phase = "running"
        BY <3>4, <1>17
      <4>2. cur[v].task \in ctxDone \/ running[Lane(cur[v].task)] = cur[v].task
        BY <4>1, <1>6 DEF Contexts, RunningKnown, At
      <4>3. cur[v].task # 0
        BY <4>1, <3>1, HandFacts
      <4> QED
        BY <4>1, <4>2, <4>3, <2>1, <1>1
    <3> QED
      BY <3>3, <3>4
  <2>2. CASE Lane(cur'[v].task) \notin lanes
    <3>1. cur'[v].task \in removed
      BY <2>2, <1>11
    <3>2. cur'[v] = cur[v]
      BY <3>1, <1>6 DEF Contexts, AboutHands, Placed, HandsApart
    <3> QED
      BY <3>1, <3>2, <1>1, <1>6 DEF Contexts, WillStop, At
  <2> QED
    BY <2>1, <2>2
<1> QED
  BY <1>6, <1>8, <1>12, <1>16, <1>18, <1>19, <1>20 DEF Contexts

LEMMA FinalizeLaneStep ==
  ASSUME IInv, NEW w \in Workers, FinalizeLane(w)
  PROVE  IInv'
<1> USE DEF IInv
<1> DEFINE n == cur[w].task
           l == Lane(n)
           gone == {l}
           hands == Goto(w, "returning")
<1>1. /\ At(w, {"finalizing"}) /\ cancelled' = cancelled \union gone
      /\ UNCHANGED <<tracked, handler, running, pkt, ctxDone, removed>>
  BY DEF FinalizeLane
<1>2. PICK steal \in Steals : Compact(gone, hands, steal)
  BY DEF FinalizeLane
<1>3. cur[w] # Free /\ n \in TaskIds /\ n \in InHand
  BY <1>1, BusyHas DEF Phases
<1>4. gone \in SUBSET Lanes
  BY <1>3, TaskFacts
<1>5. /\ hands \in [Workers -> Hands] /\ hands[w].phase = "returning" /\ hands[w] # Free
      /\ \A v \in Workers : hands[v].task = cur[v].task /\ (hands[v] = Free <=> cur[v] = Free)
      /\ \A v \in Workers : v # w => hands[v] = cur[v]
  <2>1. "returning" \in Phases
    BY DEF Phases
  <2> QED
    BY <2>1, <1>3, GotoFacts
<1>6. Lane(n) = l /\ gone = {l} /\ cur[w].task = n
  OBVIOUS
<1>7. TaskIds' = TaskIds /\ Hands' = Hands /\ HandlerStates' = HandlerStates
  BY <1>1 DEF TaskIds, Hands, HandlerStates
<1>8. \A v \in Workers : hands[v].phase = "ending" => cur[v].phase = "ending"
  BY <1>5
<1> HIDE DEF n, l, gone, hands
<1>9. /\ jobs' \in [Workers -> Seq(TaskIds)] /\ cur' \in [Workers -> Hands]
      /\ laneWorker' \in [Lanes -> Workers \union {None}] /\ sessionPending' \in [Sessions -> Nat]
      /\ Placed' /\ SessionPendingExact' /\ NoneStranded' /\ SplitTold'
      /\ split \subseteq split' /\ overtaken' = overtaken \union (PacketsOf(gone) \intersect tracked)
      /\ InHand \subseteq InHand'
      /\ \A m \in Queued' : m \in Queued /\ Lane(m) \notin gone
      /\ \A v \in Workers : \/ cur'[v] = hands[v]
                            \/ /\ cur'[v].phase = "taken" /\ cur'[v].task \in Queued
                               /\ cur'[v] # Free
  <2>1. PICK hs : hs = hands
    OBVIOUS
  <2>2. PICK gs : gs = gone
    OBVIOUS
  <2>3. Compact(gs, hs, steal)
    BY <1>2, <2>1, <2>2 DEF Compact
  <2>4. /\ hs \in [Workers -> Hands] /\ gs \in SUBSET Lanes /\ gs \in SUBSET gs
        /\ \A v \in Workers : /\ hs[v].task = cur[v].task /\ (hs[v] = Free <=> cur[v] = Free)
                              /\ hs[v].phase = "ending" => cur[v].phase = "ending"
    BY <1>4, <1>5, <1>8, <2>1, <2>2
  <2>5. cancelled' = cancelled \union gs /\ UNCHANGED <<tracked, pkt>>
    BY <1>1, <2>2
  <2>6. \A h \in Handlers : handler[h] # handler'[h] =>
          handler[h].op \notin {"enqueue", "refused"} /\ handler'[h] = Idle
    BY <1>1
  <2>7. /\ jobs' \in [Workers -> Seq(TaskIds)] /\ cur' \in [Workers -> Hands]
        /\ laneWorker' \in [Lanes -> Workers \union {None}] /\ sessionPending' \in [Sessions -> Nat]
        /\ Placed' /\ SessionPendingExact' /\ NoneStranded' /\ SplitTold'
        /\ split \subseteq split' /\ overtaken' = overtaken \union (PacketsOf(gs) \intersect tracked)
        /\ InHand \subseteq InHand'
        /\ \A m \in Queued' : m \in Queued /\ Lane(m) \notin gs
        /\ KeepsOrTakes(hs)
    BY <2>3, <2>4, <2>5, <2>6, CompactFacts
  <2> QED
    BY <2>1, <2>2, <2>7 DEF KeepsOrTakes
<1>10. TypeOK'
  <2>1. cancelled' \subseteq Lanes
    BY <1>1, <1>4 DEF TypeOK
  <2> QED
    BY <2>1, <1>1, <1>7, <1>9 DEF TypeOK
<1>11. AboutHands'
  BY <1>1, <1>9 DEF Contexts, AboutHands, Lane
<1>12. cur'[w] # Free /\ cur'[w].task = n /\ cur'[w].phase = "returning"
  <2>1. n \notin Queued
    BY <1>3 DEF Placed, HandsApart
  <2>2. cur'[w] = hands[w]
    <3>1. hands[w].task = n
      BY <1>5, <1>6
    <3>2. ASSUME cur'[w].task \in Queued, cur'[w].phase = "taken" PROVE FALSE
      <4>1. n # 0 /\ n \in InHand'
        BY <1>3, <1>9, TaskFacts
      <4>2. PICK v \in Workers : cur'[v].task = n
        BY <4>1 DEF InHand, TasksIn
      <4>3. cur'[v] = hands[v]
        BY <4>2, <2>1, <1>9
      <4>4. hands[v].task = n /\ v # w
        BY <4>2, <4>3, <3>2, <2>1
      <4> QED
        BY <4>1, <4>4, <1>5, <1>6 DEF Placed, HandsApart
    <3> QED
      BY <3>2, <1>9
  <2> QED
    BY <2>2, <1>5, <1>6
<1>13. ASSUME NEW v \in Workers, cur'[v].phase \in {"taken", "begun", "running"}
       PROVE  v # w /\ cur'[v] # Free /\ (cur'[v] = cur[v] \/ (cur'[v].phase = "taken" /\ cur'[v].task \in Queued))
  BY <1>5, <1>9, <1>12, <1>13 DEF Free
<1>14. Marked'
  <2>1. \A m \in Queued' : Lane(m) \notin cancelled'
    BY <1>1, <1>9 DEF Contexts, Marked
  <2>2. ASSUME NEW v \in Workers, cur'[v].phase = "taken", Lane(cur'[v].task) \in cancelled'
        PROVE  cur'[v].task \in removed \/ Lane(cur'[v].task) \in split'
    <3>1. CASE Lane(cur'[v].task) = l
      <4>1. v # w /\ cur'[v] # Free
        BY <2>2, <1>13
      <4>2. Lane(cur'[v].task) = Lane(cur'[w].task)
        BY <3>1, <1>6, <1>12
      <4> QED
        BY <4>1, <4>2, <1>1, <1>9, <1>12 DEF SplitTold, Lane
    <3>2. CASE Lane(cur'[v].task) # l
      <4>1. Lane(cur'[v].task) \in cancelled
        BY <2>2, <3>2, <1>1, <1>6
      <4>2. cur'[v] = cur[v]
        BY <4>1, <2>2, <1>13 DEF Contexts, Marked
      <4> QED
        BY <4>1, <4>2, <2>2, <1>9 DEF Contexts, Marked, At
    <3> QED
      BY <3>1, <3>2
  <2> QED
    BY <2>1, <2>2, <1>1 DEF Marked, At, Lane
<1>15. RunningKnown'
  <2> SUFFICES ASSUME NEW v \in Workers, cur'[v].phase \in {"begun", "running"},
                      Lane(cur'[v].task) \notin split'
               PROVE  cur'[v].task \in ctxDone \/ running[Lane(cur'[v].task)] = cur'[v].task
    BY <1>1 DEF RunningKnown, At, Lane
  <2>1. cur'[v] = cur[v]
    BY <1>13
  <2> QED
    BY <2>1, <1>9 DEF Contexts, RunningKnown, At
<1>16. Alive'
  <2> SUFFICES ASSUME NEW v \in Workers, cur'[v].phase \in {"taken", "begun", "running"},
                      cur'[v].task \notin removed, Lane(cur'[v].task) \notin split'
               PROVE  cur'[v].task \notin ctxDone
    BY <1>1 DEF Alive, At, Lane
  <2>1. CASE cur'[v] = cur[v]
    BY <2>1, <1>9 DEF Contexts, Alive, At
  <2>2. CASE cur'[v].task \in Queued
    BY <2>2 DEF Contexts, AboutHands, Placed, HandsApart
  <2> QED
    BY <2>1, <2>2, <1>13
<1>17. WillStop'
  <2> SUFFICES ASSUME NEW v \in Workers, cur'[v].phase \in {"taken", "begun", "running"},
                      cur'[v].task \in removed, Lane(cur'[v].task) \notin split'
               PROVE  \/ cur'[v].task \in ctxDone \/ Redispatched(cur'[v].task)
                      \/ pkt[cur'[v].task] \in overtaken'
                      \/ pkt[cur'[v].task] \notin tracked /\ cur'[v].phase # "running"
    BY <1>1 DEF WillStop, At, Lane, Redispatched
  <2>1. cur'[v] = cur[v]
    BY <1>13 DEF Contexts, AboutHands, Placed, HandsApart
  <2> QED
    BY <2>1, <1>9 DEF Contexts, WillStop, At
<1> QED
  BY <1>9, <1>10, <1>11, <1>14, <1>15, <1>16, <1>17 DEF Contexts

-----------------------------------------------------------------------------
(* The theorems.                                                             *)

\* The two steps that begin a removal.
LEMMA StartRemoveStep ==
  ASSUME IInv, NEW h \in Handlers,
         \/ \E l \in Lanes : StartRemoveLane(h, l)
         \/ \E s \in Sessions : StartRemoveSession(h, s)
  PROVE  IInv'
<1>1. ASSUME NEW l \in Lanes, StartRemoveLane(h, l) PROVE IInv'
  <2> DEFINE r == [op |-> "removeLane", lane |-> l]
  <2>1. r \in HandlerStates /\ r.op = "removeLane"
    BY DEF HandlerStates
  <2>2. /\ handler[h] = Idle /\ tracked' \subseteq tracked /\ handler' = [handler EXCEPT ![h] = r]
        /\ UNCHANGED <<jobs, cur, processor, pkt, ctxDone, history>>
    BY <1>1 DEF StartRemoveLane, ClearDeferredInflight
  <2> HIDE DEF r
  <2> QED
    BY <2>1, <2>2, StartRemovalStep
<1>2. ASSUME NEW s \in Sessions, StartRemoveSession(h, s) PROVE IInv'
  <2> DEFINE r == [op |-> "removeSession", session |-> s]
  <2>1. r \in HandlerStates /\ r.op = "removeSession"
    BY DEF HandlerStates
  <2>2. /\ handler[h] = Idle /\ tracked' \subseteq tracked /\ handler' = [handler EXCEPT ![h] = r]
        /\ UNCHANGED <<jobs, cur, processor, pkt, ctxDone, history>>
    BY <1>2 DEF StartRemoveSession, ClearDeferredInflight
  <2> HIDE DEF r
  <2> QED
    BY <2>1, <2>2, StartRemovalStep
<1> QED
  BY <1>1, <1>2

LEMMA RemoveLaneStep ==
  ASSUME IInv, NEW h \in Handlers, RemoveLane(h)
  PROVE  IInv'
<1>1. handler[h].op = "removeLane" /\ handler' = [handler EXCEPT ![h] = Idle] /\ UNCHANGED <<tracked, pkt>>
  BY DEF RemoveLane
<1>2. PICK lanes : lanes = {handler[h].lane}
  OBVIOUS
<1>3. lanes \in SUBSET Lanes /\ lanes \in SUBSET lanes
  BY <1>1, <1>2, HandlerFacts DEF IInv
<1>4. RemoveTasks(lanes, lanes)
  BY <1>2 DEF RemoveLane
<1> QED
  BY <1>1, <1>3, <1>4, RemoveTasksStep

LEMMA RemoveSessionStep ==
  ASSUME IInv, NEW h \in Handlers, RemoveSession(h)
  PROVE  IInv'
<1>1. handler[h].op = "removeSession" /\ handler' = [handler EXCEPT ![h] = Idle] /\ UNCHANGED <<tracked, pkt>>
  BY DEF RemoveSession
<1>2. PICK lanes : lanes = LanesOfSession(handler[h].session)
  OBVIOUS
<1>3. PICK marked : marked = {l \in lanes : laneWorker[l] # None}
  OBVIOUS
<1>4. lanes \in SUBSET Lanes /\ marked \in SUBSET lanes
  BY <1>2, <1>3 DEF LanesOfSession
<1>5. RemoveTasks(lanes, marked)
  BY <1>2, <1>3 DEF RemoveSession
<1> QED
  BY <1>1, <1>4, <1>5, RemoveTasksStep

LEMMA WorkerGoesOnStep ==
  ASSUME IInv, NEW w \in Workers, Run(w) \/ Answer(w) \/ Return(w)
  PROVE  IInv'
<1>1. CASE Run(w)
  <2>1. cur[w] # Free /\ cur[w].phase = "begun"
    BY <1>1, BusyHas DEF Run, At, IInv, Phases
  <2>2. "running" \in Phases \ {"taken", "begun"}
    BY DEF Phases
  <2>3. /\ cur' = Goto(w, "running") /\ pkt[cur[w].task] \in tracked /\ tracked' = tracked
        /\ UNCHANGED <<handler, jobs, processor, pkt, ctxDone, history>>
    BY <1>1 DEF Run
  <2> QED
    BY <2>1, <2>2, <2>3, GoesOnStep
<1>2. CASE Answer(w)
  <2>1. cur[w] # Free /\ cur[w].phase = "running"
    BY <1>2, BusyHas DEF Answer, At, IInv, Phases
  <2>2. "finalizing" \in Phases \ {"taken", "begun"}
    BY DEF Phases
  <2>3. /\ cur' = Goto(w, "finalizing") /\ tracked' \subseteq tracked
        /\ UNCHANGED <<handler, jobs, processor, pkt, ctxDone, history>>
    BY <1>2 DEF Answer, ClearDeferredInflight
  <2> QED
    BY <2>1, <2>2, <2>3, GoesOnStep
<1>3. CASE Return(w)
  <2>1. cur[w] # Free
    BY <1>3, BusyHas DEF Return, At, IInv, Phases
  <2>2. "ending" \in Phases \ {"taken", "begun"}
    BY DEF Phases
  <2>3. /\ cur' = Goto(w, "ending") /\ tracked' = tracked \ {pkt[cur[w].task]}
        /\ UNCHANGED <<handler, jobs, processor, pkt, ctxDone, history>>
    BY <1>3 DEF Return
  <2> QED
    BY <2>1, <2>2, <2>3, GoesOnStep
<1> QED
  BY <1>1, <1>2, <1>3

LEMMA StutterStep ==
  ASSUME IInv, UNCHANGED vars PROVE IInv'
<1> USE DEF IInv
<1>1. /\ UNCHANGED <<tracked, handler, jobs, cur, processor, pkt, ctxDone, history>>
      /\ UNCHANGED <<laneWorker, cancelled, running, sessionPending>>
      /\ UNCHANGED <<removed, overtaken, split>>
  BY DEF vars, processor, history
<1>2. TypeOK'
  BY <1>1 DEF TypeOK, TaskIds, Hands, HandlerStates
<1>3. Placed' /\ InHand' = InHand /\ Queued' = Queued
  BY <1>1, SamePlaces
<1>4. SessionPendingExact'
  BY <1>1, <1>3, SameCount
<1>5. NoneStranded'
  BY <1>1, <1>3 DEF NoneStranded, At
<1>6. Contexts'
  BY <1>1, TrackedShrinks
<1> QED
  BY <1>2, <1>3, <1>4, <1>5, <1>6

LEMMA NextIInv == IInv /\ [Next]_vars => IInv'
<1> SUFFICES ASSUME IInv, [Next]_vars PROVE IInv'
  OBVIOUS
<1>1. Dispatchers \subseteq Handlers /\ Removers \subseteq Handlers
  BY DEF Handlers
<1>2. CASE \E h \in Dispatchers, p \in Packets : TryBeginDeferredPacket(h, p)
  BY <1>1, <1>2, TryBeginStep
<1>3. CASE \E h \in Removers, l \in Lanes : StartRemoveLane(h, l)
  BY <1>1, <1>3, StartRemoveStep
<1>4. CASE \E h \in Removers, s \in Sessions : StartRemoveSession(h, s)
  BY <1>1, <1>4, StartRemoveStep
<1>5. CASE \E h \in Handlers : HandlerStep(h)
  BY <1>5, EnqueueStep, FinishRefusedStep, RemoveLaneStep, RemoveSessionStep DEF HandlerStep
<1>6. CASE \E w \in Workers : WorkerStep(w)
  BY <1>6, TakeStep, BeginStep, WorkerGoesOnStep, FinalizeLaneStep, FinishLaneStep DEF WorkerStep
<1>7. CASE UNCHANGED vars
  BY <1>7, StutterStep
<1> QED
  BY <1>2, <1>3, <1>4, <1>5, <1>6, <1>7 DEF Next

\* The inductive invariant holds in every state of the deferred session runtime.
THEOREM Inductive == Spec => []IInv
BY InitIInv, NextIInv, PTL DEF Spec

\* sessionPending, the counter behind the per-session limit of deferred_session.go, is
\* the number of the session's tasks that are queued or in hand.
THEOREM CountExact == Spec => []SessionPendingExact
<1>1. IInv => SessionPendingExact
  BY DEF IInv
<1> QED
  BY <1>1, Inductive, PTL

\* A packet in deferredInflight has a task that will make it forgotten, unless it was
\* tracked between the two steps of a removal.
THEOREM PacketsForgotten == Spec => []NoneStranded
<1>1. IInv => NoneStranded
  BY DEF IInv
<1> QED
  BY <1>1, Inductive, PTL

\* The context of a task whose stream and session stay is not cancelled before its
\* end, except on a lane that two workers have had in hand at once.
THEOREM ContextsKept == Spec => []AliveUnlessSplit
<1>1. IInv => AliveUnlessSplit
  BY DEF IInv, Contexts, Alive, AliveUnlessSplit, At
<1> QED
  BY <1>1, Inductive, PTL

\* RemoveLane and RemoveSession stop the tasks they find in hand: taken ones do not
\* start, running ones have their contexts cancelled, with the exceptions of the property.
THEOREM RemovalsStop == Spec => []RemovedStops
<1>1. IInv => RemovedStops
  BY DEF IInv, Contexts, WillStop, RemovedStops, At
<1> QED
  BY <1>1, Inductive, PTL
=============================================================================
