--------------------------- MODULE EditionsProofs ---------------------------
(***************************************************************************)
(* What TLAPS proves of Editions for every set of pages, feeds, articles,  *)
(* readers and handlers, and every bound.                                  *)
(***************************************************************************)
EXTENDS Editions, TLAPS, FiniteSetTheorems

\* What AddEdition is about to write is a page: not empty, and no larger than
\* it was asked for.
PicksFit ==
    \A w \in Workers : task[w].at = "commit" =>
        task[w].picks # {} /\ Cardinality(task[w].picks) <= EditionSize

HasNewest(s) == \E i \in DOMAIN s : \A j \in DOMAIN s : Newer(s, i, j)

\* A page with editions has a newest one.
NewestExists == \A p \in Pages : editions[p] # <<>> => HasNewest(editions[p])

IInv == TypeOK /\ EditionsStand /\ TurnPicksStand /\ PicksFit /\ NewestExists

(***************************************************************************)
(* The order of editions.                                                  *)
(***************************************************************************)
LEMMA SeqRows ==
    ASSUME NEW s \in Seq(Edition)
    PROVE  /\ Len(s) \in Nat /\ DOMAIN s = 1 .. Len(s)
           /\ \A i \in DOMAIN s : /\ i \in Nat /\ s[i] \in Edition
                                /\ s[i].at \in Nat /\ s[i].articles \subseteq Articles
<1>1. Len(s) \in Nat /\ DOMAIN s = 1 .. Len(s)
  OBVIOUS
<1>2. \A i \in 1 .. Len(s) : i \in Nat /\ s[i] \in Edition
  OBVIOUS
<1>3. \A e \in Edition : e.at \in Nat /\ e.articles \subseteq Articles
  BY DEF Edition
<1>4. QED
  BY <1>1, <1>2, <1>3

\* Nothing but the newest edition comes before every other.
LEMMA NewestUnique ==
    ASSUME NEW s \in Seq(Edition), NEW i \in DOMAIN s,
           \A j \in DOMAIN s : Newer(s, i, j)
    PROVE  Newest(s) = i
<1>1. \E k \in DOMAIN s : \A j \in DOMAIN s : Newer(s, k, j)
  OBVIOUS
<1>2. /\ Newest(s) \in DOMAIN s
      /\ \A j \in DOMAIN s : Newer(s, Newest(s), j)
  BY <1>1 DEF Newest
<1>3. \A k \in DOMAIN s : k \in Nat /\ s[k].at \in Nat
  BY SeqRows
<1>4. Newer(s, i, Newest(s)) /\ Newer(s, Newest(s), i)
  BY <1>2
<1>5. QED
  BY <1>2, <1>3, <1>4 DEF Newer

\* An edition added after the others is the newest, or was stamped before the
\* newest, which then stays so.
LEMMA AppendNewest ==
    ASSUME NEW s \in Seq(Edition), NEW e \in Edition,
           s # <<>> => HasNewest(s)
    PROVE  /\ HasNewest(Append(s, e))
           /\ \/ /\ Newest(Append(s, e)) = Len(s) + 1
                 /\ s # <<>> => e.at >= s[Newest(s)].at
              \/ s # <<>> /\ Newest(Append(s, e)) = Newest(s) /\ Newest(s) \in 1 .. Len(s)
<1> DEFINE t == Append(s, e)
           n == Len(s)
<1>1. /\ t \in Seq(Edition) /\ Len(t) = n + 1 /\ t[n + 1] = e
      /\ \A j \in 1 .. n : t[j] = s[j]
  OBVIOUS
<1>2. /\ n \in Nat /\ DOMAIN s = 1 .. n /\ DOMAIN t = 1 .. n + 1
      /\ \A j \in 1 .. n : s[j].at \in Nat
      /\ e.at \in Nat
  BY <1>1, SeqRows DEF Edition
<1>3. (s = <<>>) <=> (n = 0)
  OBVIOUS
<1> HIDE DEF t, n
<1>4. ASSUME n = 0
      PROVE  HasNewest(t) /\ Newest(t) = n + 1
  <2>1. \A j \in DOMAIN t : Newer(t, n + 1, j)
    BY <1>1, <1>2, <1>4 DEF Newer
  <2>2. n + 1 \in DOMAIN t
    BY <1>2
  <2>3. Newest(t) = n + 1
    BY <2>1, <2>2, <1>1, NewestUnique
  <2>4. QED
    BY <2>1, <2>2, <2>3 DEF HasNewest
<1>5. ASSUME n # 0
      PROVE  /\ HasNewest(t)
             /\ \/ Newest(t) = n + 1 /\ e.at >= s[Newest(s)].at
                \/ Newest(t) = Newest(s) /\ Newest(s) \in 1 .. n
  <2>1. PICK m \in DOMAIN s : \A j \in DOMAIN s : Newer(s, m, j)
    BY <1>3, <1>5 DEF HasNewest
  <2>2. Newest(s) = m
    BY <2>1, NewestUnique
  <2>3. CASE e.at >= s[m].at
    <3>1. \A j \in DOMAIN t : Newer(t, n + 1, j)
      BY <1>1, <1>2, <2>1, <2>3 DEF Newer
    <3>2. n + 1 \in DOMAIN t
      BY <1>2
    <3>3. Newest(t) = n + 1
      BY <3>1, <3>2, <1>1, NewestUnique
    <3>4. QED
      BY <3>1, <3>2, <3>3, <2>2, <2>3 DEF HasNewest
  <2>4. CASE ~(e.at >= s[m].at)
    <3>1. \A j \in DOMAIN t : Newer(t, m, j)
      BY <1>1, <1>2, <2>1, <2>4 DEF Newer
    <3>2. m \in DOMAIN t /\ m \in 1 .. n
      BY <1>2, <2>1
    <3>3. Newest(t) = m
      BY <3>1, <3>2, <1>1, NewestUnique
    <3>4. QED
      BY <3>1, <3>2, <3>3, <2>2 DEF HasNewest
  <2>5. QED
    BY <2>3, <2>4
<1>6. QED
  BY <1>3, <1>4, <1>5 DEF t, n

\* The newest edition of a page is one of its editions.
LEMMA CurrentIsEdition ==
    ASSUME IInv, NEW p \in Pages, editions[p] # <<>>
    PROVE  /\ Newest(editions[p]) \in DOMAIN editions[p]
           /\ Current(p) \in Edition
           /\ Current(p).articles \subseteq items
           /\ Live(p) = Current(p).articles
<1>1. editions[p] \in Seq(Edition)
  BY DEF IInv, TypeOK
<1>2. PICK m \in DOMAIN editions[p] : \A j \in DOMAIN editions[p] : Newer(editions[p], m, j)
  BY DEF IInv, NewestExists, HasNewest
<1>3. Newest(editions[p]) = m
  BY <1>1, <1>2, NewestUnique
<1>4. Current(p) \in Edition /\ Current(p).articles \subseteq items
  BY <1>1, <1>3 DEF Current, IInv, EditionsStand
<1>5. QED
  BY <1>3, <1>4 DEF Live

(***************************************************************************)
(* Type correctness, one step per action.                                  *)
(***************************************************************************)
\* What an action does to the task of one worker.
LEMMA TaskSet ==
    ASSUME TypeOK, NEW w \in Workers, NEW k \in Task, Formed(k),
           task' = [task EXCEPT ![w] = k]
    PROVE  /\ task' \in [Workers -> Task]
           /\ \A v \in Workers : Formed(task'[v])
           /\ task'[w] = k
           /\ \A v \in Workers \ {w} : task'[v] = task[v]
BY DEF TypeOK

LEMMA TaskFields ==
    ASSUME TypeOK, NEW w \in Workers
    PROVE  /\ task[w].op \in {"none", "turn", "reroll", "patch"}
           /\ task[w].at \in {"idle", "release", "delete", "read", "queues",
                              "commit", "clock", "drop"}
           /\ task[w].page \in Pages \cup {None}
           /\ task[w].from \in SUBSET Feeds
           /\ task[w].picks \in SUBSET Articles
           /\ task[w].now \in Nat
           /\ task[w] = [op |-> task[w].op, at |-> task[w].at, page |-> task[w].page,
                         from |-> task[w].from, picks |-> task[w].picks, now |-> task[w].now]
BY DEF TypeOK, Task

LEMMA IdleIsTask == Idle \in Task /\ Idle.at = "idle" /\ Formed(Idle)
BY DEF Idle, Task, Formed

\* Going on changes where a worker is and nothing else it holds.
LEMMA TaskMoved ==
    ASSUME NEW k \in Task,
           NEW at \in {"release", "delete", "read", "queues", "commit", "clock", "drop"}
    PROVE  /\ [k EXCEPT !.at = at] \in Task
           /\ [k EXCEPT !.at = at].at = at
           /\ [k EXCEPT !.at = at].page = k.page
<1>1. [k EXCEPT !.at = at] \in Task
  BY DEF Task
<1>2. [k EXCEPT !.at = at].at = at /\ [k EXCEPT !.at = at].page = k.page
  BY DEF Task
<1>3. QED
  BY <1>1, <1>2

\* A worker given a task that is not a commit breaks nothing a commit rests
\* on, and articles coming in do not either.
LEMMA NewTask ==
    ASSUME IInv, NEW w \in Workers, NEW k \in Task,
           Formed(k), k.at # "commit",
           task' = [task EXCEPT ![w] = k], items \subseteq items'
    PROVE  /\ task' \in [Workers -> Task]
           /\ \A v \in Workers : Formed(task'[v])
           /\ PicksFit' /\ TurnPicksStand'
<1>1. /\ task' \in [Workers -> Task]
      /\ \A v \in Workers : Formed(task'[v])
      /\ task'[w] = k
      /\ \A v \in Workers \ {w} : task'[v] = task[v]
  BY TaskSet DEF IInv
<1>2. PicksFit'
  BY <1>1 DEF IInv, PicksFit
<1>3. TurnPicksStand'
  BY <1>1 DEF IInv, TurnPicksStand, Workers
<1>4. QED
  BY <1>1, <1>2, <1>3

LEMMA MovedTask ==
    ASSUME IInv, NEW w \in Workers,
           NEW at \in {"release", "delete", "read", "queues", "clock", "drop"},
           task[w].at # "idle", Goes(w, at), items \subseteq items'
    PROVE  /\ task' \in [Workers -> Task]
           /\ \A v \in Workers : Formed(task'[v])
           /\ PicksFit' /\ TurnPicksStand'
<1> DEFINE k == [task[w] EXCEPT !.at = at]
<1>1. k \in Task /\ k.at = at /\ k.page = task[w].page
  <2>1. task[w] \in Task
    BY DEF IInv, TypeOK
  <2>2. PICK r \in Task : r = task[w]
    BY <2>1
  <2>3. at \in {"release", "delete", "read", "queues", "commit", "clock", "drop"}
    OBVIOUS
  <2>4. /\ [r EXCEPT !.at = at] \in Task /\ [r EXCEPT !.at = at].at = at
        /\ [r EXCEPT !.at = at].page = r.page
    BY <2>3, TaskMoved
  <2>5. [r EXCEPT !.at = at] = k
    BY <2>2
  <2>6. QED
    BY <2>2, <2>4, <2>5
<1>2. task' = [task EXCEPT ![w] = k]
  BY DEF Goes
<1>3. at # "idle" /\ Idle.at = "idle" /\ at # "commit"
  BY IdleIsTask
<1> HIDE DEF k
<1>4. Formed(k)
  BY <1>1, <1>3 DEF IInv, TypeOK, Formed
<1>5. QED
  BY <1>1, <1>2, <1>3, <1>4, NewTask

LEMMA EndedTask ==
    ASSUME IInv, NEW w \in Workers, Ends(w), items \subseteq items'
    PROVE  /\ task' \in [Workers -> Task]
           /\ \A v \in Workers : Formed(task'[v])
           /\ PicksFit' /\ TurnPicksStand'
<1>1. /\ Idle \in Task /\ Formed(Idle) /\ Idle.at # "commit"
      /\ task' = [task EXCEPT ![w] = Idle]
  BY IdleIsTask DEF Ends
<1>2. QED
  BY <1>1, NewTask

LEMMA SameTask ==
    ASSUME IInv, UNCHANGED task, items \subseteq items'
    PROVE  PicksFit' /\ TurnPicksStand'
BY DEF IInv, PicksFit, TurnPicksStand

LEMMA SameEditions ==
    ASSUME IInv, UNCHANGED editions, items \subseteq items'
    PROVE  EditionsStand' /\ NewestExists'
<1>1. EditionsStand'
  BY DEF IInv, EditionsStand
<1>2. NewestExists'
  BY DEF IInv, NewestExists, HasNewest, Newer
<1>3. QED
  BY <1>1, <1>2

LEMMA NothingTask ==
    ASSUME IInv, NEW w \in Workers, task[w].at # "idle", Nothing(w), items \subseteq items'
    PROVE  /\ task' \in [Workers -> Task]
           /\ \A v \in Workers : Formed(task'[v])
           /\ PicksFit' /\ TurnPicksStand'
<1>1. CASE task[w].op = "patch"
  <2>1. "drop" \in {"release", "delete", "read", "queues", "clock", "drop"}
    OBVIOUS
  <2>2. Goes(w, "drop")
    BY <1>1 DEF Nothing
  <2>3. QED
    BY <2>1, <2>2, MovedTask
<1>2. CASE task[w].op # "patch"
  BY <1>2, EndedTask DEF Nothing
<1>3. QED
  BY <1>1, <1>2

(***************************************************************************)
(* Every step keeps the invariant: one lemma per action or family of them. *)
(***************************************************************************)
LEMMA InitInv == Init => IInv
<1> SUFFICES ASSUME Init PROVE IInv
  OBVIOUS
<1>1. TypeOK
  BY IdleIsTask DEF Init, TypeOK
<1>2. EditionsStand /\ NewestExists
  BY DEF Init, EditionsStand, NewestExists
<1>3. \A w \in Workers : task[w].at # "commit"
  BY IdleIsTask DEF Init
<1>4. PicksFit /\ TurnPicksStand
  BY <1>3 DEF PicksFit, TurnPicksStand, Workers
<1>5. QED
  BY <1>1, <1>2, <1>4 DEF IInv

\* Reading marks, fetches and the clock come between the steps of a compose.
LEMMA AroundInv ==
    ASSUME IInv,
           \/ DuePages \/ Tick
           \/ \E p \in Pages : BecomesDue(p)
           \/ \E r \in Readers : SetRead(r) \/ SetUnread(r) \/ SwitchOff(r) \/ SwitchOn(r)
           \/ \E r \in Readers, f \in Feeds : MarkFeedRead(r, f) \/ UnmarkFeedRead(r, f)
           \/ \E f \in Feeds : SaveItems(f)
    PROVE  IInv'
<1>1. UNCHANGED <<task, editions>> /\ items \subseteq items'
  BY DEF DuePages, Tick, BecomesDue, SetRead, SetUnread, SwitchOff, SwitchOn, MarkFeedRead,
         UnmarkFeedRead, SaveItems, derived
<1>2. TypeOK'
  <2>1. CASE DuePages
    BY <2>1 DEF IInv, TypeOK, DuePages, DueEnabled, main, derived
  <2>2. CASE Tick
    BY <2>2 DEF IInv, TypeOK, Tick, main, derived
  <2>3. CASE \E p \in Pages : BecomesDue(p)
    BY <2>3 DEF IInv, TypeOK, BecomesDue, main, derived
  <2>4. CASE \E r \in Readers : SetRead(r) \/ SetUnread(r) \/ SwitchOff(r) \/ SwitchOn(r)
    BY <2>4 DEF IInv, TypeOK, SetRead, SetUnread, SwitchOff, SwitchOn, main, derived
  <2>5. CASE \E r \in Readers, f \in Feeds : MarkFeedRead(r, f) \/ UnmarkFeedRead(r, f)
    BY <2>5 DEF IInv, TypeOK, MarkFeedRead, UnmarkFeedRead, main, derived
  <2>6. CASE \E f \in Feeds : SaveItems(f)
    BY <2>6 DEF IInv, TypeOK, SaveItems, main, derived
  <2>7. QED
    BY <2>1, <2>2, <2>3, <2>4, <2>5, <2>6
<1>3. QED
  BY <1>1, <1>2, SameTask, SameEditions DEF IInv

\* The steps that hand a worker a page, and the one that takes every task away.
LEMMA StartInv ==
    ASSUME IInv,
           \/ \E p \in Pages : TakeTurn(p)
           \/ \E h \in Handlers, p \in Pages : StartReroll(h, p) \/ PatchFilter(h, p)
    PROVE  IInv'
<1>1. PICK w \in Workers, k \in Task :
           k.at \in {"read", "release"} /\ k.page \in Pages /\ task' = [task EXCEPT ![w] = k]
  <2>1. CASE \E p \in Pages : TakeTurn(p)
    <3>1. PICK p \in Pages : TakeTurn(p)
      BY <2>1
    <3> DEFINE k == [Idle EXCEPT !.op = "turn", !.at = "read", !.page = p]
    <3>2. k \in Task /\ k.at = "read" /\ k.page = p
      BY DEF Idle, Task
    <3>3. task' = [task EXCEPT ![Scheduler] = k]
      BY <3>1 DEF TakeTurn
    <3> HIDE DEF k
    <3>4. QED
      BY <3>2, <3>3 DEF Workers
  <2>2. CASE \E h \in Handlers, p \in Pages : StartReroll(h, p)
    <3>1. PICK h \in Handlers, p \in Pages : StartReroll(h, p)
      BY <2>2
    <3> DEFINE k == [Idle EXCEPT !.op = "reroll", !.at = "release", !.page = p]
    <3>2. k \in Task /\ k.at = "release" /\ k.page = p
      BY DEF Idle, Task
    <3>3. task' = [task EXCEPT ![h] = k]
      BY <3>1 DEF StartReroll
    <3> HIDE DEF k
    <3>4. QED
      BY <3>2, <3>3 DEF Workers
  <2>3. CASE \E h \in Handlers, p \in Pages : PatchFilter(h, p)
    <3>1. PICK h \in Handlers, p \in Pages : PatchFilter(h, p)
      BY <2>3
    <3> DEFINE k == [Idle EXCEPT !.op = "patch", !.at = "release", !.page = p]
    <3>2. k \in Task /\ k.at = "release" /\ k.page = p
      BY DEF Idle, Task
    <3>3. task' = [task EXCEPT ![h] = k]
      BY <3>1 DEF PatchFilter
    <3> HIDE DEF k
    <3>4. QED
      BY <3>2, <3>3 DEF Workers
  <2>4. QED
    BY <2>1, <2>2, <2>3
<1>2. Formed(k) /\ k.at # "commit"
  BY <1>1 DEF Formed
<1>3. UNCHANGED <<items, editions>>
  BY DEF TakeTurn, StartReroll, PatchFilter, derived
<1>4. /\ task' \in [Workers -> Task]
      /\ \A v \in Workers : Formed(task'[v])
      /\ PicksFit' /\ TurnPicksStand'
  BY <1>1, <1>2, <1>3, NewTask
<1>5. filter' \in [Pages -> Filters] /\ turns' \subseteq Pages
  BY DEF IInv, TypeOK, TakeTurn, StartReroll, PatchFilter, main
<1>6. UNCHANGED <<due, disabled, derived, now, restarts>>
  BY DEF TakeTurn, StartReroll, PatchFilter, main
<1>7. TypeOK'
  BY <1>4, <1>5, <1>6 DEF IInv, TypeOK, derived
<1>8. QED
  BY <1>3, <1>4, <1>7, SameEditions DEF IInv

LEMMA RestartInv ==
    ASSUME IInv, Restart
    PROVE  IInv'
<1>1. \A w \in Workers : task'[w] = Idle /\ task'[w].at # "commit"
  BY IdleIsTask DEF Restart
<1>2. PicksFit' /\ TurnPicksStand'
  BY <1>1 DEF PicksFit, TurnPicksStand, Workers
<1>3. UNCHANGED <<items, editions>>
  BY DEF Restart, derived
<1>4. TypeOK'
  BY <1>1, IdleIsTask DEF IInv, TypeOK, Restart, main, derived
<1>5. QED
  BY <1>2, <1>3, <1>4, SameEditions DEF IInv

\* What Select places is a page: never empty, since there is something to
\* draw from and room for it.
LEMMA SelectionFits ==
    ASSUME NEW fresh, NEW unread, NEW seen, fresh \cup unread \cup seen # {},
           NEW S \in Selections(fresh, unread, seen)
    PROVE  /\ S \subseteq fresh \cup unread \cup seen
           /\ S # {} /\ Cardinality(S) <= EditionSize
<1>1. /\ S \subseteq fresh \cup unread \cup seen
      /\ Cardinality(S) <= EditionSize
      /\ Cardinality(S) = EditionSize \/ Carries(S, fresh \cup unread \cup seen)
  BY DEF Selections
<1>2. Cardinality({}) = 0
  BY FS_EmptySet
<1>3. S # {}
  <2>1. PICK a \in fresh \cup unread \cup seen : TRUE
    OBVIOUS
  <2>2. Cardinality(S) = 0 => LinkOf[a] \in Links(S \cap (fresh \cup unread \cup seen))
    BY <1>1, <2>1, ConstantsAssumption DEF Carries, Links
  <2>3. QED
    BY <1>2, <2>2 DEF Links
<1>4. QED
  BY <1>1, <1>3

\* The steps of a compose that only read.
LEMMA ReadingInv ==
    ASSUME IInv, NEW w \in Workers,
           ReadUnread(w) \/ ReleaseUnread(w) \/ ReadPage(w)
    PROVE  IInv'
<1>1. UNCHANGED <<main, items, editions, read, turns, now, restarts>>
  BY DEF ReadUnread, ReleaseUnread, ReadPage, derived
<1>2. PICK r \in Task : r = task[w] /\ r.page \in Pages /\ r.at # "idle"
  <2>1. task[w] \in Task /\ Formed(task[w])
    BY DEF IInv, TypeOK
  <2>2. task[w].at # "idle"
    BY DEF ReadUnread, ReleaseUnread, ReadPage
  <2>3. QED
    BY <2>1, <2>2 DEF Formed
<1>3. /\ task' \in [Workers -> Task]
      /\ \A v \in Workers : Formed(task'[v])
      /\ PicksFit' /\ TurnPicksStand'
  <2>1. CASE ReadUnread(w)
    <3> DEFINE unread == Live(task[w].page) \ read[OwnerOf[task[w].page]]
               k == [r EXCEPT !.at = "delete", !.picks = unread]
    <3>1. CASE unread = {}
      BY <1>1, <1>2, <2>1, <3>1, MovedTask DEF ReadUnread
    <3>2. CASE unread # {}
      <4>1. unread \subseteq Articles
        BY DEF Live, IInv, TypeOK
      <4>2. task' = [task EXCEPT ![w] = k]
        BY <1>2, <2>1, <3>2 DEF ReadUnread
      <4> HIDE DEF unread
      <4>3. k \in Task /\ k.at = "delete" /\ k.page \in Pages
        BY <1>2, <4>1 DEF Task
      <4> HIDE DEF k
      <4>4. Formed(k)
        BY <4>3 DEF Formed
      <4>5. QED
        BY <1>1, <4>2, <4>3, <4>4, NewTask
    <3>3. QED
      BY <3>1, <3>2
  <2>2. CASE ReleaseUnread(w)
    <3> DEFINE k == [r EXCEPT !.at = "read", !.picks = {}]
    <3>1. task' = [task EXCEPT ![w] = k]
      BY <1>2, <2>2 DEF ReleaseUnread
    <3>2. k \in Task /\ k.at = "read" /\ k.page \in Pages
      BY <1>2 DEF Task
    <3> HIDE DEF k
    <3>3. Formed(k)
      BY <3>2 DEF Formed
    <3>4. QED
      BY <1>1, <3>1, <3>2, <3>3, NewTask
  <2>3. CASE ReadPage(w)
    <3> DEFINE k == [r EXCEPT !.at = "queues", !.from = filter[task[w].page]]
    <3>1. CASE filter[task[w].page] = {}
      BY <1>1, <1>2, <2>3, <3>1, NothingTask DEF ReadPage
    <3>2. CASE filter[task[w].page] # {}
      <4>1. task[w].page \in Pages
        BY <1>2
      <4>2. filter[task[w].page] \subseteq Feeds
        BY <4>1, ConstantsAssumption DEF IInv, TypeOK
      <4>3. task' = [task EXCEPT ![w] = k]
        BY <1>2, <2>3, <3>2 DEF ReadPage
      <4>4. k \in Task /\ k.at = "queues" /\ k.page \in Pages
        BY <1>2, <4>2 DEF Task
      <4> HIDE DEF k
      <4>5. Formed(k)
        BY <4>4 DEF Formed
      <4>6. QED
        BY <1>1, <4>3, <4>4, <4>5, NewTask
    <3>3. QED
      BY <3>1, <3>2
  <2>4. QED
    BY <2>1, <2>2, <2>3
<1>4. shown' \in [Pages -> SUBSET Articles]
  <2>1. \/ shown' = shown
        \/ shown' = [shown EXCEPT ![task[w].page] = @ \ task[w].picks]
    BY DEF ReadUnread, ReleaseUnread, ReadPage, derived
  <2>2. QED
    BY <2>1 DEF IInv, TypeOK
<1>5. TypeOK'
  BY <1>1, <1>3, <1>4 DEF IInv, TypeOK, main
<1>6. QED
  BY <1>1, <1>3, <1>5, SameEditions DEF IInv

LEMMA ReadQueuesInv ==
    ASSUME IInv, NEW w \in Workers, ReadQueues(w)
    PROVE  IInv'
<1>1. UNCHANGED <<main, derived, turns, now, restarts>>
  BY DEF ReadQueues
<1>2. PICK r \in Task : r = task[w] /\ r.page \in Pages /\ r.at # "idle"
  <2>1. task[w] \in Task /\ Formed(task[w]) /\ task[w].at # "idle"
    BY DEF IInv, TypeOK, ReadQueues
  <2>2. QED
    BY <2>1 DEF Formed
<1> DEFINE reach == {a \in items : FeedOf[a] \in task[w].from}
           p == task[w].page
<1>3. /\ task' \in [Workers -> Task]
      /\ \A v \in Workers : Formed(task'[v])
      /\ PicksFit' /\ TurnPicksStand'
  <2>1. CASE reach = {}
    BY <1>1, <1>2, <2>1, NothingTask DEF ReadQueues, derived
  <2>2. CASE reach # {}
    <3>1. PICK S \in Selections(Fresh(p, reach), Unread(p, reach), Seen(p, reach)) :
              task' = [task EXCEPT ![w] = [r EXCEPT !.at = "commit", !.from = {},
                                                    !.picks = S, !.now = now]]
      BY <1>2, <2>2 DEF ReadQueues
    <3>2. Fresh(p, reach) \cup Unread(p, reach) \cup Seen(p, reach) = reach
      BY DEF Fresh, Unread, Seen
    <3>3. S \subseteq reach /\ S # {} /\ Cardinality(S) <= EditionSize
      BY <2>2, <3>2, SelectionFits
    <3>4. S \subseteq items /\ S \subseteq Articles
      BY <3>3 DEF IInv, TypeOK
    <3>5. now \in Nat
      BY DEF IInv, TypeOK
    <3> DEFINE k == [r EXCEPT !.at = "commit", !.from = {}, !.picks = S, !.now = now]
    <3>6. k \in Task /\ k.at = "commit" /\ k.picks = S /\ k.page \in Pages
      BY <1>2, <3>4, <3>5 DEF Task
    <3>7. task' = [task EXCEPT ![w] = k]
      BY <3>1
    <3> HIDE DEF k, reach
    <3>8. Formed(k)
      BY <3>6 DEF Formed
    <3>9. /\ task' \in [Workers -> Task]
          /\ \A v \in Workers : Formed(task'[v])
          /\ task'[w] = k
          /\ \A v \in Workers \ {w} : task'[v] = task[v]
      BY <3>6, <3>7, <3>8, TaskSet DEF IInv
    <3>10. PicksFit'
      BY <3>3, <3>6, <3>9 DEF IInv, PicksFit
    <3>11. TurnPicksStand'
      BY <1>1, <3>4, <3>6, <3>9 DEF IInv, TurnPicksStand, Workers, derived
    <3>12. QED
      BY <3>9, <3>10, <3>11
  <2>3. QED
    BY <2>1, <2>2
<1>4. TypeOK'
  BY <1>1, <1>3 DEF IInv, TypeOK, main, derived
<1>5. QED
  BY <1>1, <1>3, <1>4, SameEditions DEF IInv, derived

\* The clock moved, or the page emptied: the last step of a compose.
LEMMA LastStepInv ==
    ASSUME IInv, NEW w \in Workers, ScheduleNextEdition(w) \/ DropEditions(w)
    PROVE  IInv'
<1>1. Ends(w) /\ UNCHANGED <<filter, disabled, items, shown, read, turns, now, restarts>>
  BY DEF ScheduleNextEdition, DropEditions, derived, main
<1>2. /\ task' \in [Workers -> Task]
      /\ \A v \in Workers : Formed(task'[v])
      /\ PicksFit' /\ TurnPicksStand'
  BY <1>1, EndedTask
<1>3. CASE ScheduleNextEdition(w)
  <2>1. UNCHANGED editions /\ due' \subseteq Pages
    BY <1>3 DEF ScheduleNextEdition, derived, IInv, TypeOK
  <2>2. TypeOK'
    BY <1>1, <1>2, <2>1 DEF IInv, TypeOK
  <2>3. QED
    BY <1>1, <1>2, <2>1, <2>2, SameEditions DEF IInv
<1>4. CASE DropEditions(w)
  <2>1. /\ due' = due
        /\ editions' = [editions EXCEPT ![task[w].page] = <<>>]
    BY <1>4 DEF DropEditions, main
  <2>2. \A p \in Pages : editions'[p] = <<>> \/ editions'[p] = editions[p]
    BY <2>1 DEF IInv, TypeOK
  <2>3. editions' \in [Pages -> Seq(Edition)]
    <3>1. <<>> \in Seq(Edition)
      OBVIOUS
    <3>2. editions \in [Pages -> Seq(Edition)]
      BY DEF IInv, TypeOK
    <3>3. QED
      BY <2>1, <3>1, <3>2
  <2>4. EditionsStand'
    BY <1>1, <2>2 DEF IInv, EditionsStand
  <2>5. NewestExists'
    BY <2>2 DEF IInv, NewestExists
  <2>6. \A p \in Pages : \A i \in DOMAIN editions'[p] :
            Cardinality(editions'[p][i].articles) <= EditionSize
    BY <2>2 DEF IInv, TypeOK
  <2>7. TypeOK'
    BY <1>1, <1>2, <2>1, <2>3, <2>6 DEF IInv, TypeOK
  <2>8. QED
    BY <1>2, <2>4, <2>5, <2>7 DEF IInv
<1>5. QED
  BY <1>3, <1>4

\* The transaction of AddEdition: the row goes in last, the newest may stay
\* the one it was, and every article of it is held at that moment.
LEMMA AddEditionInv ==
    ASSUME IInv, NEW w \in Workers, AddEdition(w)
    PROVE  IInv'
<1> DEFINE p == task[w].page
           picks == task[w].picks
           e == [at |-> task[w].now, articles |-> picks]
<1>1. /\ task[w].at = "commit" /\ task[w].at # "idle"
      /\ UNCHANGED <<filter, due, disabled, items, read, turns, now, restarts>>
  BY DEF AddEdition, main
<1>2. p \in Pages /\ picks \in SUBSET Articles /\ task[w].now \in Nat
  <2>1. task[w] \in Task /\ Formed(task[w])
    BY DEF IInv, TypeOK
  <2>2. QED
    BY <1>1, <2>1 DEF Formed, Task
<1>3. CASE ~(picks \subseteq items)
  <2>1. Ends(w) /\ UNCHANGED <<editions, shown>>
    BY <1>3 DEF AddEdition
  <2>2. /\ task' \in [Workers -> Task]
        /\ \A v \in Workers : Formed(task'[v])
        /\ PicksFit' /\ TurnPicksStand'
    BY <1>1, <2>1, EndedTask
  <2>3. TypeOK'
    BY <1>1, <2>1, <2>2 DEF IInv, TypeOK
  <2>4. QED
    BY <1>1, <2>1, <2>2, <2>3, SameEditions DEF IInv
<1>4. CASE picks \subseteq items
  <2>1. /\ Goes(w, "clock")
        /\ editions' = [editions EXCEPT ![p] = Append(@, e)]
        /\ shown' = [shown EXCEPT ![p] = @ \cup picks]
    BY <1>4 DEF AddEdition
  <2>2. e \in Edition /\ e.articles = picks /\ Cardinality(picks) <= EditionSize
    BY <1>1, <1>2 DEF Edition, IInv, PicksFit
  <2>3. editions[p] \in Seq(Edition) /\ editions \in [Pages -> Seq(Edition)]
    BY <1>2 DEF IInv, TypeOK
  <2> HIDE DEF e, picks, p
  <2>4. /\ Append(editions[p], e) \in Seq(Edition)
        /\ DOMAIN Append(editions[p], e) = 1 .. Len(editions[p]) + 1
        /\ DOMAIN editions[p] = 1 .. Len(editions[p]) /\ Len(editions[p]) \in Nat
        /\ Append(editions[p], e)[Len(editions[p]) + 1] = e
        /\ \A i \in DOMAIN editions[p] : Append(editions[p], e)[i] = editions[p][i]
    BY <2>2, <2>3
  <2>5. /\ editions' \in [Pages -> Seq(Edition)]
        /\ editions'[p] = Append(editions[p], e)
        /\ \A q \in Pages \ {p} : editions'[q] = editions[q]
    BY <1>2, <2>1, <2>3, <2>4
  <2>6. \A q \in Pages : \A i \in DOMAIN editions'[q] :
            \/ editions'[q][i] = e
            \/ i \in DOMAIN editions[q] /\ editions'[q][i] = editions[q][i]
    <3>1. \A i \in 1 .. Len(editions[p]) + 1 :
              i = Len(editions[p]) + 1 \/ i \in 1 .. Len(editions[p])
      BY <2>4
    <3>2. QED
      BY <2>4, <2>5, <3>1
  <2>7. EditionsStand'
    BY <1>1, <1>4, <2>2, <2>6 DEF IInv, EditionsStand
  <2>8. \A q \in Pages : \A i \in DOMAIN editions'[q] :
            Cardinality(editions'[q][i].articles) <= EditionSize
    BY <2>2, <2>6 DEF IInv, TypeOK
  <2>9. NewestExists'
    <3>1. HasNewest(Append(editions[p], e))
      BY <1>2, <2>2, <2>3, AppendNewest DEF IInv, NewestExists
    <3>2. QED
      BY <2>5, <3>1 DEF IInv, NewestExists
  <2>10. /\ task' \in [Workers -> Task]
         /\ \A v \in Workers : Formed(task'[v])
         /\ PicksFit' /\ TurnPicksStand'
    <3>1. "clock" \in {"release", "delete", "read", "queues", "clock", "drop"}
      OBVIOUS
    <3>2. QED
      BY <1>1, <2>1, <3>1, MovedTask
  <2>11. shown' \in [Pages -> SUBSET Articles]
    BY <1>2, <2>1 DEF IInv, TypeOK, picks
  <2>12. TypeOK'
    BY <1>1, <2>5, <2>8, <2>10, <2>11 DEF IInv, TypeOK
  <2>13. QED
    BY <2>7, <2>9, <2>10, <2>12 DEF IInv
<1>5. QED
  BY <1>3, <1>4

\* The old editions go and the newest stays.
LEMMA PruneOldInv ==
    ASSUME IInv, PruneOldEditions
    PROVE  IInv'
<1>1. /\ UNCHANGED <<filter, due, disabled, items, shown, read, task, turns, now, restarts>>
      /\ editions' = [p \in Pages |-> IF editions[p] = <<>> THEN <<>> ELSE <<Current(p)>>]
  BY DEF PruneOldEditions, main
<1>2. ASSUME NEW p \in Pages
      PROVE  /\ editions'[p] \in Seq(Edition)
             /\ \A i \in DOMAIN editions'[p] :
                    /\ editions'[p][i].articles \subseteq items'
                    /\ Cardinality(editions'[p][i].articles) <= EditionSize
             /\ editions'[p] # <<>> => HasNewest(editions'[p])
  <2>1. CASE editions[p] = <<>>
    <3>1. editions'[p] = <<>> /\ <<>> \in Seq(Edition) /\ DOMAIN <<>> = {}
      BY <1>1, <2>1
    <3>2. QED
      BY <3>1
  <2>2. CASE editions[p] # <<>>
    <3> DEFINE c == Current(p)
    <3>1. c \in Edition /\ c.articles \subseteq items /\ c.at \in Nat
      BY <2>2, CurrentIsEdition DEF Edition
    <3>2. Cardinality(c.articles) <= EditionSize
      BY <2>2, CurrentIsEdition DEF Current, IInv, TypeOK
    <3>3. editions'[p] = <<c>>
      BY <1>1, <2>2
    <3> HIDE DEF c
    <3>4. <<c>> \in Seq(Edition) /\ DOMAIN <<c>> = {1} /\ <<c>>[1] = c
      BY <3>1
    <3>5. HasNewest(<<c>>)
      BY <3>1, <3>4 DEF HasNewest, Newer
    <3>6. QED
      BY <1>1, <3>1, <3>2, <3>3, <3>4, <3>5
  <2>3. QED
    BY <2>1, <2>2
<1>3. editions' \in [Pages -> Seq(Edition)]
  BY <1>1, <1>2
<1>4. TypeOK'
  BY <1>1, <1>2, <1>3 DEF IInv, TypeOK
<1>5. EditionsStand' /\ NewestExists'
  BY <1>2 DEF EditionsStand, NewestExists
<1>6. QED
  BY <1>1, <1>4, <1>5, SameTask DEF IInv

\* What the retention rules let go of is on no edition, so the cascade takes
\* nothing from any of them.
LEMMA PruneItemsSpares ==
    ASSUME IInv, PruneItems
    PROVE  /\ UNCHANGED <<filter, due, disabled, shown, read, task, turns, now, restarts>>
           /\ editions' = editions /\ items' \subseteq items
           /\ \A a \in items : Placed(a) => a \in items'
<1>1. PICK gone \in SUBSET {a \in items : ~Placed(a)} :
          /\ items' = items \ gone
          /\ editions' = [p \in Pages |-> [i \in DOMAIN editions[p] |->
                              [editions[p][i] EXCEPT !.articles = @ \ gone]]]
  BY DEF PruneItems
<1>2. ASSUME NEW p \in Pages, NEW i \in DOMAIN editions[p]
      PROVE  [editions[p][i] EXCEPT !.articles = @ \ gone] = editions[p][i]
  <2>1. editions[p][i] \in Edition
    BY SeqRows DEF IInv, TypeOK
  <2>2. \A a \in editions[p][i].articles : a \notin gone
    BY <1>1 DEF Placed
  <2>3. editions[p][i].articles \ gone = editions[p][i].articles
    BY <2>2
  <2>4. QED
    BY <2>1, <2>3 DEF Edition
<1>3. ASSUME NEW p \in Pages
      PROVE  editions'[p] = editions[p]
  <2>1. editions'[p] = [i \in DOMAIN editions[p] |-> editions[p][i]]
    BY <1>1, <1>2
  <2>2. editions[p] \in Seq(Edition)
    BY DEF IInv, TypeOK
  <2>3. editions[p] = [i \in DOMAIN editions[p] |-> editions[p][i]]
    BY <2>2
  <2>4. QED
    BY <2>1, <2>3
<1>4. editions' = editions
  <2>1. editions = [p \in Pages |-> editions[p]]
    BY DEF IInv, TypeOK
  <2>2. editions' = [p \in Pages |-> editions'[p]]
    BY <1>1
  <2>3. QED
    BY <1>3, <2>1, <2>2
<1>5. UNCHANGED <<filter, due, disabled, shown, read, task, turns, now, restarts>>
  BY DEF PruneItems, main
<1>6. QED
  BY <1>1, <1>4, <1>5

LEMMA PruneItemsInv ==
    ASSUME IInv, PruneItems
    PROVE  IInv'
<1>1. /\ UNCHANGED <<filter, due, disabled, shown, read, task, turns, now, restarts>>
      /\ editions' = editions /\ items' \subseteq items
      /\ \A a \in items : Placed(a) => a \in items'
  BY PruneItemsSpares
<1>2. task[Scheduler].at # "commit"
  BY IdleIsTask DEF PruneItems, Sweeping
<1>3. TypeOK'
  BY <1>1 DEF IInv, TypeOK
<1>4. EditionsStand'
  BY <1>1 DEF IInv, EditionsStand, Placed
<1>5. NewestExists' /\ PicksFit'
  BY <1>1 DEF IInv, NewestExists, HasNewest, Newer, PicksFit
<1>6. TurnPicksStand'
  BY <1>1, <1>2 DEF TurnPicksStand
<1>7. QED
  BY <1>3, <1>4, <1>5, <1>6 DEF IInv

LEMMA NextInv == IInv /\ [Next]_vars => IInv'
<1> SUFFICES ASSUME IInv, [Next]_vars PROVE IInv'
  OBVIOUS
<1>1. CASE UNCHANGED vars
  BY <1>1 DEF vars, main, derived, IInv, TypeOK, EditionsStand, TurnPicksStand,
              PicksFit, NewestExists, HasNewest, Newer
<1>2. CASE \E w \in Workers : Step(w)
  <2>1. PICK w \in Workers : Step(w)
    BY <1>2
  <2>2. CASE ReadUnread(w) \/ ReleaseUnread(w) \/ ReadPage(w)
    BY <2>2, ReadingInv
  <2>3. CASE ReadQueues(w)
    BY <2>3, ReadQueuesInv
  <2>4. CASE AddEdition(w)
    BY <2>4, AddEditionInv
  <2>5. CASE ScheduleNextEdition(w) \/ DropEditions(w)
    BY <2>5, LastStepInv
  <2>6. QED
    BY <2>1, <2>2, <2>3, <2>4, <2>5 DEF Step
<1>3. CASE \/ DuePages \/ Tick
           \/ \E p \in Pages : BecomesDue(p)
           \/ \E r \in Readers : SetRead(r) \/ SetUnread(r) \/ SwitchOff(r) \/ SwitchOn(r)
           \/ \E r \in Readers, f \in Feeds : MarkFeedRead(r, f) \/ UnmarkFeedRead(r, f)
           \/ \E f \in Feeds : SaveItems(f)
  BY <1>3, AroundInv
<1>4. CASE \/ \E p \in Pages : TakeTurn(p)
           \/ \E h \in Handlers, p \in Pages : StartReroll(h, p) \/ PatchFilter(h, p)
  BY <1>4, StartInv
<1>5. CASE PruneOldEditions
  BY <1>5, PruneOldInv
<1>6. CASE PruneItems
  BY <1>6, PruneItemsInv
<1>7. CASE Restart
  BY <1>7, RestartInv
<1>8. QED
  BY <1>1, <1>2, <1>3, <1>4, <1>5, <1>6, <1>7 DEF Next

LEMMA Inductive == Spec => []IInv
BY InitInv, NextInv, PTL DEF Spec

(***************************************************************************)
(* The theorems.                                                           *)
(***************************************************************************)
\* Every table and every worker's locals stay what the schema and the handlers
\* make them, with no edition larger than EditionSize, however composes,
\* sweeps, fetches and restarts interleave.
THEOREM TypeCorrect == Spec => []TypeOK
<1>1. IInv => TypeOK
  BY DEF IInv
<1>2. QED
  BY <1>1, Inductive, PTL

\* No edition ever holds a card whose article is gone (edition_items and the
\* spared ids of PruneItems).
THEOREM EditionsAlwaysStand == Spec => []EditionsStand
<1>1. IInv => EditionsStand
  BY DEF IInv
<1>2. QED
  BY <1>1, Inductive, PTL

\* A scheduled turn never fails on an article collected between Queues and
\* AddEdition: the sweep shares its goroutine.
THEOREM TurnPicksAlwaysStand == Spec => []TurnPicksStand
<1>1. IInv => TurnPicksStand
  BY DEF IInv
<1>2. QED
  BY <1>1, Inductive, PTL

(***************************************************************************)
(* What a step does to the page a reader sees.                             *)
(***************************************************************************)
\* Only two steps touch the live edition; collecting the old ones does not.
LEMMA EditionsStep ==
    ASSUME IInv, [Next]_vars
    PROVE  \/ \A p \in Pages : \/ editions'[p] = editions[p]
                               \/ editions[p] # <<>> /\ editions'[p] = <<Current(p)>>
           \/ \E w \in Workers : AddEdition(w) \/ DropEditions(w)
<1>1. CASE UNCHANGED editions
  BY <1>1
<1>2. CASE PruneItems
  BY <1>2, PruneItemsSpares
<1>3. CASE PruneOldEditions
  BY <1>3 DEF PruneOldEditions
<1>4. CASE \E w \in Workers : AddEdition(w) \/ DropEditions(w)
  BY <1>4
<1>5. QED
  <2>1. CASE UNCHANGED vars
    BY <1>1, <2>1 DEF vars, derived
  <2>2. CASE \E w \in Workers : Step(w)
    <3>1. PICK w \in Workers : Step(w)
      BY <2>2
    <3>2. CASE AddEdition(w) \/ DropEditions(w)
      BY <1>4, <3>2
    <3>3. CASE ReadUnread(w) \/ ReleaseUnread(w) \/ ReadPage(w)
                  \/ ReadQueues(w) \/ ScheduleNextEdition(w)
      BY <1>1, <3>3 DEF ReadUnread, ReleaseUnread, ReadPage, ReadQueues,
                        ScheduleNextEdition, derived
    <3>4. QED
      BY <3>1, <3>2, <3>3 DEF Step
  <2>3. CASE \/ DuePages \/ Tick \/ Restart
             \/ \E p \in Pages : TakeTurn(p) \/ BecomesDue(p)
             \/ \E h \in Handlers, p \in Pages : StartReroll(h, p) \/ PatchFilter(h, p)
             \/ \E r \in Readers : SetRead(r) \/ SetUnread(r) \/ SwitchOff(r) \/ SwitchOn(r)
             \/ \E r \in Readers, f \in Feeds : MarkFeedRead(r, f) \/ UnmarkFeedRead(r, f)
             \/ \E f \in Feeds : SaveItems(f)
    BY <1>1, <2>3 DEF DuePages, Tick, Restart, TakeTurn, BecomesDue, StartReroll,
                      PatchFilter, SetRead, SetUnread, SwitchOff, SwitchOn, MarkFeedRead, UnmarkFeedRead,
                      SaveItems, derived
  <2>4. QED
    BY <1>2, <1>3, <2>1, <2>2, <2>3 DEF Next

LEMMA SingletonNewest ==
    ASSUME NEW e \in Edition
    PROVE  <<e>> # <<>> /\ <<e>>[1] = e /\ Newest(<<e>>) = 1
<1>1. <<e>> \in Seq(Edition) /\ DOMAIN <<e>> = {1} /\ <<e>>[1] = e /\ <<e>> # <<>>
  OBVIOUS
<1>2. e.at \in Nat
  BY DEF Edition
<1>3. \A j \in DOMAIN <<e>> : Newer(<<e>>, 1, j)
  BY <1>1, <1>2 DEF Newer
<1>4. QED
  BY <1>1, <1>3, NewestUnique

\* A step that is not a compose's own leaves the live page as it was.
LEMMA LiveKept ==
    ASSUME IInv, IInv', NEW p \in Pages,
           \/ editions'[p] = editions[p]
           \/ editions[p] # <<>> /\ editions'[p] = <<Current(p)>>
    PROVE  /\ Live(p)' = Live(p)
           /\ editions[p] # <<>> => editions'[p] # <<>> /\ Current(p)' = Current(p)
<1>1. CASE editions[p] = <<>>
  BY <1>1 DEF Live
<1>2. CASE editions[p] # <<>>
  <2>1. Current(p) \in Edition /\ Live(p) = Current(p).articles
    BY <1>2, CurrentIsEdition
  <2>2. editions'[p] # <<>> /\ Current(p)' = Current(p)
    BY <1>2, <2>1, SingletonNewest DEF Current
  <2>3. Newest(editions'[p]) \in DOMAIN editions'[p]
    <3>1. Newest(editions[p]) \in DOMAIN editions[p]
      BY <1>2, CurrentIsEdition
    <3>2. Newest(<<Current(p)>>) \in DOMAIN <<Current(p)>>
      BY <2>1, SingletonNewest
    <3>3. QED
      BY <3>1, <3>2
  <2>4. Current(p)'.articles \subseteq items'
    BY <2>3 DEF IInv, EditionsStand, Current
  <2>5. Live(p)' = Current(p)'.articles
    BY <2>2, <2>4 DEF Live
  <2>6. QED
    BY <2>1, <2>2, <2>5
<1>3. QED
  BY <1>1, <1>2

\* The page after AddEdition: the new edition, all of it, or the one before.
LEMMA AddEditionLive ==
    ASSUME IInv, IInv', NEW w \in Workers, AddEdition(w),
           NEW p \in Pages, task[w].page = p
    PROVE  /\ \A q \in Pages \ {p} : editions'[q] = editions[q]
           /\ \/ UNCHANGED editions
              \/ /\ editions'[p] # <<>>
                 /\ editions[p] # <<>> => Current(p)'.at >= Current(p).at
                 /\ \/ Live(p)' = task[w].picks
                    \/ Live(p)' = Live(p)
<1> DEFINE picks == task[w].picks
           e == [at |-> task[w].now, articles |-> picks]
           s == editions[p]
<1>1. e \in Edition /\ e.articles = picks
  <2>1. task[w] \in Task
    BY DEF IInv, TypeOK
  <2>2. QED
    BY <2>1 DEF Task, Edition
<1>2. editions \in [Pages -> Seq(Edition)] /\ s \in Seq(Edition)
  BY <1>1 DEF IInv, TypeOK
<1>3. CASE ~(picks \subseteq items)
  BY <1>3 DEF AddEdition
<1>4. CASE picks \subseteq items
  <2>1. /\ editions' = [editions EXCEPT ![p] = Append(@, e)]
        /\ items' = items
    BY <1>4 DEF AddEdition
  <2> HIDE DEF e, picks
  <2>2. /\ editions'[p] = Append(s, e)
        /\ \A q \in Pages \ {p} : editions'[q] = editions[q]
    BY <1>1, <1>2, <2>1
  <2>3. s # <<>> => HasNewest(s)
    BY <1>1 DEF IInv, NewestExists
  <2>4. /\ Append(s, e) # <<>> /\ Len(s) \in Nat
        /\ Append(s, e)[Len(s) + 1] = e
        /\ \A i \in 1 .. Len(s) : Append(s, e)[i] = s[i]
    BY <1>1, <1>2
  <2>5. \/ /\ Newest(Append(s, e)) = Len(s) + 1
           /\ s # <<>> => e.at >= s[Newest(s)].at
        \/ s # <<>> /\ Newest(Append(s, e)) = Newest(s) /\ Newest(s) \in 1 .. Len(s)
    BY <1>1, <1>2, <2>3, AppendNewest
  <2>6. CASE /\ Newest(Append(s, e)) = Len(s) + 1
             /\ s # <<>> => e.at >= s[Newest(s)].at
    <3>1. Current(p)' = e
      BY <2>2, <2>4, <2>6 DEF Current
    <3>2. Live(p)' = picks
      BY <1>1, <1>4, <2>1, <2>2, <2>4, <3>1 DEF Live
    <3>3. s # <<>> => Current(p)'.at >= Current(p).at
      BY <2>6, <3>1 DEF Current
    <3>4. QED
      BY <1>1, <2>2, <2>4, <3>2, <3>3 DEF picks
  <2>7. CASE s # <<>> /\ Newest(Append(s, e)) = Newest(s) /\ Newest(s) \in 1 .. Len(s)
    <3>1. Current(p)' = Current(p)
      BY <2>2, <2>4, <2>7 DEF Current
    <3>2. Live(p)' = Live(p)
      BY <2>1, <2>2, <2>4, <2>7, <3>1 DEF Live
    <3>3. Current(p).at \in Nat
      BY <1>1, <2>7, CurrentIsEdition DEF Edition
    <3>4. Current(p)'.at >= Current(p).at
      BY <3>1, <3>3
    <3>5. QED
      BY <2>2, <2>4, <3>2, <3>4
  <2>8. QED
    BY <2>5, <2>6, <2>7
<1>5. QED
  BY <1>3, <1>4

LEMMA BusyPage ==
    ASSUME IInv, NEW w \in Workers, AddEdition(w) \/ DropEditions(w)
    PROVE  task[w].page \in Pages
<1>1. Formed(task[w]) /\ task[w].at # "idle"
  BY DEF IInv, TypeOK, AddEdition, DropEditions
<1>2. QED
  BY <1>1 DEF Formed

\* However two composes of one page are ordered, the edition shown is never
\* replaced by one stamped before it (the order of currentEditions).
THEOREM LiveNeverGoesBack == Spec => LiveMovesForward
<1> DEFINE Forward(p) == editions[p] # <<>> /\ editions'[p] # <<>>
                             => Current(p)'.at >= Current(p).at
<1>1. ASSUME IInv, IInv', [Next]_vars, NEW p \in Pages
      PROVE  Forward(p)
  <2>1. editions[p] # <<>> => Current(p).at \in Nat
    BY <1>1, CurrentIsEdition DEF Edition
  <2>2. CASE \A q \in Pages : \/ editions'[q] = editions[q]
                              \/ editions[q] # <<>> /\ editions'[q] = <<Current(q)>>
    BY <1>1, <2>1, <2>2, LiveKept
  <2>3. ASSUME NEW w \in Workers, AddEdition(w)
        PROVE  Forward(p)
    <3>1. PICK q \in Pages : q = task[w].page
      BY <1>1, <2>3, BusyPage
    <3>2. CASE editions'[p] = editions[p]
      BY <1>1, <2>1, <3>2, LiveKept
    <3>3. CASE p = q
      BY <1>1, <2>3, <3>1, <3>2, <3>3, AddEditionLive
    <3>4. QED
      BY <1>1, <2>3, <3>1, <3>2, <3>3, AddEditionLive
  <2>4. ASSUME NEW w \in Workers, DropEditions(w)
        PROVE  Forward(p)
    <3>1. editions'[p] = <<>> \/ editions'[p] = editions[p]
      BY <1>1, <2>4 DEF DropEditions, IInv, TypeOK
    <3>2. QED
      BY <1>1, <2>1, <3>1, LiveKept
  <2>5. QED
    BY <1>1, <2>2, <2>3, <2>4, EditionsStep
<1>2. IInv /\ IInv' /\ [Next]_vars => [\A p \in Pages : Forward(p)]_vars
  BY <1>1
<1>3. QED
  BY <1>2, Inductive, PTL DEF Spec, LiveMovesForward

\* What workers have on offer follows their tasks.
LEMMA OfferOfTask ==
    ASSUME NEW v \in Workers
    PROVE  /\ task'[v] = task[v] => Offer(v)' = Offer(v)
           /\ task'[v].at \notin {"commit", "drop"} => Offer(v)' = None
           /\ task[v].at \notin {"commit", "drop"} => Offer(v) = None
BY DEF Offer

LEMMA EndsOffer ==
    ASSUME IInv, NEW w \in Workers, Ends(w)
    PROVE  /\ Offer(w)' = None
           /\ \A v \in Workers \ {w} : Offer(v)' = Offer(v)
<1>1. /\ task'[w] = Idle
      /\ \A v \in Workers \ {w} : task'[v] = task[v]
  BY DEF Ends, IInv, TypeOK
<1>2. task'[w].at \notin {"commit", "drop"}
  BY <1>1, IdleIsTask
<1>3. QED
  BY <1>1, <1>2, OfferOfTask

LEMMA GoesOffer ==
    ASSUME IInv, NEW w \in Workers, NEW at \in {"read", "clock", "drop"}, Goes(w, at)
    PROVE  /\ at # "drop" => Offer(w)' = None
           /\ at = "drop" => Offer(w)' = [page |-> task[w].page, show |-> {}]
           /\ \A v \in Workers \ {w} : Offer(v)' = Offer(v)
<1>1. PICK r \in Task : r = task[w]
  BY DEF IInv, TypeOK
<1>2. at \in {"release", "delete", "read", "queues", "commit", "clock", "drop"}
  OBVIOUS
<1> DEFINE k == [r EXCEPT !.at = at]
<1>3. k.at = at /\ k.page = r.page
  BY <1>2, TaskMoved
<1>4. /\ task'[w] = k
      /\ \A v \in Workers \ {w} : task'[v] = task[v]
  BY <1>1 DEF Goes, IInv, TypeOK
<1> HIDE DEF k
<1>5. at # "drop" => task'[w].at \notin {"commit", "drop"}
  BY <1>3, <1>4
<1>6. at = "drop" => Offer(w)' = [page |-> task[w].page, show |-> {}]
  BY <1>1, <1>3, <1>4 DEF Offer
<1>7. QED
  BY <1>4, <1>5, <1>6, OfferOfTask

\* The page after DropEditions.
LEMMA DropEditionsLive ==
    ASSUME IInv, NEW w \in Workers, DropEditions(w), NEW p \in Pages, task[w].page = p
    PROVE  /\ editions'[p] = <<>>
           /\ \A q \in Pages \ {p} : editions'[q] = editions[q]
BY DEF DropEditions, IInv, TypeOK

\* Where reading the page or its queues leaves a worker: with something to
\* put up, or with nothing.
LEMMA ReadingOffers ==
    ASSUME IInv, NEW w \in Workers, ReadPage(w) \/ ReadQueues(w)
    PROVE  /\ Offer(w) = None
           /\ \A v \in Workers \ {w} : Offer(v)' = Offer(v)
           /\ \/ Offer(w)' = None
              \/ \E p \in Pages, S \in LP!Arrangements \cup {{}} :
                     Offer(w)' = [page |-> p, show |-> S]
<1>1. task[w].at \in {"read", "queues"}
  BY DEF ReadPage, ReadQueues
<1>2. PICK r \in Task : r = task[w] /\ r.page \in Pages
  <2>1. task[w] \in Task /\ Formed(task[w]) /\ task[w].at # "idle"
    BY <1>1 DEF IInv, TypeOK
  <2>2. QED
    BY <2>1 DEF Formed
<1>3. Offer(w) = None
  BY <1>1, OfferOfTask
<1>4. CASE Nothing(w)
  <2>1. CASE task[w].op = "patch"
    <3>1. Goes(w, "drop") /\ "drop" \in {"read", "clock", "drop"}
      BY <1>4, <2>1 DEF Nothing
    <3>2. QED
      BY <1>2, <1>3, <3>1, GoesOffer
  <2>2. CASE task[w].op # "patch"
    BY <1>3, <1>4, <2>2, EndsOffer DEF Nothing
  <2>3. QED
    BY <2>1, <2>2
<1>5. CASE ReadPage(w) /\ ~Nothing(w)
  <2> DEFINE k == [r EXCEPT !.at = "queues", !.from = filter[task[w].page]]
  <2>1. task' = [task EXCEPT ![w] = k]
    BY <1>2, <1>5 DEF ReadPage
  <2>2. k.at = "queues"
    BY DEF Task
  <2> HIDE DEF k
  <2>3. /\ task'[w].at \notin {"commit", "drop"}
        /\ \A v \in Workers \ {w} : task'[v] = task[v]
    BY <2>1, <2>2 DEF IInv, TypeOK
  <2>4. QED
    BY <1>3, <2>3, OfferOfTask
<1>6. CASE ReadQueues(w) /\ ~Nothing(w)
  <2> DEFINE reach == {a \in items : FeedOf[a] \in task[w].from}
             q == task[w].page
  <2>1. reach # {}
    BY <1>6 DEF ReadQueues
  <2>2. PICK S \in Selections(Fresh(q, reach), Unread(q, reach), Seen(q, reach)) :
            task' = [task EXCEPT ![w] = [r EXCEPT !.at = "commit", !.from = {},
                                                  !.picks = S, !.now = now]]
    BY <1>2, <1>6 DEF ReadQueues
  <2>3. Fresh(q, reach) \cup Unread(q, reach) \cup Seen(q, reach) = reach
    BY DEF Fresh, Unread, Seen
  <2> HIDE DEF reach, q
  <2>4. S \subseteq reach /\ S # {} /\ Cardinality(S) <= EditionSize
    BY <2>1, <2>2, <2>3, SelectionFits
  <2>5. S \in SUBSET Articles
    BY <2>4 DEF IInv, TypeOK, reach
  <2>6. S \in LP!Arrangements
    BY <2>4, <2>5 DEF LP!Arrangements, LP!Cardinality, Cardinality
  <2> DEFINE k == [r EXCEPT !.at = "commit", !.from = {}, !.picks = S, !.now = now]
  <2>7. k.at = "commit" /\ k.picks = S /\ k.page = r.page
    <3>1. k.at = "commit" /\ k.picks = S
      BY DEF Task
    <3>2. k.page = r.page
      BY DEF Task
    <3>3. QED
      BY <3>1, <3>2
  <2>8. task' = [task EXCEPT ![w] = k]
    BY <2>2
  <2> HIDE DEF k
  <2>9. task'[w] = k /\ \A v \in Workers \ {w} : task'[v] = task[v]
    BY <2>8 DEF IInv, TypeOK
  <2>10. Offer(w)' = [page |-> r.page, show |-> S]
    BY <2>7, <2>9 DEF Offer
  <2>11. QED
    BY <1>2, <1>3, <2>6, <2>9, <2>10, OfferOfTask
<1>7. QED
  BY <1>4, <1>5, <1>6

\* No other step puts anything on offer.
LEMMA OtherOffers ==
    ASSUME IInv, [Next]_vars,
           ~ \E w \in Workers : ReadPage(w) \/ ReadQueues(w)
    PROVE  \A v \in Workers : Offer(v)' = Offer(v) \/ Offer(v)' = None
<1>1. CASE UNCHANGED task
  BY <1>1, OfferOfTask
<1>2. CASE Restart
  BY <1>2, IdleIsTask, OfferOfTask DEF Restart
<1>3. CASE \/ \E p \in Pages : TakeTurn(p)
           \/ \E h \in Handlers, p \in Pages : StartReroll(h, p) \/ PatchFilter(h, p)
  <2>1. PICK w \in Workers, p \in Pages, op \in {"turn", "reroll", "patch"}, at \in {"read", "release"} :
            task' = [task EXCEPT ![w] = [Idle EXCEPT !.op = op, !.at = at, !.page = p]]
    BY <1>3 DEF TakeTurn, StartReroll, PatchFilter, Workers
  <2>2. [Idle EXCEPT !.op = op, !.at = at, !.page = p].at = at
    BY DEF Idle
  <2>3. /\ task'[w].at = at
        /\ \A v \in Workers \ {w} : task'[v] = task[v]
    BY <2>1, <2>2 DEF IInv, TypeOK
  <2>4. task'[w].at \notin {"commit", "drop"}
    BY <2>3
  <2>5. QED
    BY <2>3, <2>4, OfferOfTask
<1>4. CASE \E w \in Workers : Step(w)
  <2>1. PICK w \in Workers : Step(w)
    BY <1>4
  <2>2. PICK r \in Task : r = task[w]
    BY DEF IInv, TypeOK
  <2>3. CASE ReadUnread(w)
    <3> DEFINE unread == Live(task[w].page) \ read[OwnerOf[task[w].page]]
               k == [r EXCEPT !.at = "delete", !.picks = unread]
    <3>1. CASE Goes(w, "read")
      BY <3>1, GoesOffer
    <3>2. CASE ~Goes(w, "read")
      <4>1. task' = [task EXCEPT ![w] = k]
        BY <2>2, <2>3, <3>2 DEF ReadUnread
      <4>2. k.at = "delete"
        BY DEF Task
      <4> HIDE DEF k
      <4>3. /\ task'[w].at \notin {"commit", "drop"}
            /\ \A v \in Workers \ {w} : task'[v] = task[v]
        BY <4>1, <4>2 DEF IInv, TypeOK
      <4>4. QED
        BY <4>3, OfferOfTask
    <3>3. QED
      BY <3>1, <3>2
  <2>4. CASE ReleaseUnread(w)
    <3> DEFINE k == [r EXCEPT !.at = "read", !.picks = {}]
    <3>1. task' = [task EXCEPT ![w] = k]
      BY <2>2, <2>4 DEF ReleaseUnread
    <3>2. k.at = "read"
      BY DEF Task
    <3> HIDE DEF k
    <3>3. /\ task'[w].at \notin {"commit", "drop"}
          /\ \A v \in Workers \ {w} : task'[v] = task[v]
      BY <3>1, <3>2 DEF IInv, TypeOK
    <3>4. QED
      BY <3>3, OfferOfTask
  <2>5. CASE AddEdition(w) /\ Goes(w, "clock")
    BY <2>5, GoesOffer
  <2>6. CASE Ends(w)
    BY <2>6, EndsOffer
  <2>7. QED
    BY <2>1, <2>3, <2>4, <2>5, <2>6 DEF Step, AddEdition, ScheduleNextEdition, DropEditions
<1>5. QED
  <2>1. CASE UNCHANGED vars
    BY <1>1, <2>1 DEF vars
  <2>2. CASE \/ DuePages \/ Tick \/ PruneOldEditions \/ PruneItems
             \/ \E p \in Pages : BecomesDue(p)
             \/ \E r \in Readers : SetRead(r) \/ SetUnread(r) \/ SwitchOff(r) \/ SwitchOn(r)
             \/ \E r \in Readers, f \in Feeds : MarkFeedRead(r, f) \/ UnmarkFeedRead(r, f)
             \/ \E f \in Feeds : SaveItems(f)
    BY <1>1, <2>2 DEF DuePages, Tick, PruneOldEditions, PruneItems, BecomesDue,
                      SetRead, SetUnread, SwitchOff, SwitchOn, MarkFeedRead, UnmarkFeedRead, SaveItems
  <2>3. QED
    BY <1>2, <1>3, <1>4, <2>1, <2>2 DEF Next

\* A set of offers that only shrinks is a withdrawal.
LEMMA Withdrawn ==
    ASSUME \A v \in Workers : Offer(v)' = Offer(v) \/ Offer(v)' = None,
           \A p \in Pages : Live(p)' = Live(p)
    PROVE  LP!Next
<1> DEFINE W == {v \in Workers : Offer(v)' = None}
<1>1. [v \in Workers |-> Offer(v)]' = [v \in Workers |-> IF v \in W THEN None ELSE Offer(v)]
  OBVIOUS
<1>2. LP!Withdraw(W)
  BY <1>1 DEF LP!Withdraw
<1>3. QED
  BY <1>2 DEF LP!Next

\* The detailed specification implements LivePage: what a reader sees of a
\* page is replaced whole by what was composed for it, or cleared, and nothing
\* else the program does shows on it.
THEOREM PageChangesWhole == Spec => LivePageSpec
<1> DEFINE live == [p \in Pages |-> Live(p)]
           offer == [w \in Workers |-> Offer(w)]
<1>1. Init => LP!Init
  BY IdleIsTask DEF Init, LP!Init, Live, Offer
<1>2. ASSUME IInv, IInv', [Next]_vars
      PROVE  LP!Next
  <2>1. \A p \in Pages : editions'[p] = editions[p] => Live(p)' = Live(p)
    BY <1>2, LiveKept
  <2>2. CASE /\ \A q \in Pages : \/ editions'[q] = editions[q]
                                 \/ editions[q] # <<>> /\ editions'[q] = <<Current(q)>>
             /\ ~ \E w \in Workers : ReadPage(w) \/ ReadQueues(w)
    <3>1. \A p \in Pages : Live(p)' = Live(p)
      BY <1>2, <2>2, LiveKept
    <3>2. \A v \in Workers : Offer(v)' = Offer(v) \/ Offer(v)' = None
      BY <1>2, <2>2, OtherOffers
    <3>3. QED
      BY <3>1, <3>2, Withdrawn
  <2>3. ASSUME NEW w \in Workers, ReadPage(w) \/ ReadQueues(w)
        PROVE  LP!Next
    <3>1. UNCHANGED editions
      BY <2>3 DEF ReadPage, ReadQueues, derived
    <3>2. \A p \in Pages : Live(p)' = Live(p)
      BY <2>1, <3>1
    <3>3. /\ Offer(w) = None
          /\ \A v \in Workers \ {w} : Offer(v)' = Offer(v)
          /\ \/ Offer(w)' = None
             \/ \E p \in Pages, S \in LP!Arrangements \cup {{}} :
                    Offer(w)' = [page |-> p, show |-> S]
      BY <1>2, <2>3, ReadingOffers
    <3>4. CASE Offer(w)' = None
      BY <3>2, <3>3, <3>4, Withdrawn
    <3>5. CASE \E p \in Pages, S \in LP!Arrangements \cup {{}} :
                   Offer(w)' = [page |-> p, show |-> S]
      <4>1. PICK p \in Pages, S \in LP!Arrangements \cup {{}} :
                Offer(w)' = [page |-> p, show |-> S]
        BY <3>5
      <4>2. offer' = [offer EXCEPT ![w] = [page |-> p, show |-> S]]
        BY <3>3, <4>1
      <4>3. live' = live
        BY <3>2
      <4>4. offer[w] = None
        BY <3>3
      <4>5. LP!Compose(w)
        BY <4>2, <4>3, <4>4 DEF LP!Compose
      <4>6. QED
        BY <4>5 DEF LP!Next
    <3>6. QED
      BY <3>3, <3>4, <3>5
  <2>4. ASSUME NEW w \in Workers, AddEdition(w)
        PROVE  LP!Next
    <3>1. PICK p \in Pages : p = task[w].page
      BY <1>2, <2>4, BusyPage
    <3>2. \A q \in Pages \ {p} : Live(q)' = Live(q)
      BY <1>2, <2>1, <2>4, <3>1, AddEditionLive
    <3>3. Live(p)' = task[w].picks \/ Live(p)' = Live(p)
      BY <1>2, <2>1, <2>4, <3>1, AddEditionLive
    <3>4. /\ Offer(w)' = None
          /\ \A v \in Workers \ {w} : Offer(v)' = Offer(v)
      <4>1. Goes(w, "clock") \/ Ends(w)
        BY <2>4 DEF AddEdition
      <4>2. "clock" \in {"read", "clock", "drop"} /\ "clock" # "drop"
        OBVIOUS
      <4>3. QED
        BY <1>2, <4>1, <4>2, GoesOffer, EndsOffer
    <3>5. CASE Live(p)' = Live(p)
      <4>1. \A q \in Pages : Live(q)' = Live(q)
        BY <3>2, <3>5
      <4>2. QED
        BY <3>4, <4>1, Withdrawn
    <3>6. CASE Live(p)' = task[w].picks
      <4>1. offer[w] = [page |-> p, show |-> task[w].picks]
        BY <2>4, <3>1 DEF AddEdition, Offer
      <4>2. live' = [live EXCEPT ![p] = task[w].picks]
        BY <3>2, <3>6
      <4>3. offer' = [offer EXCEPT ![w] = None]
        BY <3>4
      <4>4. offer[w].page = p /\ offer[w].show = task[w].picks
        BY <4>1
      <4>5. task[w].picks \in SUBSET Articles
        BY <1>2 DEF IInv, TypeOK, Task
      <4>6. offer[w] # None
        BY <4>1, <4>5, ConstantsAssumption
      <4>7. LP!PutUp(w)
        BY <4>2, <4>3, <4>4, <4>6 DEF LP!PutUp
      <4>8. QED
        BY <4>7 DEF LP!Next
    <3>7. QED
      BY <3>3, <3>5, <3>6
  <2>5. ASSUME NEW w \in Workers, DropEditions(w)
        PROVE  LP!Next
    <3>1. PICK p \in Pages : p = task[w].page
      BY <1>2, <2>5, BusyPage
    <3>2. /\ editions'[p] = <<>>
          /\ \A q \in Pages \ {p} : editions'[q] = editions[q]
      BY <1>2, <2>5, <3>1, DropEditionsLive
    <3>3. Live(p)' = {} /\ \A q \in Pages \ {p} : Live(q)' = Live(q)
      BY <2>1, <3>2 DEF Live
    <3>4. /\ Offer(w)' = None
          /\ \A v \in Workers \ {w} : Offer(v)' = Offer(v)
      BY <1>2, <2>5, EndsOffer DEF DropEditions
    <3>5. offer[w] = [page |-> p, show |-> {}]
      BY <2>5, <3>1 DEF DropEditions, Offer
    <3>6. live' = [live EXCEPT ![p] = {}]
      BY <3>3
    <3>7. offer' = [offer EXCEPT ![w] = None]
      BY <3>4
    <3>8. offer[w].page = p /\ offer[w].show = {}
      BY <3>5
    <3>9. offer[w] # None
      BY <3>5, ConstantsAssumption
    <3>10. LP!PutUp(w)
      BY <3>6, <3>7, <3>8, <3>9 DEF LP!PutUp
    <3>11. QED
      BY <3>10 DEF LP!Next
  <2>6. QED
    BY <1>2, <2>2, <2>3, <2>4, <2>5, EditionsStep
<1>3. QED
  BY <1>1, <1>2, Inductive, PTL DEF Spec, LivePageSpec, LP!Spec

(***************************************************************************)
(* What an edition under the filter takes: one compose of a page at a      *)
(* time, a save of the filter that finds what it picked still there, and   *)
(* that no restart cuts short.                                             *)
(***************************************************************************)
Alone == \A v, w \in Workers : task[v].page = task[w].page /\ task[v].page # None => v = w

PatchPicksStand ==
    \A w \in Workers : task[w].op = "patch" /\ task[w].at = "commit" => task[w].picks \subseteq items

Patched == \A w \in Workers : task[w].op # "patch"

Undisturbed == [](Alone /\ PatchPicksStand) /\ [][Restart => Patched]_vars

Taken(p, A) == \A a \in A : FeedOf[a] \in filter[p]

\* What a task has from the page's filter, and when it was stamped.
Chosen(k, p) ==
    /\ k.at = "queues" => k.from = filter[p]
    /\ k.at = "commit" => /\ Taken(p, k.picks) /\ k.now <= now
                          /\ \A i \in DOMAIN editions[p] : editions[p][i].at <= k.now

\* A save of the filter that has its page to recompose yet.
Patching(k) == k.op = "patch" /\ k.at # "clock"

Stamped(p) == \A i \in DOMAIN editions[p] : editions[p][i].at <= now

Honoured(p) == editions[p] = <<>> \/ Taken(p, Current(p).articles)

HonestPage(p) ==
    /\ Stamped(p)
    /\ \A w \in Workers : task[w].page = p => Chosen(task[w], p)
    /\ Honoured(p) \/ \E w \in Workers : task[w].page = p /\ Patching(task[w])

\* A worker that is not at a page, and takes it up at the start at most,
\* leaves it what it was.
LEMMA OthersKeepHonest ==
    ASSUME IInv, NEW p \in Pages, HonestPage(p), NEW w \in Workers, NEW k,
           task' = [task EXCEPT ![w] = k], task[w].page # p,
           k.page = p => k.at \notin {"queues", "commit"},
           editions'[p] = editions[p], filter'[p] = filter[p], now' = now
    PROVE  HonestPage(p)'
<1>1. \A v \in Workers : task'[v] = IF v = w THEN k ELSE task[v]
  BY DEF IInv, TypeOK
<1>2. Stamped(p)' /\ (Honoured(p) => Honoured(p)')
  BY DEF HonestPage, Stamped, Honoured, Taken, Current
<1>3. ASSUME NEW v \in Workers, task'[v].page = p PROVE Chosen(task[v], p)'
  BY <1>1, <1>3 DEF HonestPage, Chosen, Taken
<1>4. ASSUME NEW v \in Workers, task[v].page = p, Patching(task[v])
      PROVE  task'[v].page = p /\ Patching(task[v])'
  BY <1>1, <1>4 DEF Patching
<1> QED
  BY <1>2, <1>3, <1>4 DEF HonestPage

\* The one worker at a page keeps it so by what it goes on to.
LEMMA OwnKeepsHonest ==
    ASSUME IInv, Alone, NEW p \in Pages, NEW w \in Workers, task[w].page = p, NEW k,
           task' = [task EXCEPT ![w] = k],
           Stamped(p)', k.page = p => Chosen(k, p)', Honoured(p)' \/ (k.page = p /\ Patching(k))
    PROVE  HonestPage(p)'
<1>1. \A v \in Workers : task'[v] = IF v = w THEN k ELSE task[v]
  BY DEF IInv, TypeOK
<1>2. \A v \in Workers : task'[v].page = p => v = w
  BY <1>1, ConstantsAssumption DEF Alone
<1>3. ASSUME NEW v \in Workers, task'[v].page = p PROVE Chosen(task[v], p)'
  BY <1>1, <1>2, <1>3 DEF Chosen, Taken
<1>4. k.page = p /\ Patching(k) => task'[w].page = p /\ Patching(task[w])'
  BY <1>1 DEF Patching
<1> QED
  BY <1>3, <1>4 DEF HonestPage

\* A step of that worker that leaves the page alone.
LEMMA ReadsKeepHonest ==
    ASSUME IInv, Alone, NEW p \in Pages, HonestPage(p), NEW w \in Workers, task[w].page = p, NEW k,
           task' = [task EXCEPT ![w] = k], UNCHANGED <<editions, filter, now>>,
           k.page = p => Chosen(k, p), Patching(task[w]) => k.page = p /\ Patching(k)
    PROVE  HonestPage(p)'
<1>1. Stamped(p)' /\ (Honoured(p) => Honoured(p)') /\ (k.page = p => Chosen(k, p)')
  BY DEF HonestPage, Stamped, Honoured, Chosen, Taken, Current
<1>2. Honoured(p) \/ Patching(task[w])
  BY ConstantsAssumption DEF HonestPage, Alone
<1>3. Stamped(p)' /\ (k.page = p => Chosen(k, p)') /\ (Honoured(p)' \/ (k.page = p /\ Patching(k)))
  BY <1>1, <1>2
<1> QED
  BY <1>3, OwnKeepsHonest

\* What goes on around the workers.
LEMMA AroundKeepsHonest ==
    ASSUME IInv, NEW p \in Pages, HonestPage(p), UNCHANGED <<task, filter>>, now <= now', now' \in Nat,
           \/ editions'[p] = editions[p]
           \/ editions[p] # <<>> /\ editions'[p] = <<Current(p)>>
    PROVE  HonestPage(p)'
<1>1. now \in Nat /\ editions[p] \in Seq(Edition) /\ \A w \in Workers : task[w].now \in Nat
  BY DEF IInv, TypeOK, Task
<1>2. ASSUME NEW t \in Nat, \A i \in DOMAIN editions[p] : editions[p][i].at <= t
      PROVE  \A i \in DOMAIN editions'[p] : editions'[p][i].at <= t
  <2>1. CASE editions'[p] = editions[p]
    BY <1>2, <2>1
  <2>2. CASE editions[p] # <<>> /\ editions'[p] = <<Current(p)>>
    <3>1. Newest(editions[p]) \in DOMAIN editions[p]
      BY <2>2, CurrentIsEdition
    <3>2. Current(p).at <= t
      BY <1>2, <3>1 DEF Current
    <3> QED
      BY <2>2, <3>2
  <2> QED
    BY <2>1, <2>2
<1>3. Stamped(p)'
  <2>1. \A i \in DOMAIN editions'[p] : editions'[p][i].at <= now
    BY <1>1, <1>2 DEF HonestPage, Stamped
  <2>2. \A i \in DOMAIN editions[p] : editions[p][i] \in Edition /\ editions[p][i].at \in Nat
    BY <1>1, SeqRows
  <2>3. CASE editions'[p] = editions[p]
    BY <1>1, <2>1, <2>2, <2>3 DEF Stamped
  <2>4. CASE editions[p] # <<>> /\ editions'[p] = <<Current(p)>>
    <3>1. Current(p).at \in Nat
      BY <2>4, CurrentIsEdition DEF Edition
    <3> QED
      BY <1>1, <2>1, <2>4, <3>1 DEF Stamped
  <2> QED
    BY <2>3, <2>4
<1>4. ASSUME NEW w \in Workers, task'[w].page = p PROVE Chosen(task[w], p)'
  <2>1. Chosen(task[w], p)
    BY <1>4 DEF HonestPage
  <2>2. task[w].at = "commit" =>
          /\ \A i \in DOMAIN editions'[p] : editions'[p][i].at <= task[w].now
          /\ task[w].now <= now'
    BY <1>1, <1>2, <2>1 DEF Chosen
  <2> QED
    BY <2>1, <2>2 DEF Chosen, Taken
<1>5. Honoured(p) => Honoured(p)'
  <2>1. CASE editions'[p] = editions[p]
    BY <2>1 DEF Honoured, Taken, Current
  <2>2. CASE editions[p] # <<>> /\ editions'[p] = <<Current(p)>>
    <3>1. Current(p)' = Current(p)
      BY <2>2, CurrentIsEdition, SingletonNewest DEF Current
    <3> QED
      BY <2>2, <3>1 DEF Honoured, Taken
  <2> QED
    BY <2>1, <2>2
<1> QED
  BY <1>3, <1>4, <1>5 DEF HonestPage, Patching

\* The steps that give a page to a worker: a filter changes with its worker
\* as the only one there.
LEMMA StartsKeepHonest ==
    ASSUME IInv, IInv', Alone', NEW p \in Pages, HonestPage(p),
           \/ \E q \in Pages : TakeTurn(q)
           \/ \E h \in Handlers, q \in Pages : StartReroll(h, q) \/ PatchFilter(h, q)
    PROVE  HonestPage(p)'
<1>0. Idle.page # p
  BY ConstantsAssumption DEF Idle
<1>1. PICK w \in Workers, q \in Pages, k \in Task :
          /\ task[w].page # p /\ task' = [task EXCEPT ![w] = k]
          /\ k.page = q /\ k.at \in {"read", "release"}
          /\ UNCHANGED <<editions, now>>
          /\ filter'[p] = filter[p] \/ (q = p /\ Patching(k))
  <2>1. CASE \E q \in Pages : TakeTurn(q)
    <3>1. PICK q \in Pages : TakeTurn(q)
      BY <2>1
    <3> DEFINE k == [Idle EXCEPT !.op = "turn", !.at = "read", !.page = q]
    <3>2. k \in Task /\ k.page = q /\ k.at = "read"
      BY DEF Idle, Task
    <3>3. task' = [task EXCEPT ![Scheduler] = k] /\ task[Scheduler].page # p
      <4>1. task' = [task EXCEPT ![Scheduler] = k] /\ task[Scheduler] = Idle
        BY <3>1 DEF TakeTurn
      <4> QED
        BY <1>0, <4>1
    <3> HIDE DEF k
    <3> QED
      BY <3>1, <3>2, <3>3 DEF TakeTurn, Workers, main, derived
  <2>2. CASE \E h \in Handlers, q \in Pages : StartReroll(h, q)
    <3>1. PICK h \in Handlers, q \in Pages : StartReroll(h, q)
      BY <2>2
    <3> DEFINE k == [Idle EXCEPT !.op = "reroll", !.at = "release", !.page = q]
    <3>2. k \in Task /\ k.page = q /\ k.at = "release"
      BY DEF Idle, Task
    <3>3. task' = [task EXCEPT ![h] = k] /\ task[h].page # p
      <4>1. task' = [task EXCEPT ![h] = k] /\ task[h] = Idle
        BY <3>1 DEF StartReroll
      <4> QED
        BY <1>0, <4>1
    <3> HIDE DEF k
    <3> QED
      BY <3>1, <3>2, <3>3 DEF StartReroll, Workers, main, derived
  <2>3. CASE \E h \in Handlers, q \in Pages : PatchFilter(h, q)
    <3>1. PICK h \in Handlers, q \in Pages : PatchFilter(h, q)
      BY <2>3
    <3> DEFINE k == [Idle EXCEPT !.op = "patch", !.at = "release", !.page = q]
    <3>2. k \in Task /\ k.page = q /\ k.at = "release" /\ Patching(k)
      BY DEF Idle, Task, Patching
    <3>3. task' = [task EXCEPT ![h] = k] /\ task[h].page # p
      <4>1. task' = [task EXCEPT ![h] = k] /\ task[h] = Idle
        BY <3>1 DEF PatchFilter
      <4> QED
        BY <1>0, <4>1
    <3>4. (filter'[p] = filter[p] \/ q = p) /\ UNCHANGED <<editions, now>> /\ h \in Workers
      BY <3>1 DEF PatchFilter, IInv, TypeOK, derived, Workers
    <3> HIDE DEF k
    <3> QED
      BY <3>2, <3>3, <3>4
  <2> QED
    BY <2>1, <2>2, <2>3
<1>2. \A v \in Workers : task'[v] = IF v = w THEN k ELSE task[v]
  BY <1>1 DEF IInv, TypeOK
<1>3. CASE filter'[p] = filter[p]
  <2>1. k.at \notin {"queues", "commit"} /\ editions'[p] = editions[p] /\ now' = now
    BY <1>1
  <2> QED
    BY <1>1, <1>3, <2>1, OthersKeepHonest
<1>4. CASE q = p /\ Patching(k)
  <2>1. \A v \in Workers : task'[v].page = p => v = w
    BY <1>1, <1>2, <1>4, ConstantsAssumption DEF Alone
  <2>2. Stamped(p)'
    BY <1>1 DEF HonestPage, Stamped
  <2>3. ASSUME NEW v \in Workers, task'[v].page = p PROVE Chosen(task[v], p)'
    BY <1>1, <1>2, <2>1, <2>3 DEF Chosen
  <2>4. task'[w].page = p /\ Patching(task[w])'
    BY <1>1, <1>2, <1>4 DEF Patching
  <2> QED
    BY <2>2, <2>3, <2>4 DEF HonestPage
<1> QED
  BY <1>1, <1>3, <1>4

\* What is added is the newest there is, since it was stamped after the rest.
LEMMA LastIsNewest ==
    ASSUME NEW s \in Seq(Edition), NEW e \in Edition, \A i \in DOMAIN s : s[i].at <= e.at
    PROVE  /\ Append(s, e) # <<>> /\ Append(s, e)[Newest(Append(s, e))] = e
           /\ \A i \in DOMAIN Append(s, e) : Append(s, e)[i].at <= e.at
<1> DEFINE t == Append(s, e)
           n == Len(s)
<1>1. /\ t \in Seq(Edition) /\ Len(t) = n + 1 /\ t[n + 1] = e /\ n \in Nat
      /\ \A j \in 1 .. n : t[j] = s[j]
  OBVIOUS
<1>2. /\ n \in Nat /\ DOMAIN s = 1 .. n /\ DOMAIN t = 1 .. n + 1
      /\ \A j \in 1 .. n : s[j].at \in Nat
      /\ e.at \in Nat
  BY <1>1, SeqRows DEF Edition
<1> HIDE DEF t, n
<1>3. \A j \in DOMAIN t : t[j].at <= e.at /\ Newer(t, n + 1, j)
  BY <1>1, <1>2 DEF Newer
<1>4. n + 1 \in DOMAIN t
  BY <1>2
<1>5. Newest(t) = n + 1
  BY <1>1, <1>3, <1>4, NewestUnique
<1>6. Append(s, e) # <<>>
  OBVIOUS
<1> QED
  BY <1>1, <1>3, <1>5, <1>6 DEF t

\* A worker's own step.
LEMMA StepKeepsHonest ==
    ASSUME IInv, IInv', Alone, PatchPicksStand, NEW p \in Pages, HonestPage(p),
           NEW w \in Workers, Step(w)
    PROVE  HonestPage(p)'
<1> DEFINE q == task[w].page
           old == task[w]
<1>1. old \in Task /\ old.at # "idle" /\ q \in Pages /\ UNCHANGED <<filter, now>>
  <2>1. old.at # "idle" /\ UNCHANGED <<filter, now>>
    BY DEF Step, ReadUnread, ReleaseUnread, ReadPage, ReadQueues, AddEdition,
           ScheduleNextEdition, DropEditions, Goes, Ends, main, derived
  <2>2. old \in Task /\ Formed(old)
    BY DEF IInv, TypeOK
  <2> QED
    BY <2>1, <2>2 DEF Formed
<1>2. /\ Idle.page = None /\ Idle.page \notin Pages
      /\ \A at : [old EXCEPT !.at = at].page = q /\ [old EXCEPT !.at = at].op = old.op
                 /\ [old EXCEPT !.at = at].at = at
  BY <1>1, ConstantsAssumption DEF Idle, Task
<1>3. ASSUME NEW k, task' = [task EXCEPT ![w] = k], editions'[p] = editions[p], q # p,
             k.page \in {q, None}
      PROVE  HonestPage(p)'
  <2>1. k.page # p
    BY <1>3, ConstantsAssumption
  <2> QED
    BY <1>1, <1>3, <2>1, OthersKeepHonest
<1>4. ASSUME NEW k, task' = [task EXCEPT ![w] = k], UNCHANGED editions, k.page \in {q, None},
             q = p /\ k.page = p => Chosen(k, p),
             q = p /\ Patching(old) => k.page = p /\ Patching(k)
      PROVE  HonestPage(p)'
  <2>1. CASE q # p
    BY <1>3, <1>4, <2>1
  <2>2. CASE q = p
    <3>1. UNCHANGED <<editions, filter, now>>
      BY <1>1, <1>4
    <3> QED
      BY <1>4, <2>2, <3>1, ReadsKeepHonest
  <2> QED
    BY <2>1, <2>2
<1>5. ASSUME NEW at \in {"read", "drop"}, Goes(w, at), UNCHANGED editions
      PROVE  HonestPage(p)'
  <2> DEFINE k == [old EXCEPT !.at = at]
  <2>1. k.page = q /\ k.op = old.op /\ k.at = at
    BY <1>2
  <2>2. task' = [task EXCEPT ![w] = k]
    BY <1>5 DEF Goes
  <2> HIDE DEF k
  <2>3. Chosen(k, p) /\ (Patching(old) => Patching(k))
    BY <2>1 DEF Chosen, Patching
  <2> QED
    BY <1>4, <1>5, <2>1, <2>2, <2>3
<1>6. ASSUME Ends(w), UNCHANGED editions, ~Patching(old) PROVE HonestPage(p)'
  BY <1>2, <1>4, <1>6 DEF Ends
<1>7. ASSUME Nothing(w), UNCHANGED editions PROVE HonestPage(p)'
  BY <1>5, <1>6, <1>7 DEF Nothing, Patching
<1>8. CASE ReadUnread(w)
  <2>1. CASE Goes(w, "read")
    BY <1>5, <1>8, <2>1 DEF ReadUnread, derived
  <2>2. CASE ~Goes(w, "read")
    <3>1. PICK unread : task' = [task EXCEPT ![w].at = "delete", ![w].picks = unread]
      BY <1>8, <2>2 DEF ReadUnread
    <3> DEFINE k == [old EXCEPT !.at = "delete", !.picks = unread]
    <3>2. k.page = q /\ k.op = old.op /\ k.at = "delete"
      BY <1>1 DEF Task
    <3>3. task' = [task EXCEPT ![w] = k] /\ UNCHANGED editions
      BY <1>8, <3>1 DEF ReadUnread, derived
    <3> HIDE DEF k
    <3>4. Chosen(k, p) /\ (Patching(old) => Patching(k))
      BY <3>2 DEF Chosen, Patching
    <3> QED
      BY <1>4, <3>2, <3>3, <3>4
  <2> QED
    BY <2>1, <2>2
<1>9. CASE ReleaseUnread(w)
  <2> DEFINE k == [old EXCEPT !.at = "read", !.picks = {}]
  <2>1. k.page = q /\ k.op = old.op /\ k.at = "read"
    BY <1>1 DEF Task
  <2>2. task' = [task EXCEPT ![w] = k] /\ UNCHANGED editions
    BY <1>9 DEF ReleaseUnread
  <2> HIDE DEF k
  <2>3. Chosen(k, p) /\ (Patching(old) => Patching(k))
    BY <2>1 DEF Chosen, Patching
  <2> QED
    BY <1>4, <2>1, <2>2, <2>3
<1>10. CASE ReadPage(w)
  <2>1. CASE Nothing(w)
    BY <1>7, <1>10, <2>1 DEF ReadPage, derived
  <2>2. CASE ~Nothing(w)
    <3> DEFINE k == [old EXCEPT !.at = "queues", !.from = filter[q]]
    <3>1. k.page = q /\ k.op = old.op /\ k.at = "queues" /\ k.from = filter[q]
      BY <1>1 DEF Task
    <3>2. task' = [task EXCEPT ![w] = k] /\ UNCHANGED editions
      BY <1>10, <2>2 DEF ReadPage, derived
    <3> HIDE DEF k
    <3>3. (q = p => Chosen(k, p)) /\ (Patching(old) => Patching(k))
      BY <3>1 DEF Chosen, Patching
    <3> QED
      BY <1>4, <3>1, <3>2, <3>3
  <2> QED
    BY <2>1, <2>2
<1>11. CASE ReadQueues(w)
  <2> DEFINE reach == {a \in items : FeedOf[a] \in old.from}
  <2>1. CASE Nothing(w)
    BY <1>7, <1>11, <2>1 DEF ReadQueues, derived
  <2>2. CASE ~Nothing(w)
    <3>1. PICK S \in Selections(Fresh(q, reach), Unread(q, reach), Seen(q, reach)) :
            task' = [task EXCEPT ![w].at = "commit", ![w].from = {}, ![w].picks = S, ![w].now = now]
      BY <1>11, <2>2 DEF ReadQueues
    <3>2. S \subseteq reach
      BY DEF Selections, Fresh, Unread, Seen
    <3> DEFINE k == [old EXCEPT !.at = "commit", !.from = {}, !.picks = S, !.now = now]
    <3>3. k.page = q /\ k.op = old.op /\ k.at = "commit" /\ k.picks = S /\ k.now = now
      BY <1>1 DEF Task
    <3>4. task' = [task EXCEPT ![w] = k] /\ UNCHANGED editions
      BY <1>11, <3>1 DEF ReadQueues, derived
    <3> HIDE DEF k
    <3>5. ASSUME q = p PROVE Chosen(k, p)
      <4>1. old.from = filter[p]
        BY <1>11, <3>5 DEF HonestPage, Chosen, ReadQueues
      <4>2. Taken(p, S)
        BY <3>2, <4>1 DEF Taken
      <4>3. now \in Nat /\ \A i \in DOMAIN editions[p] : editions[p][i].at <= now
        BY DEF HonestPage, Stamped, IInv, TypeOK
      <4> QED
        BY <3>3, <4>2, <4>3 DEF Chosen
    <3>6. Patching(old) => Patching(k)
      BY <3>3 DEF Patching
    <3> QED
      BY <1>4, <3>3, <3>4, <3>5, <3>6
  <2> QED
    BY <2>1, <2>2
<1>12. CASE AddEdition(w)
  <2>1. CASE ~(old.picks \subseteq items)
    <3>1. Ends(w) /\ UNCHANGED editions
      BY <1>12, <2>1 DEF AddEdition
    <3>2. ~Patching(old)
      BY <1>12, <2>1 DEF PatchPicksStand, Patching, AddEdition
    <3> QED
      BY <1>6, <3>1, <3>2
  <2>2. CASE old.picks \subseteq items
    <3>1. PICK k : k = [old EXCEPT !.at = "clock"] /\ k.page = q /\ k.at = "clock"
      BY <1>2
    <3>3. PICK e \in Edition : /\ e = [at |-> old.now, articles |-> old.picks]
                              /\ e.at = old.now /\ e.articles = old.picks
      <4> DEFINE new == [at |-> old.now, articles |-> old.picks]
      <4>1. new \in Edition /\ new.at = old.now /\ new.articles = old.picks
        BY <1>1 DEF Task, Edition
      <4> HIDE DEF new
      <4>2. \E e \in Edition : e = new /\ e.at = old.now /\ e.articles = old.picks
        BY <4>1
      <4> QED
        BY <4>2 DEF new
    <3>2. task' = [task EXCEPT ![w] = k] /\ editions' = [editions EXCEPT ![q] = Append(@, e)]
      BY <1>12, <2>2, <3>1, <3>3 DEF AddEdition, Goes
    <3>4. CASE q # p
      <4>1. editions'[p] = editions[p]
        BY <3>2, <3>4 DEF IInv, TypeOK
      <4> QED
        BY <1>3, <3>1, <3>2, <3>4, <4>1
    <3>5. CASE q = p
      <4>1. Chosen(old, p) /\ old.at = "commit"
        BY <1>12, <3>5 DEF HonestPage, AddEdition
      <4>2. editions[p] \in Seq(Edition) /\ editions'[p] = Append(editions[p], e)
        BY <3>2, <3>5 DEF IInv, TypeOK
      <4>3. \A i \in DOMAIN editions[p] : editions[p][i].at <= e.at
        BY <3>3, <4>1 DEF Chosen
      <4>4. /\ Current(p)' = e
            /\ \A i \in DOMAIN editions'[p] : editions'[p][i].at <= e.at
        BY <3>3, <4>2, <4>3, LastIsNewest DEF Current
      <4>5. Stamped(p)'
        <5>1. e.at <= now' /\ e.at \in Nat /\ now' \in Nat
          BY <1>1, <3>3, <4>1 DEF Chosen, IInv, TypeOK, Edition
        <5>2. \A i \in DOMAIN editions'[p] : editions'[p][i].at \in Nat
          <6>1. editions'[p] \in Seq(Edition)
            BY DEF IInv, TypeOK
          <6> QED
            BY <6>1, SeqRows
        <5> QED
          BY <4>4, <5>1, <5>2 DEF Stamped
      <4>6. Honoured(p)'
        <5>1. \A a \in e.articles : FeedOf[a] \in filter'[p]
          BY <1>1, <3>3, <4>1 DEF Chosen, Taken
        <5> QED
          BY <4>4, <5>1 DEF Honoured, Taken
      <4>7. k.page = p => Chosen(k, p)'
        BY <3>1 DEF Chosen
      <4> QED
        BY <3>2, <3>5, <4>5, <4>6, <4>7, OwnKeepsHonest
    <3> QED
      BY <3>4, <3>5
  <2> QED
    BY <2>1, <2>2
<1>13. CASE ScheduleNextEdition(w)
  BY <1>6, <1>13 DEF ScheduleNextEdition, derived, Patching
<1>14. CASE DropEditions(w)
  <2>1. /\ task' = [task EXCEPT ![w] = Idle] /\ editions' = [editions EXCEPT ![q] = <<>>]
        /\ editions'[q] = <<>>
    BY <1>1, <1>14 DEF DropEditions, Ends, IInv, TypeOK
  <2>2. CASE q # p
    <3>1. editions'[p] = editions[p]
      BY <2>1, <2>2 DEF IInv, TypeOK
    <3> QED
      BY <1>2, <1>3, <2>1, <2>2, <3>1
  <2>3. CASE q = p
    <3>1. Stamped(p)' /\ Honoured(p)'
      BY <2>1, <2>3 DEF Stamped, Honoured
    <3>2. Idle.page # p
      BY <1>2
    <3> QED
      BY <2>1, <2>3, <3>1, <3>2, OwnKeepsHonest
  <2> QED
    BY <2>2, <2>3
<1> QED
  BY <1>8, <1>9, <1>10, <1>11, <1>12, <1>13, <1>14 DEF Step

AllHonest == \A p \in Pages : HonestPage(p)

LEMMA HonestStep ==
    /\ IInv /\ IInv' /\ AllHonest /\ Alone /\ Alone' /\ PatchPicksStand
    /\ [Next]_vars /\ [Restart => Patched]_vars
    => AllHonest'
<1> SUFFICES ASSUME IInv, IInv', AllHonest, Alone, Alone', PatchPicksStand,
                    [Next]_vars, [Restart => Patched]_vars, NEW p \in Pages
             PROVE  HonestPage(p)'
  BY DEF AllHonest
<1>1. HonestPage(p)
  BY DEF AllHonest
<1>2. now \in Nat /\ now' \in Nat
  BY DEF IInv, TypeOK
<1>3. CASE \/ UNCHANGED vars \/ DuePages \/ Tick
           \/ \E q \in Pages : BecomesDue(q)
           \/ \E r \in Readers : SetRead(r) \/ SetUnread(r) \/ SwitchOff(r) \/ SwitchOn(r)
           \/ \E r \in Readers, f \in Feeds : MarkFeedRead(r, f) \/ UnmarkFeedRead(r, f)
           \/ \E f \in Feeds : SaveItems(f)
  <2>1. UNCHANGED <<task, editions, filter>> /\ now' \in {now, now + 1}
    BY <1>3 DEF vars, DuePages, Tick, BecomesDue, SetRead, SetUnread, SwitchOff, SwitchOn, MarkFeedRead,
                UnmarkFeedRead, SaveItems, main, derived
  <2> QED
    BY <1>1, <1>2, <2>1, AroundKeepsHonest
<1>4. CASE PruneOldEditions
  <2>1. /\ UNCHANGED <<task, filter, now>>
        /\ editions'[p] = editions[p] \/ (editions[p] # <<>> /\ editions'[p] = <<Current(p)>>)
    BY <1>4 DEF PruneOldEditions, main
  <2> QED
    BY <1>1, <1>2, <2>1, AroundKeepsHonest
<1>5. CASE PruneItems
  BY <1>1, <1>2, <1>5, PruneItemsSpares, AroundKeepsHonest
<1>6. CASE Restart
  <2>1. UNCHANGED <<editions, filter, now>> /\ \A w \in Workers : task'[w] = Idle
    BY <1>6 DEF Restart, main, derived
  <2>2. Patched
    <3>1. ~UNCHANGED vars
      BY <1>6 DEF Restart, vars, IInv, TypeOK
    <3> QED
      BY <1>6, <3>1
  <2>3. Honoured(p)
    BY <1>1, <2>2 DEF HonestPage, Patched, Patching
  <2>4. Stamped(p)' /\ Honoured(p)'
    BY <1>1, <2>1, <2>3 DEF HonestPage, Stamped, Honoured, Taken, Current
  <2>5. \A w \in Workers : task'[w].page # p
    BY <2>1, ConstantsAssumption DEF Idle
  <2> QED
    BY <2>4, <2>5 DEF HonestPage
<1>7. CASE \/ \E q \in Pages : TakeTurn(q)
           \/ \E h \in Handlers, q \in Pages : StartReroll(h, q) \/ PatchFilter(h, q)
  BY <1>1, <1>7, StartsKeepHonest
<1>8. CASE \E w \in Workers : Step(w)
  BY <1>1, <1>8, StepKeepsHonest
<1> QED
  BY <1>3, <1>4, <1>5, <1>6, <1>7, <1>8 DEF Next

\* No edition chosen under an old filter is left up (store/editions.go,
\* DropEditions) where a page is composed by one worker at a time, what a save
\* of its filter picked is not collected meanwhile, and no restart comes
\* between the save and its recompose: for any pages, workers and articles.
THEOREM FiltersHonouredAlone == Spec /\ Undisturbed => []FilterHonoured
<1>1. Init => AllHonest
  <2> SUFFICES ASSUME Init, NEW p \in Pages PROVE HonestPage(p)
    BY DEF AllHonest
  <2>1. \A w \in Workers : task[w].page # p
    BY ConstantsAssumption DEF Init, Idle
  <2> QED
    BY <2>1 DEF Init, HonestPage, Stamped, Honoured
<1>2. IInv /\ AllHonest => FilterHonoured
  <2> SUFFICES ASSUME IInv, AllHonest, NEW p \in Pages, \A w \in Workers : task[w].page # p,
                      NEW a \in Live(p)
               PROVE  FeedOf[a] \in filter[p]
    BY DEF FilterHonoured
  <2> QED
    BY DEF AllHonest, HonestPage, Honoured, Taken, Live
<1> QED
  BY <1>1, <1>2, HonestStep, Inductive, PTL DEF Spec, Undisturbed
=============================================================================
