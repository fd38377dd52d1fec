-------------------------- MODULE CheckQueueProofs --------------------------
(***************************************************************************)
(* Proofs about CheckQueue: the safety invariants of the run               *)
(* "check_queue", for any number of workers and checks, any batch size and *)
(* any choice of bad checks.                                               *)
(***************************************************************************)
EXTENDS CheckQueue, TLAPS, FiniteSetTheorems

Typed ==
    /\ queue \in Seq(Checks)
    /\ nIdle \in Nat /\ nTotal \in Nat /\ nTodo \in Nat /\ fAllOk \in BOOLEAN
    /\ pc \in [Threads -> {"start", "waiting", "woken", "working", "out", "adding"}]
    /\ batch \in [Threads -> Seq(Checks)]
    /\ fOk \in [Threads -> BOOLEAN]
    /\ added \subseteq Checks
    /\ verdict \in [ok : BOOLEAN, checks : SUBSET Checks]

(* A thread has checks of its own exactly while it runs them, and only the *)
(* master leaves Loop.                                                     *)
Positions ==
    /\ \A t \in Threads : pc[t] = "working" <=> batch[t] # <<>>
    /\ \A w \in Workers : pc[w] \notin {"out", "adding"}

(* Pending checks have been added, and nothing is pending between blocks.  *)
BlockExact ==
    /\ Pending \subseteq added
    /\ pc[Master] = "out" => added = {}

(* fAllOk is the result of the checks that have been run; a thread that    *)
(* took its batch after a failure does not hide it.                        *)
ResultExact ==
    /\ fAllOk <=> (added \ Pending) \cap Bad = {}
    /\ \A t \in Threads : pc[t] = "working" /\ fAllOk => fOk[t]

(* The inductive invariant. *)
Inv == Typed /\ Positions /\ TodoExact /\ CountersExact /\ BlockExact /\ ResultExact /\ VerdictExact

Idle == {t \in Threads : pc[t] \in Blocked}
Inside == {t \in Threads : pc[t] \in Blocked \cup {"working"}}

(* The checks that are left when t has handed in its batch. *)
Rest(t) == Pending \ ToSet(batch[t])

(* Where the critical section of Loop stands when the clean-up is done:    *)
(* t counts as one of the threads inside and as neither idle nor busy.     *)
CleanedUp(t, todo, total, idle, all) ==
    /\ t \in Threads /\ pc[t] \in {"start", "woken", "working"}
    /\ todo = Cardinality(Rest(t))
    /\ total = Cardinality(Inside \ {t}) + 1
    /\ idle = Cardinality(Idle \ {t})
    /\ all \in BOOLEAN /\ (all => fAllOk)
    /\ all <=> (added \ Rest(t)) \cap Bad = {}

-----------------------------------------------------------------------------
(* Only the empty sequence holds nothing. *)
LEMMA NothingInSeq == \A s \in Seq(Checks) : s = <<>> \/ \E x : x \in ToSet(s)
  <1> SUFFICES ASSUME NEW s \in Seq(Checks), s # <<>> PROVE s[1] \in ToSet(s)
    OBVIOUS
  <1>1. 1 \in DOMAIN s
    OBVIOUS
  <1> QED
    BY <1>1 DEF ToSet

(* A sequence without repetition has as many elements as positions. *)
LEMMA InjectiveSeq ==
  ASSUME NEW S, NEW s \in Seq(S), IsInjective(s)
  PROVE  IsFiniteSet(ToSet(s)) /\ Cardinality(ToSet(s)) = Len(s)
  <1>1. s \in [1..Len(s) -> ToSet(s)] /\ Len(s) \in Nat
    BY DEF ToSet
  <1>2. s \in Bijection(1..Len(s), ToSet(s))
    BY <1>1 DEF Bijection, Injection, Surjection, ToSet
  <1>3. IsFiniteSet(1..Len(s)) /\ Cardinality(1..Len(s)) = Len(s)
    <2>1. 1 \in Int /\ Len(s) \in Int /\ (1 > Len(s) => Len(s) = 0) /\ Len(s) - 1 + 1 = Len(s)
      BY <1>1
    <2> QED
      BY <2>1, FS_Interval
  <1> QED
    BY <1>2, <1>3, FS_Bijection DEF ExistsBijection

(* What is taken from the back of a sequence, and what is left of it.      *)
LEMMA SplitSeq ==
  ASSUME NEW S, NEW s \in Seq(S), IsInjective(s), NEW k \in 0..Len(s)
  PROVE  LET a == SubSeq(s, 1, k)
             b == SubSeq(s, k + 1, Len(s))
         IN  /\ a \in Seq(S) /\ b \in Seq(S) /\ Len(b) = Len(s) - k
             /\ IsInjective(a) /\ IsInjective(b)
             /\ ToSet(a) \cup ToSet(b) = ToSet(s) /\ ToSet(a) \cap ToSet(b) = {}
  <1> DEFINE a == SubSeq(s, 1, k)
             b == SubSeq(s, k + 1, Len(s))
  <1>1. /\ a \in Seq(S) /\ Len(a) = k /\ DOMAIN a = 1..k
        /\ \A i \in 1..k : a[i] = s[i]
    OBVIOUS
  <1>2. /\ b \in Seq(S) /\ Len(b) = Len(s) - k /\ DOMAIN b = 1..(Len(s) - k)
        /\ \A i \in 1..(Len(s) - k) : b[i] = s[k + i]
    OBVIOUS
  <1>3. \A i, j \in 1..Len(s) : s[i] = s[j] => i = j
    BY DEF IsInjective
  <1> HIDE DEF a, b
  <1>4. IsInjective(a)
    BY <1>1, <1>3 DEF IsInjective
  <1>5. IsInjective(b)
    <2> SUFFICES ASSUME NEW i \in 1..(Len(s) - k), NEW j \in 1..(Len(s) - k), b[i] = b[j]
                 PROVE  i = j
      BY <1>2 DEF IsInjective
    <2>1. s[k + i] = s[k + j] /\ k + i \in 1..Len(s) /\ k + j \in 1..Len(s)
      BY <1>2
    <2>2. k + i = k + j
      BY <1>3, <2>1
    <2> QED
      BY <2>2
  <1>6. ASSUME NEW x \in ToSet(a) PROVE x \in ToSet(s) /\ x \notin ToSet(b)
    <2>1. PICK i \in 1..k : x = s[i]
      BY <1>1, <1>6 DEF ToSet
    <2>2. i \in 1..Len(s)
      OBVIOUS
    <2>3. ASSUME NEW j \in 1..(Len(s) - k) PROVE b[j] # x
      <3>1. k + j \in 1..Len(s) /\ k + j # i
        OBVIOUS
      <3> QED
        BY <1>2, <1>3, <2>1, <2>2, <3>1
    <2> QED
      BY <1>2, <2>1, <2>2, <2>3 DEF ToSet
  <1>7. ASSUME NEW x \in ToSet(b) PROVE x \in ToSet(s)
    <2>1. PICK j \in 1..(Len(s) - k) : x = s[k + j]
      BY <1>2, <1>7 DEF ToSet
    <2>2. k + j \in 1..Len(s)
      OBVIOUS
    <2> QED
      BY <2>1, <2>2 DEF ToSet
  <1>8. ASSUME NEW x \in ToSet(s) PROVE x \in ToSet(a) \cup ToSet(b)
    <2>1. PICK i \in 1..Len(s) : x = s[i]
      BY DEF ToSet
    <2>2. CASE i \in 1..k
      BY <1>1, <2>1, <2>2 DEF ToSet
    <2>3. CASE i \notin 1..k
      <3>1. i - k \in 1..(Len(s) - k) /\ k + (i - k) = i
        BY <2>3
      <3>2. b[i - k] = x
        BY <1>2, <2>1, <3>1
      <3> QED
        BY <1>2, <3>1, <3>2 DEF ToSet
    <2> QED
      BY <2>2, <2>3
  <1> QED
    BY <1>1, <1>2, <1>4, <1>5, <1>6, <1>7, <1>8 DEF a, b

(* What a sequence holds after others have been appended. *)
LEMMA ConcatSeq ==
  ASSUME NEW S, NEW q \in Seq(S), NEW s \in Seq(S), IsInjective(q), IsInjective(s),
         ToSet(q) \cap ToSet(s) = {}
  PROVE  /\ q \o s \in Seq(S) /\ IsInjective(q \o s)
         /\ ToSet(q \o s) = ToSet(q) \cup ToSet(s)
  <1> DEFINE r == q \o s
  <1>1. /\ r \in Seq(S) /\ DOMAIN r = 1..(Len(q) + Len(s)) /\ Len(q) \in Nat /\ Len(s) \in Nat
        /\ \A i \in 1..Len(q) : r[i] = q[i]
        /\ \A i \in 1..Len(s) : r[Len(q) + i] = s[i]
    OBVIOUS
  <1>2. ASSUME NEW i \in 1..(Len(q) + Len(s)), i \notin 1..Len(q)
        PROVE  i - Len(q) \in 1..Len(s) /\ r[i] = s[i - Len(q)]
    <2>1. i - Len(q) \in 1..Len(s) /\ Len(q) + (i - Len(q)) = i
      BY <1>1, <1>2
    <2> QED
      BY <1>1, <2>1
  <1> HIDE DEF r
  <1>3. DOMAIN q = 1..Len(q) /\ DOMAIN s = 1..Len(s)
    OBVIOUS
  <1>4. ToSet(r) = ToSet(q) \cup ToSet(s)
    <2>1. ASSUME NEW i \in DOMAIN r PROVE r[i] \in ToSet(q) \cup ToSet(s)
      <3>1. CASE i \in 1..Len(q)
        BY <1>1, <1>3, <3>1 DEF ToSet
      <3>2. CASE i \notin 1..Len(q)
        BY <1>1, <1>2, <1>3, <3>2 DEF ToSet
      <3> QED
        BY <3>1, <3>2
    <2>2. ASSUME NEW i \in DOMAIN q PROVE q[i] \in ToSet(r)
      <3>1. i \in DOMAIN r /\ r[i] = q[i]
        BY <1>1, <1>3
      <3> QED
        BY <3>1 DEF ToSet
    <2>3. ASSUME NEW i \in DOMAIN s PROVE s[i] \in ToSet(r)
      <3>1. Len(q) + i \in DOMAIN r /\ r[Len(q) + i] = s[i]
        BY <1>1, <1>3
      <3> QED
        BY <3>1 DEF ToSet
    <2> QED
      BY <2>1, <2>2, <2>3 DEF ToSet
  <1>5. ASSUME NEW i \in DOMAIN r, NEW j \in DOMAIN r, r[i] = r[j] PROVE i = j
    <2>1. CASE i \in 1..Len(q) /\ j \in 1..Len(q)
      BY <1>1, <1>3, <1>5, <2>1 DEF IsInjective
    <2>2. CASE i \notin 1..Len(q) /\ j \notin 1..Len(q)
      <3>1. /\ i - Len(q) \in DOMAIN s /\ j - Len(q) \in DOMAIN s
            /\ s[i - Len(q)] = s[j - Len(q)]
        BY <1>1, <1>2, <1>3, <1>5, <2>2
      <3>2. i - Len(q) = j - Len(q)
        BY <3>1 DEF IsInjective
      <3> QED
        BY <1>1, <3>2
    <2>3. ASSUME NEW x \in DOMAIN r, NEW y \in DOMAIN r, x \in 1..Len(q), y \notin 1..Len(q)
          PROVE  r[x] # r[y]
      <3>1. r[x] \in ToSet(q)
        BY <1>1, <1>3, <2>3 DEF ToSet
      <3>2. r[y] \in ToSet(s)
        BY <1>1, <1>2, <1>3, <2>3 DEF ToSet
      <3> QED
        BY <3>1, <3>2
    <2> QED
      BY <1>5, <2>1, <2>2, <2>3
  <1> QED
    BY <1>1, <1>4, <1>5 DEF r, IsInjective

-----------------------------------------------------------------------------
(* The threads are finitely many, hence so are those idle or in Loop.      *)
LEMMA CountsFinite ==
  ASSUME NEW T \in SUBSET Threads
  PROVE  IsFiniteSet(T) /\ Cardinality(T) \in 0..Cardinality(Threads)
  <1>1. IsFiniteSet(Threads)
    BY FiniteAssumption, FS_AddElement DEF Threads
  <1> QED
    BY <1>1, FS_Subset, FS_CardinalityType

(* The pending checks are checks, finitely many. *)
LEMMA PendingFinite ==
  ASSUME Typed
  PROVE  /\ Pending \subseteq Checks
         /\ \A P \in SUBSET Pending : IsFiniteSet(P) /\ Cardinality(P) \in 0..Cardinality(Checks)
  <1>1. \A s \in Seq(Checks) : ToSet(s) \subseteq Checks
    BY DEF ToSet
  <1>2. Pending \subseteq Checks
    BY <1>1 DEF Pending, Typed
  <1> QED
    BY <1>2, FiniteAssumption, FS_Subset, FS_CardinalityType

(* The counters after t has gone to a new place and the other threads have *)
(* stayed, but for being woken.                                            *)
LEMMA CountersMove ==
  ASSUME Typed, Typed', NEW t \in Threads,
         \A u \in Threads \ {t} : /\ pc'[u] \in Blocked <=> pc[u] \in Blocked
                                  /\ pc'[u] = "working" <=> pc[u] = "working"
  PROVE  /\ pc'[t] = "waiting" => /\ Cardinality(Idle') = Cardinality(Idle \ {t}) + 1
                                  /\ Cardinality(Inside') = Cardinality(Inside \ {t}) + 1
         /\ pc'[t] = "working" => /\ Cardinality(Idle') = Cardinality(Idle \ {t})
                                  /\ Cardinality(Inside') = Cardinality(Inside \ {t}) + 1
         /\ pc'[t] = "out"     => /\ Cardinality(Idle') = Cardinality(Idle \ {t})
                                  /\ Cardinality(Inside') = Cardinality(Inside \ {t})
  <1>1. /\ IsFiniteSet(Idle \ {t}) /\ IsFiniteSet(Inside \ {t})
    BY CountsFinite DEF Idle, Inside
  <1>2. CASE pc'[t] = "waiting"
    <2>1. Idle' = (Idle \ {t}) \cup {t} /\ Inside' = (Inside \ {t}) \cup {t}
      BY <1>2 DEF Idle, Inside, Blocked
    <2> QED
      BY <1>1, <1>2, <2>1, FS_AddElement
  <1>3. CASE pc'[t] = "working"
    <2>1. Idle' = Idle \ {t} /\ Inside' = (Inside \ {t}) \cup {t}
      BY <1>3 DEF Idle, Inside, Blocked
    <2> QED
      BY <1>1, <1>3, <2>1, FS_AddElement
  <1>4. CASE pc'[t] = "out"
    BY <1>4 DEF Idle, Inside, Blocked
  <1> QED
    BY <1>2, <1>3, <1>4

(* The checks of other threads are not those t hands in. *)
LEMMA RestOf ==
  ASSUME TodoExact, NEW t \in Threads
  PROVE  Rest(t) = ToSet(queue) \cup UNION {ToSet(batch[u]) : u \in Threads \ {t}}
  BY DEF TodoExact, Rest, Pending

(* t hands in its batch. *)
LEMMA HandIn ==
  ASSUME Typed, TodoExact, NEW t \in Threads,
         queue' = queue, batch' = [batch EXCEPT ![t] = <<>>], nTodo' = Cardinality(Rest(t))
  PROVE  Pending' = Rest(t) /\ TodoExact'
  <1>1. batch'[t] = <<>> /\ \A u \in Threads \ {t} : batch'[u] = batch[u]
    BY DEF Typed
  <1>2. ToSet(<<>>) = {} /\ IsInjective(<<>>)
    BY DEF ToSet, IsInjective
  <1>3. Pending' = Rest(t)
    BY <1>1, <1>2, RestOf DEF Pending
  <1> QED
    BY <1>1, <1>2, <1>3 DEF TodoExact

(* t hands in its batch and takes k checks from the back of the queue. *)
LEMMA TakeBatch ==
  ASSUME Typed, TodoExact, NEW t \in Threads, NEW n \in 1..Len(queue),
         batch' = [batch EXCEPT ![t] = SubSeq(queue, Len(queue) - n + 1, Len(queue))],
         queue' = SubSeq(queue, 1, Len(queue) - n),
         nTodo' = Cardinality(Rest(t))
  PROVE  /\ Pending' = Rest(t) /\ TodoExact'
         /\ batch'[t] \in Seq(Checks) /\ batch'[t] # <<>> /\ queue' \in Seq(Checks)
  <1> DEFINE k == Len(queue) - n
  <1>1. batch'[t] = SubSeq(queue, k + 1, Len(queue)) /\ \A u \in Threads \ {t} : batch'[u] = batch[u]
    BY DEF Typed
  <1>2. queue \in Seq(Checks) /\ IsInjective(queue) /\ k \in 0..Len(queue)
    BY DEF Typed, TodoExact
  <1>3. /\ queue' \in Seq(Checks) /\ batch'[t] \in Seq(Checks) /\ Len(batch'[t]) = n
        /\ IsInjective(queue') /\ IsInjective(batch'[t])
        /\ ToSet(queue') \cup ToSet(batch'[t]) = ToSet(queue)
        /\ ToSet(queue') \cap ToSet(batch'[t]) = {}
    <2>1. Len(queue) - k = n /\ queue' = SubSeq(queue, 1, k)
      BY <1>2
    <2> HIDE DEF k
    <2> DEFINE a == SubSeq(queue, 1, k)
               b == SubSeq(queue, k + 1, Len(queue))
    <2>2. /\ a \in Seq(Checks) /\ b \in Seq(Checks) /\ Len(b) = Len(queue) - k
          /\ IsInjective(a) /\ IsInjective(b)
          /\ ToSet(a) \cup ToSet(b) = ToSet(queue) /\ ToSet(a) \cap ToSet(b) = {}
      BY <1>2, SplitSeq
    <2>3. queue' = a /\ batch'[t] = b
      BY <1>1, <2>1
    <2> HIDE DEF a, b
    <2> QED
      BY <2>1, <2>2, <2>3
  <1>4. Pending' = Rest(t)
    <2> DEFINE others == UNION {ToSet(batch[u]) : u \in Threads \ {t}}
    <2>1. UNION {ToSet(batch'[u]) : u \in Threads} = ToSet(batch'[t]) \cup others
      BY <1>1
    <2>2. Rest(t) = ToSet(queue) \cup others
      BY RestOf
    <2> HIDE DEF others
    <2> QED
      BY <1>3, <2>1, <2>2 DEF Pending
  <1>5. TodoExact'
    <2>1. \A u \in Threads \ {t} : /\ ToSet(batch'[u]) \cap ToSet(queue') = {}
                                   /\ ToSet(batch'[u]) \cap ToSet(batch'[t]) = {}
      BY <1>1, <1>3 DEF TodoExact
    <2> QED
      BY <1>1, <1>3, <1>4, <2>1 DEF TodoExact
  <1>6. batch'[t] # <<>>
    <2>1. n # 0 /\ Len(<<>>) = 0
      OBVIOUS
    <2>2. Len(batch'[t]) # Len(<<>>)
      BY <1>3, <2>1
    <2> QED
      BY <2>2, Zenon
  <1> QED
    BY <1>3, <1>4, <1>5, <1>6

(* A thread that has reached the end of the clean-up returns, waits or     *)
(* takes a batch: the invariant holds when it gives up the mutex.          *)
LEMMA ProceedInv ==
  ASSUME Inv, NEW t, NEW todo, NEW total, NEW idle, NEW all,
         CleanedUp(t, todo, total, idle, all), Proceed(t, todo, total, idle, all)
  PROVE  Inv'
  <1> USE DEF Inv
  <1>1. /\ t \in Threads /\ todo = Cardinality(Rest(t)) /\ all \in BOOLEAN
        /\ total = Cardinality(Inside \ {t}) + 1 /\ idle = Cardinality(Idle \ {t})
        /\ all <=> (added \ Rest(t)) \cap Bad = {}
        /\ all => fAllOk
        /\ pc[t] \in {"start", "woken", "working"}
    BY DEF CleanedUp
  <1>2. todo \in Nat /\ total \in Nat /\ idle \in Nat /\ total - 1 \in Nat
        /\ total - 1 = Cardinality(Inside \ {t}) /\ IsFiniteSet(Rest(t))
    BY <1>1, PendingFinite, CountsFinite DEF Rest, Idle, Inside
  <1>3. Rest(t) \subseteq added
    BY DEF Rest, BlockExact
  <1>4. CASE Return(t, todo, total, idle, all)
    <2>1. /\ t = Master /\ todo = 0 /\ queue' = queue /\ batch' = [batch EXCEPT ![t] = <<>>]
          /\ pc' = [pc EXCEPT ![t] = "out"] /\ nTodo' = todo /\ nIdle' = idle /\ nTotal' = total - 1
          /\ added' = {} /\ fAllOk' = TRUE /\ fOk' = fOk
          /\ verdict' = [ok |-> all, checks |-> added]
      BY <1>4 DEF Return, ResetStatus, LeftTotal
    <2>2. Pending' = Rest(t) /\ TodoExact'
      BY <1>1, <2>1, HandIn
    <2>3. Rest(t) = {}
      BY <1>1, <1>2, <2>1, FS_EmptySet
    <2>4. Typed'
      BY <1>1, <1>2, <2>1 DEF Typed
    <2>5. \A u \in Threads : batch'[u] = <<>> /\ pc'[u] # "working"
      <3>1. \A u \in Threads : ToSet(batch'[u]) = {}
        BY <2>2, <2>3 DEF Pending
      <3>2. \A u \in Threads : batch'[u] = <<>>
        BY <2>4, <3>1, NothingInSeq DEF Typed
      <3> QED
        BY <1>1, <2>1, <3>2 DEF Positions, Typed
    <2>6. Positions'
      BY <1>1, <2>1, <2>5, MasterAssumption DEF Positions, Typed, Threads
    <2>7. CountersExact'
      <3>1. pc'[t] = "out" /\ \A u \in Threads \ {t} : pc'[u] = pc[u]
        BY <1>1, <2>1 DEF Typed
      <3> QED
        BY <1>1, <1>2, <2>1, <2>4, <3>1, CountersMove DEF CountersExact, Idle, Inside
    <2>8. BlockExact' /\ ResultExact'
      BY <2>1, <2>2, <2>3, <2>5 DEF BlockExact, ResultExact
    <2>9. VerdictExact'
      BY <1>1, <2>1, <2>3 DEF VerdictExact
    <2> QED
      BY <2>2, <2>4, <2>6, <2>7, <2>8, <2>9
  <1>5. ASSUME NEW place \in {"waiting", "working"},
               pc' = [Notified(t, todo) EXCEPT ![t] = place]
        PROVE  /\ pc' \in [Threads -> {"start", "waiting", "woken", "working", "out", "adding"}]
               /\ pc'[t] = place
               /\ \A u \in Threads \ {t} : \/ pc'[u] = pc[u]
                                           \/ u = Master /\ pc[u] = "waiting" /\ pc'[u] = "woken"
    BY <1>1, <1>5, MasterAssumption DEF Notified, Typed, Threads
  <1>6. CASE Sleep(t, todo, total, idle, all)
    <2>1. /\ queue' = queue /\ batch' = [batch EXCEPT ![t] = <<>>]
          /\ pc' = [Notified(t, todo) EXCEPT ![t] = "waiting"]
          /\ nTodo' = todo /\ nIdle' = idle + 1 /\ nTotal' = total
          /\ added' = added /\ fAllOk' = all /\ fOk' = fOk /\ verdict' = verdict
      BY <1>6 DEF Sleep
    <2>2. Pending' = Rest(t) /\ TodoExact'
      BY <1>1, <2>1, HandIn
    <2>3. /\ pc' \in [Threads -> {"start", "waiting", "woken", "working", "out", "adding"}]
          /\ pc'[t] = "waiting"
          /\ \A u \in Threads \ {t} : \/ pc'[u] = pc[u]
                                      \/ u = Master /\ pc[u] = "waiting" /\ pc'[u] = "woken"
      BY <1>5, <2>1
    <2>4. Typed'
      BY <1>1, <1>2, <2>1, <2>3 DEF Typed
    <2>5. Positions'
      <3>1. batch'[t] = <<>> /\ \A u \in Threads \ {t} : batch'[u] = batch[u]
        BY <1>1, <2>1 DEF Typed
      <3> QED
        BY <2>3, <3>1 DEF Positions, Threads
    <2>6. CountersExact'
      <3>1. \A u \in Threads \ {t} : /\ pc'[u] \in Blocked <=> pc[u] \in Blocked
                                     /\ pc'[u] = "working" <=> pc[u] = "working"
        BY <2>3 DEF Blocked
      <3> QED
        BY <1>1, <1>2, <2>1, <2>3, <2>4, <3>1, CountersMove DEF CountersExact, Idle, Inside
    <2>7. BlockExact' /\ ResultExact' /\ VerdictExact'
      <3>1. pc'[Master] = "out" => pc[Master] = "out"
        BY <2>3 DEF Threads
      <3>2. \A u \in Threads : pc'[u] = "working" => pc[u] = "working"
        BY <2>3
      <3> QED
        BY <1>1, <1>3, <2>1, <2>2, <3>1, <3>2 DEF BlockExact, ResultExact, VerdictExact
    <2> QED
      BY <2>2, <2>4, <2>5, <2>6, <2>7
  <1>7. CASE Take(t, todo, total, idle, all)
    <2> DEFINE n == BatchSize(total, idle)
    <2>1. n \in 1..Len(queue)
      <3>1. Len(queue) \in Nat /\ Len(queue) # 0
        BY <1>7 DEF Take, Typed
      <3>2. Len(queue) \div (total + idle + 1) \in 0..Len(queue)
        BY <1>2, <3>1
      <3> QED
        BY <3>1, <3>2, BatchAssumption DEF BatchSize, Max2, Min2
    <2> HIDE DEF n
    <2>2. /\ batch' = [batch EXCEPT ![t] = SubSeq(queue, Len(queue) - n + 1, Len(queue))]
          /\ queue' = SubSeq(queue, 1, Len(queue) - n)
          /\ pc' = [Notified(t, todo) EXCEPT ![t] = "working"]
          /\ nTodo' = todo /\ nIdle' = idle /\ nTotal' = total
          /\ added' = added /\ fAllOk' = all /\ fOk' = [fOk EXCEPT ![t] = all] /\ verdict' = verdict
      BY <1>7 DEF Take, n
    <2>3. /\ Pending' = Rest(t) /\ TodoExact'
          /\ batch'[t] \in Seq(Checks) /\ batch'[t] # <<>> /\ queue' \in Seq(Checks)
      BY <1>1, <2>1, <2>2, TakeBatch
    <2>4. /\ pc' \in [Threads -> {"start", "waiting", "woken", "working", "out", "adding"}]
          /\ pc'[t] = "working"
          /\ \A u \in Threads \ {t} : \/ pc'[u] = pc[u]
                                      \/ u = Master /\ pc[u] = "waiting" /\ pc'[u] = "woken"
      BY <1>5, <2>2
    <2>5. \A u \in Threads \ {t} : batch'[u] = batch[u] /\ fOk'[u] = fOk[u]
      BY <2>2 DEF Typed
    <2>6. fOk'[t] = all /\ fOk' \in [Threads -> BOOLEAN]
      BY <1>1, <2>2 DEF Typed
    <2>7. batch' \in [Threads -> Seq(Checks)]
      BY <1>1, <2>2, <2>3 DEF Typed
    <2>8. Typed'
      BY <1>1, <1>2, <2>2, <2>3, <2>4, <2>6, <2>7 DEF Typed
    <2>9. Positions'
      BY <2>3, <2>4, <2>5 DEF Positions, Threads
    <2>10. CountersExact'
      <3>1. \A u \in Threads \ {t} : /\ pc'[u] \in Blocked <=> pc[u] \in Blocked
                                     /\ pc'[u] = "working" <=> pc[u] = "working"
        BY <2>4 DEF Blocked
      <3> QED
        BY <1>1, <1>2, <2>2, <2>4, <2>8, <3>1, CountersMove DEF CountersExact, Idle, Inside
    <2>11. BlockExact' /\ VerdictExact'
      <3>1. pc'[Master] = "out" => pc[Master] = "out"
        BY <2>4 DEF Threads
      <3> QED
        BY <1>3, <2>2, <2>3, <3>1 DEF BlockExact, VerdictExact
    <2>12. ResultExact'
      BY <1>1, <2>2, <2>3, <2>4, <2>5, <2>6 DEF ResultExact
    <2> QED
      BY <2>3, <2>8, <2>9, <2>10, <2>11, <2>12
  <1> QED
    BY <1>4, <1>6, <1>7 DEF Proceed

-----------------------------------------------------------------------------
(* The initial state satisfies the invariant. *)
LEMMA InitInv == Init => Inv
  <1> SUFFICES ASSUME Init PROVE Inv
    OBVIOUS
  <1>1. Typed
    BY DEF Init, Typed, Threads
  <1>2. ToSet(<<>>) = {} /\ IsInjective(<<>>)
    BY DEF ToSet, IsInjective
  <1>3. Pending = {}
    BY <1>2 DEF Init, Pending
  <1>4. TodoExact
    BY <1>2, <1>3, FS_EmptySet DEF Init, TodoExact
  <1>5. Positions
    BY MasterAssumption DEF Init, Positions, Threads
  <1>6. CountersExact
    <2>1. {t \in Threads : pc[t] \in Blocked} = {}
      BY DEF Init, Blocked
    <2>2. {t \in Threads : pc[t] \in Blocked \cup {"working"}} = {}
      BY DEF Init, Blocked
    <2> QED
      BY <2>1, <2>2, FS_EmptySet DEF Init, CountersExact
  <1>7. BlockExact /\ ResultExact /\ VerdictExact
    BY <1>3 DEF Init, BlockExact, ResultExact, VerdictExact
  <1> QED
    BY <1>1, <1>4, <1>5, <1>6, <1>7 DEF Inv

(* A step that only moves threads that are not in Loop, or wakes one,      *)
(* keeps the invariant.                                                    *)
LEMMA MoveInv ==
  ASSUME Inv, UNCHANGED <<queueVars, batch, fOk, added, verdict>>,
         pc' \in [Threads -> {"start", "waiting", "woken", "working", "out", "adding"}],
         \A t \in Threads : \/ pc'[t] = pc[t]
                            \/ pc[t] = "waiting" /\ pc'[t] = "woken"
                            \/ t = Master /\ {pc[t], pc'[t]} \subseteq {"out", "adding", "start"}
                               /\ pc'[t] # "out"
  PROVE  Inv'
  <1> USE DEF Inv
  <1>1. Typed' /\ TodoExact' /\ Pending' = Pending
    BY DEF queueVars, Typed, TodoExact, Pending
  <1>2. Positions'
    BY MasterAssumption DEF Positions, Threads
  <1>3. CountersExact'
    <2>1. \A t \in Threads : /\ pc'[t] \in Blocked <=> pc[t] \in Blocked
                             /\ pc'[t] = "working" <=> pc[t] = "working"
      BY DEF Blocked
    <2>2. {t \in Threads : pc'[t] \in Blocked} = {t \in Threads : pc[t] \in Blocked}
      BY <2>1
    <2>3. {t \in Threads : pc'[t] \in Blocked \cup {"working"}}
            = {t \in Threads : pc[t] \in Blocked \cup {"working"}}
      BY <2>1
    <2> QED
      BY <2>2, <2>3 DEF CountersExact, queueVars
  <1>4. BlockExact' /\ ResultExact' /\ VerdictExact'
    <2>1. /\ pc'[Master] = "out" => pc[Master] = "out"
          /\ \A t \in Threads : pc'[t] = "working" => pc[t] = "working"
      BY DEF Threads
    <2> QED
      BY <1>1, <2>1 DEF BlockExact, ResultExact, VerdictExact, queueVars
  <1> QED
    BY <1>1, <1>2, <1>3, <1>4

(* Adding the checks of a transaction to the queue keeps the invariant. *)
LEMMA AddInv ==
  ASSUME Inv, NEW s \in NewBatches, Add(s)
  PROVE  Inv'
  <1> USE DEF Inv
  <1>1. s \in Seq(Checks) /\ ToSet(s) \subseteq Checks \ added /\ IsInjective(s)
    <2>1. PICK m \in 0..nMaxInputs : s \in [1..m -> Checks \ added]
      BY DEF NewBatches, SeqOf
    <2>2. IsInjective(s)
      BY DEF NewBatches
    <2>3. s \in Seq(Checks \ added) /\ DOMAIN s = 1..m
      BY <2>1
    <2> QED
      BY <2>1, <2>2, <2>3 DEF ToSet
  <1>2. /\ queue' = queue \o s /\ nTodo' = nTodo + Len(s) /\ added' = added \cup ToSet(s)
        /\ UNCHANGED <<nIdle, nTotal, fAllOk, batch, fOk, verdict>>
    BY DEF Add, CountAdded
  <1>3. /\ pc' \in [Threads -> {"start", "waiting", "woken", "working", "out", "adding"}]
        /\ \A t \in Threads : pc'[t] = pc[t] \/ (pc[t] = "waiting" /\ pc'[t] = "woken")
    BY MasterAssumption DEF Add, Typed, Threads
  <1>4. ToSet(queue) \cap ToSet(s) = {} /\ Pending \cap ToSet(s) = {}
    BY <1>1 DEF Pending, BlockExact
  <1>5. queue' \in Seq(Checks) /\ IsInjective(queue') /\ ToSet(queue') = ToSet(queue) \cup ToSet(s)
    BY <1>1, <1>2, <1>4, ConcatSeq DEF Typed, TodoExact
  <1>6. Pending' = Pending \cup ToSet(s)
    BY <1>2, <1>5 DEF Pending
  <1>7. Typed'
    <2>1. nTodo + Len(s) \in Nat
      BY <1>1 DEF Typed
    <2> QED
      BY <1>1, <1>2, <1>3, <1>5, <2>1 DEF Typed
  <1>8. TodoExact'
    <2>1. IsFiniteSet(Pending) /\ Cardinality(Pending) \in Nat
      BY PendingFinite
    <2>2. IsFiniteSet(ToSet(s)) /\ Cardinality(ToSet(s)) = Len(s) /\ Len(s) \in Nat
      BY <1>1, InjectiveSeq
    <2>3. Cardinality(Pending') = Cardinality(Pending) + Len(s)
      <3>1. Cardinality(Pending \cup ToSet(s))
              = Cardinality(Pending) + Cardinality(ToSet(s)) - Cardinality(Pending \cap ToSet(s))
        BY <2>1, <2>2, FS_Union
      <3>2. Cardinality(Pending \cap ToSet(s)) = 0
        BY <1>4, FS_EmptySet
      <3> QED
        BY <1>6, <2>1, <2>2, <3>1, <3>2
    <2>4. \A t \in Threads : ToSet(batch[t]) \cap ToSet(s) = {}
      BY <1>4 DEF Pending
    <2> QED
      BY <1>2, <1>5, <2>3, <2>4 DEF TodoExact
  <1>9. Positions'
    BY <1>2, <1>3 DEF Positions, Threads
  <1>10. CountersExact'
    <2>1. {t \in Threads : pc'[t] \in Blocked} = {t \in Threads : pc[t] \in Blocked}
      BY <1>3 DEF Blocked
    <2>2. {t \in Threads : pc'[t] \in Blocked \cup {"working"}}
            = {t \in Threads : pc[t] \in Blocked \cup {"working"}}
      BY <1>3 DEF Blocked
    <2> QED
      BY <1>2, <2>1, <2>2 DEF CountersExact
  <1>11. BlockExact' /\ ResultExact' /\ VerdictExact'
    <2>1. pc'[Master] # "out" /\ \A t \in Threads : pc'[t] = "working" => pc[t] = "working"
      BY <1>3 DEF Add, Threads
    <2>2. added' \ Pending' = added \ Pending
      BY <1>1, <1>2, <1>6
    <2> QED
      BY <1>2, <1>6, <2>1, <2>2 DEF BlockExact, ResultExact, VerdictExact
  <1> QED
    BY <1>7, <1>8, <1>9, <1>10, <1>11

(* What the clean-up of Loop leaves, for the three ways into it. *)
LEMMA EnterCleansUp ==
  ASSUME Inv, NEW t \in Threads, pc[t] = "start"
  PROVE  CleanedUp(t, nTodo, nTotal + 1, nIdle, fAllOk)
  <1>1. ToSet(batch[t]) = {}
    BY DEF Inv, Positions, ToSet
  <1>2. Idle \ {t} = Idle /\ Inside \ {t} = Inside
    BY DEF Idle, Inside, Blocked
  <1>3. Rest(t) = Pending
    BY <1>1 DEF Rest
  <1> QED
    BY <1>2, <1>3 DEF CleanedUp, Inv, Typed, TodoExact, CountersExact, ResultExact, Idle, Inside

(* A thread that was idle or busy is taken off the counters of its kind.   *)
LEMMA WakeCleansUp ==
  ASSUME Inv, NEW t \in Threads, pc[t] = "woken"
  PROVE  CleanedUp(t, nTodo, nTotal, nIdle - 1, fAllOk)
  <1>1. ToSet(batch[t]) = {}
    BY DEF Inv, Positions, ToSet
  <1>2. t \in Idle /\ t \in Inside /\ IsFiniteSet(Idle) /\ IsFiniteSet(Inside)
        /\ Cardinality(Idle) \in Nat /\ Cardinality(Inside) \in Nat
    BY CountsFinite DEF Idle, Inside, Blocked
  <1>3. Cardinality(Idle \ {t}) = nIdle - 1 /\ Cardinality(Inside \ {t}) = nTotal - 1
    BY <1>2, FS_RemoveElement DEF Inv, CountersExact, Idle, Inside
  <1>4. Rest(t) = Pending
    BY <1>1 DEF Rest
  <1> QED
    BY <1>3, <1>4 DEF CleanedUp, Inv, Typed, TodoExact, ResultExact

(* A thread that hands in its batch reports its checks and their result.   *)
LEMMA FinishCleansUp ==
  ASSUME Inv, NEW t \in Threads, pc[t] = "working"
  PROVE  CleanedUp(t, nTodo - Len(batch[t]), nTotal, nIdle, fAllOk /\ Outcome(t))
  <1> USE DEF Inv
  <1>1. IsFiniteSet(ToSet(batch[t])) /\ Cardinality(ToSet(batch[t])) = Len(batch[t])
        /\ Len(batch[t]) \in Nat
    BY InjectiveSeq DEF Typed, TodoExact
  <1>2. ToSet(batch[t]) \subseteq Pending /\ IsFiniteSet(Pending) /\ Cardinality(Pending) \in Nat
    BY PendingFinite DEF Pending
  <1>3. Cardinality(Rest(t)) = nTodo - Len(batch[t])
    <2>1. Pending \cap ToSet(batch[t]) = ToSet(batch[t])
      BY <1>2
    <2>2. Cardinality(Rest(t)) = Cardinality(Pending) - Cardinality(Pending \cap ToSet(batch[t]))
      BY <1>2, FS_Difference DEF Rest
    <2>3. Cardinality(Pending) = nTodo
      BY DEF TodoExact
    <2> QED
      BY <1>1, <2>1, <2>2, <2>3
  <1>4. t \notin Idle /\ t \in Inside /\ IsFiniteSet(Inside) /\ Cardinality(Inside) \in Nat
    BY CountsFinite DEF Idle, Inside, Blocked
  <1>5. Cardinality(Idle \ {t}) = nIdle /\ Cardinality(Inside \ {t}) = nTotal - 1
    <2>1. Idle \ {t} = Idle
      BY <1>4
    <2> QED
      BY <1>4, <2>1, FS_RemoveElement DEF CountersExact, Idle, Inside
  <1>6. (fAllOk /\ Outcome(t)) <=> (added \ Rest(t)) \cap Bad = {}
    <2>1. added \ Rest(t) = (added \ Pending) \cup ToSet(batch[t])
      BY <1>2 DEF Rest, BlockExact
    <2>2. (\A i \in DOMAIN batch[t] : batch[t][i] \notin Bad) <=> ToSet(batch[t]) \cap Bad = {}
      BY DEF ToSet
    <2> QED
      BY <2>1, <2>2 DEF Outcome, ResultExact
  <1>7. (fAllOk /\ Outcome(t)) \in BOOLEAN
    BY DEF Outcome, Typed
  <1>8. nTotal = Cardinality(Inside \ {t}) + 1
    BY <1>5 DEF Typed
  <1> QED
    BY <1>3, <1>5, <1>6, <1>7, <1>8 DEF CleanedUp

(* Every step keeps the invariant. *)
LEMMA NextInv == Inv /\ [Next]_vars => Inv'
  <1> SUFFICES ASSUME Inv, [Next]_vars PROVE Inv'
    OBVIOUS
  <1>1. ASSUME NEW t \in Threads, Step(t) PROVE Inv'
    <2>1. CASE EnterLoop(t)
      BY <2>1, EnterCleansUp, ProceedInv DEF EnterLoop
    <2>2. CASE FinishBatch(t)
      BY <2>2, FinishCleansUp, ProceedInv DEF FinishBatch
    <2>3. CASE WakeUp(t)
      BY <2>3, WakeCleansUp, ProceedInv DEF WakeUp
    <2> QED
      BY <1>1, <2>1, <2>2, <2>3 DEF Step
  <1>2. ASSUME NEW t \in Threads, SpuriousWake(t) PROVE Inv'
    BY <1>2, MoveInv DEF SpuriousWake, Inv, Typed
  <1>3. CASE MakeControl \/ Wait
    <2>1. Master \in Threads
      BY DEF Threads
    <2> QED
      BY <1>3, <2>1, MoveInv DEF MakeControl, Wait, Inv, Typed
  <1>4. CASE UNCHANGED vars
    BY <1>4, MoveInv DEF vars, Inv, Typed
  <1> QED
    BY <1>1, <1>2, <1>3, <1>4, AddInv DEF Next

(* The inductive invariant holds in every reachable state. *)
THEOREM QueueInvariant == Spec => []Inv
  BY InitInv, NextInv, PTL DEF Spec

(* The counters of the queue stay in their ranges. *)
THEOREM QueueTypeOK == Spec => []TypeOK
  <1>1. Inv => TypeOK
    BY CountsFinite, PendingFinite DEF Inv, Typed, TypeOK, TodoExact, CountersExact
  <1> QED
    BY QueueInvariant, <1>1, PTL

(* nTodo, nIdle and nTotal count what they stand for, and no check is in   *)
(* two places.                                                             *)
THEOREM QueueBookkeepingExact == Spec => []BookkeepingExact
  BY QueueInvariant, PTL DEF Inv, BookkeepingExact

(* Wait returns true exactly when every check of the block succeeded. *)
THEOREM QueueVerdictExact == Spec => []VerdictExact
  BY QueueInvariant, PTL DEF Inv

(* The assertion of CCheckQueueControl's constructor holds. *)
THEOREM QueueControlFindsIdle == Spec => []ControlFindsIdle
  <1>1. Inv => ControlFindsIdle
    <2> SUFFICES ASSUME Inv, pc[Master] = "out" PROVE IsIdle
      BY DEF ControlFindsIdle
    <2> USE DEF Inv
    <2>1. added = {} /\ Pending = {}
      BY DEF BlockExact
    <2>2. nTodo = 0 /\ fAllOk
      BY <2>1, FS_EmptySet DEF TodoExact, ResultExact
    <2>3. \A t \in Threads : pc[t] # "working"
      <3>1. \A t \in Threads : ToSet(batch[t]) = {}
        BY <2>1 DEF Pending
      <3> QED
        BY <3>1, NothingInSeq DEF Positions, Typed
    <2>4. {t \in Threads : pc[t] \in Blocked} = {t \in Threads : pc[t] \in Blocked \cup {"working"}}
      BY <2>3
    <2> QED
      BY <2>2, <2>4 DEF IsIdle, CountersExact
  <1> QED
    BY QueueInvariant, <1>1, PTL
=============================================================================
