--------------------------- MODULE AddrManProofs ----------------------------
(***************************************************************************)
(* Theorems about AddrMan, for all services, tables and limits.            *)
(***************************************************************************)
EXTENDS AddrMan, TLAPS, FiniteSetTheorems, WellFoundedInduction, NaturalsInduction

Partial(D, R) == UNION {[E -> R] : E \in SUBSET D}

InfoType ==
    [svc : Services, source : Sources, nRefCount : Nat, fInTried : BOOLEAN, nRandomPos : Nat,
     succeeded : BOOLEAN]

Manager ==
    [mapInfo : Partial(Nat, InfoType), mapAddr : Partial(Hosts, Nat), vRandom : Seq(Nat),
     nTried : Int, nNew : Int, vvTried : [TriedSlots -> Int], vvNew : [NewSlots -> Int],
     m_tried_collisions : SUBSET Nat, nIdCount : Nat, asserts : BOOLEAN]

(* mapInfo, vRandom and mapAddr are indexes of the same entries. *)
RandomIndex(m) ==
    /\ \A id \in DOMAIN m.mapInfo :
          m.mapInfo[id].nRandomPos \in 1 .. Len(m.vRandom) /\ m.vRandom[m.mapInfo[id].nRandomPos] = id
    /\ \A p \in 1 .. Len(m.vRandom) :
          m.vRandom[p] \in DOMAIN m.mapInfo /\ m.mapInfo[m.vRandom[p]].nRandomPos = p
HostIndex(m) ==
    /\ \A id \in DOMAIN m.mapInfo :
          Host[m.mapInfo[id].svc] \in DOMAIN m.mapAddr /\ m.mapAddr[Host[m.mapInfo[id].svc]] = id
    /\ \A h \in DOMAIN m.mapAddr :
          m.mapAddr[h] \in DOMAIN m.mapInfo /\ Host[m.mapInfo[m.mapAddr[h]].svc] = h

(* All of an entry but its place in vRandom *)
Kept(info, was) ==
    /\ info.svc = was.svc /\ info.source = was.source /\ info.nRefCount = was.nRefCount
    /\ info.fInTried = was.fInTried /\ info.succeeded = was.succeeded

-----------------------------------------------------------------------------
(* Membership in a set of partial functions *)
LEMMA PartialIs ==
  ASSUME NEW D, NEW R, NEW f
  PROVE  f \in Partial(D, R) <=> /\ f = [x \in DOMAIN f |-> f[x]]
                                 /\ DOMAIN f \subseteq D
                                 /\ \A x \in DOMAIN f : f[x] \in R
  <1>1. ASSUME f \in Partial(D, R)
        PROVE  f = [x \in DOMAIN f |-> f[x]] /\ DOMAIN f \subseteq D /\ \A x \in DOMAIN f : f[x] \in R
    <2>1. PICK E \in SUBSET D : f \in [E -> R]
      BY <1>1 DEF Partial
    <2> QED
      BY <2>1
  <1>2. ASSUME f = [x \in DOMAIN f |-> f[x]], DOMAIN f \subseteq D, \A x \in DOMAIN f : f[x] \in R
        PROVE  f \in Partial(D, R)
    <2>1. f \in [DOMAIN f -> R] /\ DOMAIN f \in SUBSET D
      BY <1>2
    <2> QED
      BY <2>1 DEF Partial
  <1> QED
    BY <1>1, <1>2

IsWith(D, R, g, f, k, v) ==
    /\ g \in Partial(D, R) /\ DOMAIN g = DOMAIN f \cup {k}
    /\ g[k] = v /\ \A x \in DOMAIN f \ {k} : g[x] = f[x]
IsWithout(D, R, g, f, k) ==
    /\ g \in Partial(D, R) /\ DOMAIN g = DOMAIN f \ {k}
    /\ \A x \in DOMAIN f \ {k} : g[x] = f[x]

(* What With and Without do to a partial function *)
LEMMA WithIs ==
  ASSUME NEW D, NEW R, NEW f \in Partial(D, R), NEW k \in D, NEW v \in R
  PROVE  IsWith(D, R, With(f, k, v), f, k, v)
  <1>1. DOMAIN f \subseteq D /\ \A x \in DOMAIN f : f[x] \in R
    BY PartialIs
  <1> DEFINE g == With(f, k, v)
  <1>2. /\ DOMAIN g = DOMAIN f \cup {k} /\ g = [x \in DOMAIN g |-> g[x]]
        /\ g[k] = v /\ \A x \in DOMAIN f \ {k} : g[x] = f[x]
    BY DEF With
  <1> HIDE DEF g
  <1>3. g \in Partial(D, R)
    <2>1. DOMAIN g \subseteq D /\ \A x \in DOMAIN g : g[x] \in R
      BY <1>1, <1>2
    <2> QED
      BY <1>2, <2>1, PartialIs
  <1> QED
    BY <1>2, <1>3 DEF g, IsWith

(* The same for Without *)
LEMMA WithoutIs ==
  ASSUME NEW D, NEW R, NEW f \in Partial(D, R), NEW k
  PROVE  IsWithout(D, R, Without(f, k), f, k)
  <1>1. DOMAIN f \subseteq D /\ \A x \in DOMAIN f : f[x] \in R
    BY PartialIs
  <1> DEFINE g == Without(f, k)
  <1>2. /\ DOMAIN g = DOMAIN f \ {k} /\ g = [x \in DOMAIN g |-> g[x]]
        /\ \A x \in DOMAIN f \ {k} : g[x] = f[x]
    BY DEF Without
  <1> HIDE DEF g
  <1>3. g \in Partial(D, R)
    <2>1. DOMAIN g \subseteq D /\ \A x \in DOMAIN g : g[x] \in R
      BY <1>1, <1>2
    <2> QED
      BY <1>2, <2>1, PartialIs
  <1> QED
    BY <1>2, <1>3 DEF g, IsWithout

(* An entry of a partial function is changed in place. *)
LEMMA ExceptIs ==
  ASSUME NEW D, NEW R, NEW f \in Partial(D, R), NEW k \in DOMAIN f, NEW v \in R
  PROVE  IsWith(D, R, [f EXCEPT ![k] = v], f, k, v)
  <1>1. DOMAIN f \subseteq D /\ \A x \in DOMAIN f : f[x] \in R
    BY PartialIs
  <1> DEFINE g == [f EXCEPT ![k] = v]
  <1>2. /\ DOMAIN g = DOMAIN f /\ g = [x \in DOMAIN g |-> g[x]]
        /\ g[k] = v /\ \A x \in DOMAIN f \ {k} : g[x] = f[x]
    OBVIOUS
  <1> HIDE DEF g
  <1>3. g \in Partial(D, R)
    <2>1. DOMAIN g \subseteq D /\ \A x \in DOMAIN g : g[x] \in R
      BY <1>1, <1>2
    <2> QED
      BY <1>2, <2>1, PartialIs
  <1> QED
    BY <1>2, <1>3 DEF g, IsWith

(* The fields of a manager, and of what is put together from such fields *)
LEMMA Fields ==
  ASSUME NEW m \in Manager
  PROVE  /\ m.mapInfo \in Partial(Nat, InfoType) /\ m.mapAddr \in Partial(Hosts, Nat)
         /\ m.vRandom \in Seq(Nat) /\ m.nTried \in Int /\ m.nNew \in Int
         /\ m.vvTried \in [TriedSlots -> Int] /\ m.vvNew \in [NewSlots -> Int]
         /\ m.m_tried_collisions \in SUBSET Nat /\ m.nIdCount \in Nat /\ m.asserts \in BOOLEAN
         /\ DOMAIN m.mapInfo \subseteq Nat /\ \A id \in DOMAIN m.mapInfo : m.mapInfo[id] \in InfoType
         /\ DOMAIN m.mapAddr \subseteq Hosts /\ \A h \in DOMAIN m.mapAddr : m.mapAddr[h] \in Nat
  <1>1. /\ m.mapInfo \in Partial(Nat, InfoType) /\ m.mapAddr \in Partial(Hosts, Nat)
        /\ m.vRandom \in Seq(Nat) /\ m.nTried \in Int /\ m.nNew \in Int
        /\ m.vvTried \in [TriedSlots -> Int] /\ m.vvNew \in [NewSlots -> Int]
        /\ m.m_tried_collisions \in SUBSET Nat /\ m.nIdCount \in Nat /\ m.asserts \in BOOLEAN
    BY DEF Manager
  <1> QED
    BY <1>1, PartialIs

Swapped(m, s, i, j) ==
    /\ s \in Manager /\ RandomIndex(s) /\ DOMAIN s.mapInfo = DOMAIN m.mapInfo
    /\ \A id \in DOMAIN m.mapInfo : Kept(s.mapInfo[id], m.mapInfo[id])
    /\ Len(s.vRandom) = Len(m.vRandom) /\ s.vRandom[j] = m.vRandom[i]
    /\ s = [m EXCEPT !.mapInfo = s.mapInfo, !.vRandom = s.vRandom]

(* Two entries change their places in vRandom. *)
LEMMA SwapIs ==
  ASSUME NEW m \in Manager, RandomIndex(m), NEW i \in 1 .. Len(m.vRandom), NEW j \in 1 .. Len(m.vRandom),
         NEW s, s = SwapRandom(m, i, j)
  PROVE  Swapped(m, s, i, j)
  <1>1. CASE i = j
    <2>1. s = m
      BY <1>1 DEF SwapRandom
    <2>2. m = [m EXCEPT !.mapInfo = m.mapInfo, !.vRandom = m.vRandom]
      BY DEF Manager
    <2> QED
      BY <1>1, <2>1, <2>2 DEF Kept, Swapped
  <1>2. CASE i # j
    <2>1. PICK idI : idI = m.vRandom[i]
      OBVIOUS
    <2>2. PICK idJ : idJ = m.vRandom[j]
      OBVIOUS
    <2>3. /\ m.mapInfo \in Partial(Nat, InfoType) /\ m.vRandom \in Seq(Nat)
          /\ DOMAIN m.mapInfo \subseteq Nat /\ \A id \in DOMAIN m.mapInfo : m.mapInfo[id] \in InfoType
      BY Fields
    <2>4. /\ idI \in DOMAIN m.mapInfo /\ m.mapInfo[idI].nRandomPos = i
          /\ idJ \in DOMAIN m.mapInfo /\ m.mapInfo[idJ].nRandomPos = j /\ idI # idJ
      BY <1>2, <2>1, <2>2 DEF RandomIndex
    <2>5. PICK infoI : infoI = [m.mapInfo[idI] EXCEPT !.nRandomPos = j]
      OBVIOUS
    <2>6. PICK infoJ : infoJ = [m.mapInfo[idJ] EXCEPT !.nRandomPos = i]
      OBVIOUS
    <2>7. /\ infoI \in InfoType /\ infoI.nRandomPos = j /\ Kept(infoI, m.mapInfo[idI])
          /\ infoJ \in InfoType /\ infoJ.nRandomPos = i /\ Kept(infoJ, m.mapInfo[idJ])
      BY <2>3, <2>4, <2>5, <2>6 DEF InfoType, Kept
    <2>8. PICK one : one = [m.mapInfo EXCEPT ![idI] = infoI]
      OBVIOUS
    <2>9. /\ one \in Partial(Nat, InfoType) /\ DOMAIN one = DOMAIN m.mapInfo
          /\ one[idI] = infoI /\ \A id \in DOMAIN m.mapInfo \ {idI} : one[id] = m.mapInfo[id]
      <3>1. IsWith(Nat, InfoType, one, m.mapInfo, idI, infoI)
        BY <2>3, <2>4, <2>7, <2>8, ExceptIs
      <3> QED
        BY <2>4, <3>1 DEF IsWith
    <2>10. PICK infos : infos = [one EXCEPT ![idJ] = infoJ]
      OBVIOUS
    <2>11. /\ infos \in Partial(Nat, InfoType) /\ DOMAIN infos = DOMAIN m.mapInfo
           /\ infos[idI] = infoI /\ infos[idJ] = infoJ
           /\ \A id \in DOMAIN m.mapInfo \ {idI, idJ} : infos[id] = m.mapInfo[id]
      <3>1. IsWith(Nat, InfoType, infos, one, idJ, infoJ)
        BY <2>4, <2>7, <2>9, <2>10, ExceptIs
      <3> QED
        BY <2>4, <2>9, <3>1 DEF IsWith
    <2>12. PICK rnd : rnd = [m.vRandom EXCEPT ![i] = idJ, ![j] = idI]
      OBVIOUS
    <2>13. /\ rnd \in Seq(Nat) /\ Len(rnd) = Len(m.vRandom) /\ rnd[i] = idJ /\ rnd[j] = idI
           /\ \A p \in 1 .. Len(m.vRandom) \ {i, j} : rnd[p] = m.vRandom[p]
      BY <1>2, <2>3, <2>4, <2>12
    <2>14. s = [m EXCEPT !.mapInfo = infos, !.vRandom = rnd]
      <3>1. s = [m EXCEPT !.vRandom[i] = idJ, !.vRandom[j] = idI,
                          !.mapInfo[idI].nRandomPos = j, !.mapInfo[idJ].nRandomPos = i]
        BY <1>2, <2>1, <2>2 DEF SwapRandom
      <3>2. one[idJ] = m.mapInfo[idJ]
        BY <2>4, <2>9
      <3>3. infos = [m.mapInfo EXCEPT ![idI] = infoI, ![idJ] = infoJ]
        BY <2>8, <2>10
      <3>4. s = [m EXCEPT !.vRandom = rnd, !.mapInfo = infos]
        BY <2>5, <2>6, <2>8, <2>9, <2>10, <2>12, <3>1, <3>2, ZenonT(60) DEF Manager
      <3> QED
        BY <3>4 DEF Manager
    <2>15. s.mapInfo = infos /\ s.vRandom = rnd /\ s \in Manager
      BY <2>11, <2>13, <2>14 DEF Manager
    <2>16. RandomIndex(s)
      <3>1. ASSUME NEW id \in DOMAIN infos
            PROVE  infos[id].nRandomPos \in 1 .. Len(rnd) /\ rnd[infos[id].nRandomPos] = id
        <4>1. CASE id \in {idI, idJ}
          BY <4>1, <2>7, <2>11, <2>13
        <4>2. CASE id \notin {idI, idJ}
          <5>1. /\ m.mapInfo[id].nRandomPos \in 1 .. Len(m.vRandom)
                /\ m.vRandom[m.mapInfo[id].nRandomPos] = id
            BY <2>11 DEF RandomIndex
          <5>2. m.mapInfo[id].nRandomPos \notin {i, j}
            BY <4>2, <5>1, <2>1, <2>2
          <5> QED
            BY <4>2, <5>1, <5>2, <2>11, <2>13
        <4> QED
          BY <4>1, <4>2
      <3>2. ASSUME NEW p \in 1 .. Len(rnd)
            PROVE  rnd[p] \in DOMAIN infos /\ infos[rnd[p]].nRandomPos = p
        <4>1. CASE p \in {i, j}
          BY <4>1, <2>4, <2>7, <2>11, <2>13
        <4>2. CASE p \notin {i, j}
          <5>1. m.vRandom[p] \in DOMAIN m.mapInfo /\ m.mapInfo[m.vRandom[p]].nRandomPos = p
            BY <2>13 DEF RandomIndex
          <5> QED
            BY <4>2, <5>1, <2>4, <2>11, <2>13
        <4> QED
          BY <4>1, <4>2
      <3> QED
        BY <2>15, <3>1, <3>2 DEF RandomIndex
    <2>17. \A id \in DOMAIN m.mapInfo : Kept(infos[id], m.mapInfo[id])
      BY <2>7, <2>11 DEF Kept
    <2> QED
      BY <2>1, <2>11, <2>13, <2>14, <2>15, <2>16, <2>17 DEF Swapped
  <1> QED
    BY <1>1, <1>2

-----------------------------------------------------------------------------
(* The positions of the new table that hold entry id *)
Refs(m, id) == {s \in NewSlots : m.vvNew[s] = id}

(* Entries of the new table without a position there *)
Loose(m) == {id \in NewIds(m) : m.mapInfo[id].nRefCount = 0}

NewTable(m) ==
    /\ \A s \in NewSlots : m.vvNew[s] # Nobody =>
          m.vvNew[s] \in NewIds(m) /\ s \in NewSlotsOf(m.mapInfo[m.vvNew[s]].svc)
    /\ \A id \in DOMAIN m.mapInfo :
          /\ IsFiniteSet(Refs(m, id)) /\ m.mapInfo[id].nRefCount = Cardinality(Refs(m, id))
          /\ m.mapInfo[id].nRefCount <= MaxRefs
TriedTable(m) ==
    /\ \A s \in TriedSlots : m.vvTried[s] # Nobody =>
          m.vvTried[s] \in TriedIds(m) /\ TriedSlot[m.mapInfo[m.vvTried[s]].svc] = s
    /\ \A id \in TriedIds(m) :
          m.mapInfo[id].succeeded /\ m.vvTried[TriedSlot[m.mapInfo[id].svc]] = id

(* What holds all along, also between the steps of one operation *)
Core(m) ==
    /\ m \in Manager /\ IsFiniteSet(DOMAIN m.mapInfo) /\ m.asserts
    /\ RandomIndex(m) /\ HostIndex(m) /\ NewTable(m) /\ TriedTable(m)

(* How far the counters are from the numbers of entries, as they are       *)
(* between the steps of one operation                                      *)
Counts(m, new, tried) ==
    /\ m.nNew = Cardinality(NewIds(m)) + new
    /\ m.nTried = Cardinality(TriedIds(m)) + tried

(* What the assumption on the tables says of the places of one service *)
LEMMA Places ==
  ASSUME NEW svc \in Services
  PROVE  /\ Host[svc] \in Hosts /\ TriedSlot[svc] \in TriedSlots /\ NewSlotsOf(svc) \subseteq NewSlots
         /\ \A src \in Sources : SlotFor(svc, src) \in NewSlots /\ SlotFor(svc, src) \in NewSlotsOf(svc)
  <1>1. ASSUME NEW src \in Sources
        PROVE  SlotFor(svc, src) \in NewSlots /\ SlotFor(svc, src) \in NewSlotsOf(svc)
    <2>1. PICK b : b = NewBucket[<<svc, src>>]
      OBVIOUS
    <2>2. b \in Buckets /\ NewPosition[<<svc, b>>] \in Positions
      BY <2>1, TableAssumption
    <2>3. SlotFor(svc, src) = <<b, NewPosition[<<svc, b>>]>>
      BY <2>1 DEF SlotFor
    <2> QED
      BY <2>2, <2>3 DEF NewSlots, NewSlotsOf
  <1>2. \A b \in Buckets : NewPosition[<<svc, b>>] \in Positions
    BY TableAssumption
  <1>3. NewSlotsOf(svc) \subseteq NewSlots
    <2> SUFFICES ASSUME NEW s \in NewSlotsOf(svc)
                 PROVE  s \in NewSlots
      OBVIOUS
    <2>1. PICK b \in Buckets : s = <<b, NewPosition[<<svc, b>>]>>
      BY DEF NewSlotsOf
    <2> QED
      BY <1>2, <2>1 DEF NewSlots
  <1>4. Host[svc] \in Hosts /\ TriedSlot[svc] \in TriedSlots
    BY TableAssumption
  <1> QED
    BY <1>1, <1>3, <1>4

(* Entries are new or tried, and finitely many. *)
LEMMA Ids ==
  ASSUME NEW m, m \in Manager, IsFiniteSet(DOMAIN m.mapInfo)
  PROVE  /\ NewIds(m) \subseteq DOMAIN m.mapInfo /\ TriedIds(m) \subseteq DOMAIN m.mapInfo
         /\ IsFiniteSet(NewIds(m)) /\ IsFiniteSet(TriedIds(m))
         /\ Cardinality(NewIds(m)) \in Nat /\ Cardinality(TriedIds(m)) \in Nat
         /\ Nobody \notin DOMAIN m.mapInfo
         /\ \A id \in DOMAIN m.mapInfo : /\ id \in NewIds(m) <=> ~m.mapInfo[id].fInTried
                                         /\ id \in TriedIds(m) <=> m.mapInfo[id].fInTried
  <1>1. NewIds(m) \in SUBSET DOMAIN m.mapInfo /\ TriedIds(m) \in SUBSET DOMAIN m.mapInfo
    BY DEF NewIds, TriedIds
  <1>2. IsFiniteSet(NewIds(m)) /\ IsFiniteSet(TriedIds(m))
    BY <1>1, FS_Subset
  <1>3. Cardinality(NewIds(m)) \in Nat /\ Cardinality(TriedIds(m)) \in Nat
    BY <1>2, FS_CardinalityType
  <1>4. Nobody \notin DOMAIN m.mapInfo
    BY Fields DEF Nobody
  <1> QED
    BY <1>1, <1>2, <1>3, <1>4 DEF NewIds, TriedIds

Deleted(m, d, id) ==
    /\ d \in Manager /\ d.asserts /\ RandomIndex(d) /\ HostIndex(d)
    /\ DOMAIN d.mapInfo = DOMAIN m.mapInfo \ {id}
    /\ \A x \in DOMAIN d.mapInfo : Kept(d.mapInfo[x], m.mapInfo[x])
    /\ d.nNew = m.nNew - 1 /\ d.nTried = m.nTried /\ d.vvTried = m.vvTried /\ d.vvNew = m.vvNew
    /\ d.m_tried_collisions = m.m_tried_collisions /\ d.nIdCount = m.nIdCount

(* Delete of an entry that has no position leaves the others as they were. *)
LEMMA DeleteIs ==
  ASSUME NEW m, Core(m), NEW id \in Loose(m), NEW d, d = Delete(m, id)
  PROVE  Deleted(m, d, id)
  <1> DEFINE last == Len(m.vRandom)
  <1>1. PICK info : info = m.mapInfo[id]
    OBVIOUS
  <1>2. /\ m \in Manager /\ id \in DOMAIN m.mapInfo /\ ~info.fInTried /\ info.nRefCount = 0 /\ m.asserts
        /\ info \in InfoType /\ m.vRandom \in Seq(Nat) /\ RandomIndex(m) /\ HostIndex(m)
    BY <1>1, Fields DEF Core, Loose, NewIds, TriedIds
  <1>3. /\ info.nRandomPos \in 1 .. last /\ m.vRandom[info.nRandomPos] = id
        /\ last \in Nat /\ last \in 1 .. last
    BY <1>1, <1>2 DEF RandomIndex
  <1>4. PICK s : s = SwapRandom(m, info.nRandomPos, last)
    OBVIOUS
  <1>5. /\ s \in Manager /\ RandomIndex(s) /\ DOMAIN s.mapInfo = DOMAIN m.mapInfo
        /\ \A x \in DOMAIN m.mapInfo : Kept(s.mapInfo[x], m.mapInfo[x])
        /\ Len(s.vRandom) = last /\ s.vRandom[last] = id
        /\ s = [m EXCEPT !.mapInfo = s.mapInfo, !.vRandom = s.vRandom]
    <2>1. Swapped(m, s, info.nRandomPos, last)
      BY <1>2, <1>3, <1>4, SwapIs
    <2> QED
      BY <1>3, <2>1 DEF Swapped
  <1>6. /\ s.asserts = m.asserts /\ s.mapAddr = m.mapAddr /\ s.nNew = m.nNew /\ s.nTried = m.nTried
        /\ s.vvTried = m.vvTried /\ s.vvNew = m.vvNew
        /\ s.m_tried_collisions = m.m_tried_collisions /\ s.nIdCount = m.nIdCount
    <2> HIDE DEF last
    <2> QED
      BY <1>2, <1>5 DEF Manager
  <1>7. d = [s EXCEPT !.asserts = @ /\ ~info.fInTried /\ info.nRefCount = 0,
                      !.vRandom = SubSeq(@, 1, Len(@) - 1),
                      !.mapAddr = Without(@, Host[info.svc]),
                      !.mapInfo = Without(@, id),
                      !.nNew = @ - 1]
    BY <1>1, <1>4 DEF Delete
  <1>8. PICK infos : infos = Without(s.mapInfo, id)
    OBVIOUS
  <1>9. PICK addrs : addrs = Without(s.mapAddr, Host[info.svc])
    OBVIOUS
  <1>10. PICK rnd : rnd = SubSeq(s.vRandom, 1, last - 1)
    OBVIOUS
  <1>11. s.mapInfo \in Partial(Nat, InfoType) /\ s.mapAddr \in Partial(Hosts, Nat) /\ s.vRandom \in Seq(Nat)
    BY <1>5, Fields
  <1>12. /\ infos \in Partial(Nat, InfoType) /\ DOMAIN infos = DOMAIN m.mapInfo \ {id}
         /\ \A x \in DOMAIN infos : infos[x] = s.mapInfo[x]
    <2>1. IsWithout(Nat, InfoType, infos, s.mapInfo, id)
      BY <1>8, <1>11, WithoutIs
    <2> QED
      BY <1>5, <2>1 DEF IsWithout
  <1>13. /\ addrs \in Partial(Hosts, Nat) /\ DOMAIN addrs = DOMAIN m.mapAddr \ {Host[info.svc]}
         /\ \A h \in DOMAIN addrs : addrs[h] = m.mapAddr[h]
    <2>1. IsWithout(Hosts, Nat, addrs, s.mapAddr, Host[info.svc])
      BY <1>9, <1>11, WithoutIs
    <2> QED
      BY <1>6, <2>1 DEF IsWithout
  <1>14. rnd \in Seq(Nat) /\ Len(rnd) = last - 1 /\ \A p \in 1 .. last - 1 : rnd[p] = s.vRandom[p]
    BY <1>3, <1>5, <1>10, <1>11, SMTT(30)
  <1> HIDE DEF last
  <1>20. d = [s EXCEPT !.asserts = TRUE, !.vRandom = rnd, !.mapAddr = addrs, !.mapInfo = infos,
                       !.nNew = m.nNew - 1]
    <2>1. (s.asserts /\ ~info.fInTried /\ info.nRefCount = 0) = TRUE
      BY <1>2, <1>6
    <2>2. d = [s EXCEPT !.asserts = (s.asserts /\ ~info.fInTried /\ info.nRefCount = 0),
                        !.vRandom = rnd, !.mapAddr = addrs, !.mapInfo = infos, !.nNew = m.nNew - 1]
      <3>1. rnd = SubSeq(s.vRandom, 1, Len(s.vRandom) - 1)
        BY <1>5, <1>10
      <3> QED
        BY <3>1, <1>5, <1>6, <1>7, <1>8, <1>9 DEF Manager
    <2> QED
      BY <2>1, <2>2, Zenon
  <1>15. /\ d.mapInfo = infos /\ d.mapAddr = addrs /\ d.vRandom = rnd /\ d.nNew = m.nNew - 1
         /\ d.asserts = m.asserts /\ d.nTried = m.nTried /\ d.vvTried = m.vvTried /\ d.vvNew = m.vvNew
         /\ d.m_tried_collisions = m.m_tried_collisions /\ d.nIdCount = m.nIdCount
    BY <1>2, <1>5, <1>6, <1>20 DEF Manager
  <1>16. d \in Manager
    <2>1. m.nNew - 1 \in Int /\ s \in Manager
      BY <1>2, <1>5, Fields
    <2>2. infos \in Partial(Nat, InfoType) /\ addrs \in Partial(Hosts, Nat) /\ rnd \in Seq(Nat)
      BY <1>12, <1>13, <1>14
    <2> QED
      BY <2>1, <2>2, <1>20 DEF Manager
  <1>17. RandomIndex(d)
    <2>1. ASSUME NEW x \in DOMAIN infos
          PROVE  infos[x].nRandomPos \in 1 .. Len(rnd) /\ rnd[infos[x].nRandomPos] = x
      <3>1. /\ s.mapInfo[x].nRandomPos \in 1 .. last /\ s.vRandom[s.mapInfo[x].nRandomPos] = x /\ x # id
        BY <1>5, <1>12 DEF RandomIndex
      <3>2. s.mapInfo[x].nRandomPos # last
        BY <3>1, <1>5
      <3> QED
        BY <3>1, <3>2, <1>3, <1>12, <1>14
    <2>2. ASSUME NEW p \in 1 .. Len(rnd)
          PROVE  rnd[p] \in DOMAIN infos /\ infos[rnd[p]].nRandomPos = p
      <3>1. /\ s.vRandom[p] \in DOMAIN s.mapInfo /\ s.mapInfo[s.vRandom[p]].nRandomPos = p
            /\ s.mapInfo[id].nRandomPos = last /\ p # last
        BY <1>3, <1>5, <1>14 DEF RandomIndex
      <3> QED
        BY <3>1, <1>5, <1>3, <1>12, <1>14
    <2> QED
      BY <1>15, <2>1, <2>2 DEF RandomIndex
  <1>18. \A x \in DOMAIN infos : Kept(infos[x], m.mapInfo[x])
    BY <1>5, <1>12
  <1>19. HostIndex(d)
    <2>1. ASSUME NEW x \in DOMAIN infos
          PROVE  Host[infos[x].svc] \in DOMAIN addrs /\ addrs[Host[infos[x].svc]] = x
      <3>1. infos[x].svc = m.mapInfo[x].svc /\ x \in DOMAIN m.mapInfo /\ x # id
        BY <1>12, <1>18 DEF Kept
      <3>2. Host[info.svc] # Host[m.mapInfo[x].svc]
        BY <1>1, <1>2, <3>1 DEF HostIndex
      <3> QED
        BY <1>2, <3>1, <3>2, <1>13 DEF HostIndex
    <2>2. ASSUME NEW h \in DOMAIN addrs
          PROVE  addrs[h] \in DOMAIN infos /\ Host[infos[addrs[h]].svc] = h
      <3>1. m.mapAddr[h] \in DOMAIN m.mapInfo /\ Host[m.mapInfo[m.mapAddr[h]].svc] = h /\ h # Host[info.svc]
        BY <1>2, <1>13 DEF HostIndex
      <3>2. m.mapAddr[h] # id
        BY <3>1, <1>1
      <3>3. addrs[h] \in DOMAIN infos /\ infos[addrs[h]].svc = m.mapInfo[addrs[h]].svc
        BY <3>1, <3>2, <1>12, <1>13, <1>18 DEF Kept
      <3> QED
        BY <3>1, <3>3, <1>13
    <2> QED
      BY <1>15, <2>1, <2>2 DEF HostIndex
  <1> QED
    BY <1>2, <1>12, <1>15, <1>16, <1>17, <1>18, <1>19 DEF Deleted

(* So Delete keeps what holds all along, and takes one entry off the count. *)
LEMMA DeleteKeeps ==
  ASSUME NEW m, Core(m), NEW id \in Loose(m), NEW d, d = Delete(m, id)
  PROVE  /\ Core(d) /\ NewIds(d) = NewIds(m) \ {id} /\ TriedIds(d) = TriedIds(m)
         /\ Loose(d) = Loose(m) \ {id}
         /\ \A new, tried \in Int : Counts(m, new, tried) => Counts(d, new, tried)
  <1>1. /\ d \in Manager /\ d.asserts /\ RandomIndex(d) /\ HostIndex(d)
        /\ DOMAIN d.mapInfo = DOMAIN m.mapInfo \ {id}
        /\ \A x \in DOMAIN d.mapInfo : Kept(d.mapInfo[x], m.mapInfo[x])
        /\ d.nNew = m.nNew - 1 /\ d.nTried = m.nTried /\ d.vvTried = m.vvTried /\ d.vvNew = m.vvNew
    BY DeleteIs DEF Deleted
  <1>2. /\ m \in Manager /\ IsFiniteSet(DOMAIN m.mapInfo) /\ NewTable(m) /\ TriedTable(m)
        /\ id \in NewIds(m) /\ m.mapInfo[id].nRefCount = 0
    BY DEF Core, Loose
  <1>3. IsFiniteSet(DOMAIN d.mapInfo)
    BY <1>1, <1>2, FS_RemoveElement
  <1>4. /\ NewIds(d) = NewIds(m) \ {id} /\ TriedIds(d) = TriedIds(m)
    BY <1>1, <1>2 DEF NewIds, TriedIds, Kept
  <1>5. Loose(d) = Loose(m) \ {id}
    <2>1. \A x \in NewIds(d) : d.mapInfo[x].nRefCount = m.mapInfo[x].nRefCount
      BY <1>1 DEF Kept, NewIds
    <2> QED
      BY <1>4, <2>1 DEF Loose
  <1>6. \A x : Refs(d, x) = Refs(m, x)
    BY <1>1 DEF Refs
  <1>7. \A s \in NewSlots : m.vvNew[s] # id
    <2>1. IsFiniteSet(Refs(m, id)) /\ Cardinality(Refs(m, id)) = 0
      BY <1>2, Ids DEF NewTable
    <2>2. Refs(m, id) = {}
      BY <2>1, FS_EmptySet
    <2> QED
      BY <2>2 DEF Refs
  <1>8. NewTable(d)
    <2>1. ASSUME NEW s \in NewSlots, d.vvNew[s] # Nobody
          PROVE  d.vvNew[s] \in NewIds(d) /\ s \in NewSlotsOf(d.mapInfo[d.vvNew[s]].svc)
      <3>1. m.vvNew[s] \in NewIds(m) /\ s \in NewSlotsOf(m.mapInfo[m.vvNew[s]].svc)
        BY <2>1, <1>1, <1>2 DEF NewTable
      <3>2. m.vvNew[s] \in NewIds(d) /\ m.vvNew[s] \in DOMAIN d.mapInfo
        BY <3>1, <1>4, <1>7 DEF NewIds
      <3>3. d.mapInfo[m.vvNew[s]].svc = m.mapInfo[m.vvNew[s]].svc
        BY <3>2, <1>1 DEF Kept
      <3> QED
        BY <3>1, <3>2, <3>3, <1>1
    <2>2. ASSUME NEW x \in DOMAIN d.mapInfo
          PROVE  /\ IsFiniteSet(Refs(d, x)) /\ d.mapInfo[x].nRefCount = Cardinality(Refs(d, x))
                 /\ d.mapInfo[x].nRefCount <= MaxRefs
      <3>1. d.mapInfo[x].nRefCount = m.mapInfo[x].nRefCount /\ x \in DOMAIN m.mapInfo
        BY <1>1 DEF Kept
      <3> QED
        BY <3>1, <1>2, <1>6 DEF NewTable
    <2> QED
      BY <2>1, <2>2 DEF NewTable
  <1>9. TriedTable(d)
    <2>1. \A x \in TriedIds(m) : x \in DOMAIN d.mapInfo /\ Kept(d.mapInfo[x], m.mapInfo[x])
      BY <1>1, <1>4 DEF TriedIds
    <2> QED
      BY <2>1, <1>1, <1>2, <1>4 DEF TriedTable, Kept
  <1>10. ASSUME NEW new \in Int, NEW tried \in Int, Counts(m, new, tried)
         PROVE  Counts(d, new, tried)
    <2>1. Cardinality(NewIds(d)) = Cardinality(NewIds(m)) - 1
      <3>1. IsFiniteSet(NewIds(m)) /\ id \in NewIds(m)
        BY <1>2, Ids
      <3> QED
        BY <1>4, <3>1, FS_RemoveElement
    <2>2. Cardinality(NewIds(m)) \in Nat /\ m.nNew \in Int
      BY <1>2, Ids, Fields
    <2> QED
      BY <1>1, <1>4, <1>10, <2>1, <2>2 DEF Counts
  <1> QED
    BY <1>1, <1>3, <1>4, <1>5, <1>8, <1>9, <1>10 DEF Core

-----------------------------------------------------------------------------
(* Entry id becomes info, at the same address and place of vRandom. *)
Changed(m, c, id, info) ==
    /\ c \in Manager /\ id \in DOMAIN m.mapInfo
    /\ IsWith(Nat, InfoType, c.mapInfo, m.mapInfo, id, info)
    /\ info.svc = m.mapInfo[id].svc /\ info.source = m.mapInfo[id].source
    /\ info.nRandomPos = m.mapInfo[id].nRandomPos
    /\ c.vRandom = m.vRandom /\ c.mapAddr = m.mapAddr /\ c.nIdCount = m.nIdCount

StillIndexed(m, c, id, info) ==
    /\ RandomIndex(c) /\ HostIndex(c) /\ DOMAIN c.mapInfo = DOMAIN m.mapInfo
    /\ c.mapInfo[id] = info /\ \A x \in DOMAIN m.mapInfo \ {id} : c.mapInfo[x] = m.mapInfo[x]

(* Such a change keeps the indexes. *)
LEMMA ChangedIndex ==
  ASSUME NEW m, NEW c, NEW id, NEW info, RandomIndex(m), HostIndex(m), Changed(m, c, id, info)
  PROVE  StillIndexed(m, c, id, info)
  <1>1. /\ DOMAIN c.mapInfo = DOMAIN m.mapInfo
        /\ c.mapInfo[id] = info /\ \A x \in DOMAIN m.mapInfo \ {id} : c.mapInfo[x] = m.mapInfo[x]
    BY DEF Changed, IsWith
  <1>2. \A x \in DOMAIN m.mapInfo : /\ c.mapInfo[x].svc = m.mapInfo[x].svc
                                    /\ c.mapInfo[x].nRandomPos = m.mapInfo[x].nRandomPos
    BY <1>1 DEF Changed
  <1>3. RandomIndex(c)
    BY <1>1, <1>2 DEF RandomIndex, Changed
  <1>4. HostIndex(c)
    BY <1>1, <1>2 DEF HostIndex, Changed
  <1> QED
    BY <1>1, <1>3, <1>4 DEF StillIndexed

(* Entry id of the new table has a reference more or less, at slot, where  *)
(* now is who now.                                                         *)
Recounted(m, c, id, slot, who, info) ==
    /\ Changed(m, c, id, info) /\ id \in NewIds(m) /\ slot \in NewSlots
    /\ c.vvNew = [m.vvNew EXCEPT ![slot] = who]
    /\ ~info.fInTried /\ info.succeeded = m.mapInfo[id].succeeded
    /\ c.vvTried = m.vvTried /\ c.asserts

(* What does not depend on the number of references is as before. *)
LEMMA RecountedTables ==
  ASSUME NEW m, NEW c, NEW id, NEW slot, NEW who, NEW info,
         Core(m), Recounted(m, c, id, slot, who, info)
  PROVE  /\ TriedIds(c) = TriedIds(m) /\ NewIds(c) = NewIds(m) /\ TriedTable(c)
         /\ \A x \in DOMAIN m.mapInfo : c.mapInfo[x].svc = m.mapInfo[x].svc
         /\ \A x : x \notin {who, m.vvNew[slot]} => Refs(c, x) = Refs(m, x)
  <1>1. /\ DOMAIN c.mapInfo = DOMAIN m.mapInfo
        /\ c.mapInfo[id] = info /\ \A x \in DOMAIN m.mapInfo \ {id} : c.mapInfo[x] = m.mapInfo[x]
    <2>1. StillIndexed(m, c, id, info)
      BY ChangedIndex DEF Core, Recounted
    <2> QED
      BY <2>1 DEF StillIndexed
  <1>2. /\ id \in DOMAIN m.mapInfo /\ ~m.mapInfo[id].fInTried /\ ~info.fInTried
    BY DEF Recounted, Changed, NewIds, TriedIds
  <1>3. TriedIds(c) = TriedIds(m)
    BY <1>1, <1>2 DEF TriedIds
  <1>4. NewIds(c) = NewIds(m)
    BY <1>1, <1>3 DEF NewIds
  <1>5. \A x \in TriedIds(m) : c.mapInfo[x] = m.mapInfo[x]
    BY <1>1, <1>2 DEF TriedIds
  <1>6. TriedTable(c)
    BY <1>3, <1>5 DEF TriedTable, Core, Recounted
  <1>7. \A x \in DOMAIN m.mapInfo : c.mapInfo[x].svc = m.mapInfo[x].svc
    BY <1>1 DEF Recounted, Changed
  <1>8. ASSUME NEW x, x \notin {who, m.vvNew[slot]}
        PROVE  Refs(c, x) = Refs(m, x)
    <2>1. m.vvNew \in [NewSlots -> Int]
      BY Fields DEF Core
    <2> QED
      BY <1>8, <2>1 DEF Refs, Recounted
  <1> QED
    BY <1>3, <1>4, <1>6, <1>7, <1>8

(* A free position is taken by an entry of the new table. *)
LEMMA RefAdded ==
  ASSUME NEW m, NEW c, NEW id, NEW slot, NEW info,
         Core(m), Recounted(m, c, id, slot, id, info), m.vvNew[slot] = Nobody,
         slot \in NewSlotsOf(m.mapInfo[id].svc), m.mapInfo[id].nRefCount < MaxRefs,
         info.nRefCount = m.mapInfo[id].nRefCount + 1
  PROVE  Core(c) /\ Loose(c) = Loose(m) \ {id}
  <1>1. /\ DOMAIN c.mapInfo = DOMAIN m.mapInfo /\ RandomIndex(c) /\ HostIndex(c)
        /\ c.mapInfo[id] = info /\ \A x \in DOMAIN m.mapInfo \ {id} : c.mapInfo[x] = m.mapInfo[x]
    <2>1. StillIndexed(m, c, id, info)
      BY ChangedIndex DEF Core, Recounted
    <2> QED
      BY <2>1 DEF StillIndexed
  <1>2. /\ TriedIds(c) = TriedIds(m) /\ NewIds(c) = NewIds(m) /\ TriedTable(c)
        /\ \A x \in DOMAIN m.mapInfo : c.mapInfo[x].svc = m.mapInfo[x].svc
        /\ \A x : x \notin {id, m.vvNew[slot]} => Refs(c, x) = Refs(m, x)
    BY RecountedTables
  <1>3. /\ m \in Manager /\ IsFiniteSet(DOMAIN m.mapInfo) /\ NewTable(m) /\ id \in NewIds(m)
        /\ slot \in NewSlots /\ c.vvNew = [m.vvNew EXCEPT ![slot] = id] /\ c.asserts /\ c \in Manager
    BY DEF Core, Recounted, Changed
  <1>4. m.vvNew \in [NewSlots -> Int] /\ id \in DOMAIN m.mapInfo /\ id # Nobody
    BY <1>3, Fields, Ids
  <1>5. Refs(c, id) = Refs(m, id) \cup {slot} /\ slot \notin Refs(m, id)
    BY <1>3, <1>4 DEF Refs
  <1>6. IsFiniteSet(Refs(c, id)) /\ Cardinality(Refs(c, id)) = info.nRefCount
    <2>1. IsFiniteSet(Refs(m, id)) /\ Cardinality(Refs(m, id)) = m.mapInfo[id].nRefCount
      BY <1>3, <1>4 DEF NewTable
    <2> QED
      BY <2>1, <1>5, FS_AddElement
  <1>7. m.mapInfo[id].nRefCount \in Nat /\ MaxRefs \in Nat /\ info.nRefCount <= MaxRefs
    BY <1>3, <1>4, Fields, LimitAssumption DEF InfoType
  <1>8. NewTable(c)
    <2>1. ASSUME NEW s \in NewSlots, c.vvNew[s] # Nobody
          PROVE  c.vvNew[s] \in NewIds(c) /\ s \in NewSlotsOf(c.mapInfo[c.vvNew[s]].svc)
      <3>1. CASE s = slot
        BY <3>1, <1>2, <1>3, <1>4
      <3>2. CASE s # slot
        <4>1. c.vvNew[s] = m.vvNew[s]
          BY <3>2, <1>3, <1>4
        <4> QED
          BY <2>1, <4>1, <1>2, <1>3 DEF NewTable, NewIds
      <3> QED
        BY <3>1, <3>2
    <2>2. ASSUME NEW x \in DOMAIN c.mapInfo
          PROVE  /\ IsFiniteSet(Refs(c, x)) /\ c.mapInfo[x].nRefCount = Cardinality(Refs(c, x))
                 /\ c.mapInfo[x].nRefCount <= MaxRefs
      <3>1. CASE x = id
        BY <3>1, <1>1, <1>6, <1>7
      <3>2. CASE x # id
        <4>1. x \in DOMAIN m.mapInfo /\ c.mapInfo[x] = m.mapInfo[x] /\ x # Nobody
          BY <3>2, <1>1, <1>3, Ids
        <4>2. Refs(c, x) = Refs(m, x)
          BY <3>2, <4>1, <1>2
        <4> QED
          BY <4>1, <4>2, <1>3 DEF NewTable
      <3> QED
        BY <3>1, <3>2
    <2> QED
      BY <2>1, <2>2 DEF NewTable
  <1>9. Loose(c) = Loose(m) \ {id}
    <2>1. info.nRefCount # 0
      BY <1>7
    <2>2. \A x \in NewIds(m) \ {id} : c.mapInfo[x] = m.mapInfo[x]
      BY <1>1 DEF NewIds
    <2> QED
      BY <1>1, <1>2, <2>1, <2>2 DEF Loose
  <1> QED
    BY <1>1, <1>2, <1>3, <1>8, <1>9 DEF Core

RefTaken(m, c, id, info) ==
    /\ Core(c) /\ id \notin Loose(m)
    /\ info.nRefCount = 0 => Loose(c) = Loose(m) \cup {id}
    /\ info.nRefCount # 0 => Loose(c) = Loose(m)

(* A position is taken away from its entry. *)
LEMMA RefRemoved ==
  ASSUME NEW m, NEW c, NEW id, NEW slot, NEW info,
         Core(m), Recounted(m, c, id, slot, Nobody, info), m.vvNew[slot] = id,
         info.nRefCount = m.mapInfo[id].nRefCount - 1
  PROVE  RefTaken(m, c, id, info)
  <1>1. /\ DOMAIN c.mapInfo = DOMAIN m.mapInfo /\ RandomIndex(c) /\ HostIndex(c)
        /\ c.mapInfo[id] = info /\ \A x \in DOMAIN m.mapInfo \ {id} : c.mapInfo[x] = m.mapInfo[x]
    <2>1. StillIndexed(m, c, id, info)
      BY ChangedIndex DEF Core, Recounted
    <2> QED
      BY <2>1 DEF StillIndexed
  <1>2. /\ TriedIds(c) = TriedIds(m) /\ NewIds(c) = NewIds(m) /\ TriedTable(c)
        /\ \A x \in DOMAIN m.mapInfo : c.mapInfo[x].svc = m.mapInfo[x].svc
        /\ \A x : x \notin {Nobody, m.vvNew[slot]} => Refs(c, x) = Refs(m, x)
    BY RecountedTables
  <1>3. /\ m \in Manager /\ IsFiniteSet(DOMAIN m.mapInfo) /\ NewTable(m) /\ id \in NewIds(m)
        /\ slot \in NewSlots /\ c.vvNew = [m.vvNew EXCEPT ![slot] = Nobody] /\ c.asserts /\ c \in Manager
    BY DEF Core, Recounted, Changed
  <1>4. m.vvNew \in [NewSlots -> Int] /\ id \in DOMAIN m.mapInfo /\ id # Nobody
    BY <1>3, Fields, Ids
  <1>5. Refs(c, id) = Refs(m, id) \ {slot} /\ slot \in Refs(m, id)
    BY <1>3, <1>4 DEF Refs
  <1>6. /\ IsFiniteSet(Refs(m, id)) /\ Cardinality(Refs(m, id)) = m.mapInfo[id].nRefCount
        /\ m.mapInfo[id].nRefCount <= MaxRefs
    BY <1>3, <1>4 DEF NewTable
  <1>7. IsFiniteSet(Refs(c, id)) /\ Cardinality(Refs(c, id)) = info.nRefCount
    BY <1>5, <1>6, FS_RemoveElement
  <1>8. m.mapInfo[id].nRefCount \in Nat /\ MaxRefs \in Nat /\ info.nRefCount <= MaxRefs
    BY <1>3, <1>4, <1>6, Fields, LimitAssumption DEF InfoType
  <1>9. m.mapInfo[id].nRefCount # 0
    <2>1. Refs(m, id) # {}
      BY <1>5
    <2> QED
      BY <2>1, <1>6, FS_EmptySet
  <1>10. NewTable(c)
    <2>1. ASSUME NEW s \in NewSlots, c.vvNew[s] # Nobody
          PROVE  c.vvNew[s] \in NewIds(c) /\ s \in NewSlotsOf(c.mapInfo[c.vvNew[s]].svc)
      <3>1. c.vvNew[s] = m.vvNew[s]
        BY <2>1, <1>3, <1>4
      <3> QED
        BY <2>1, <3>1, <1>2, <1>3 DEF NewTable, NewIds
    <2>2. ASSUME NEW x \in DOMAIN c.mapInfo
          PROVE  /\ IsFiniteSet(Refs(c, x)) /\ c.mapInfo[x].nRefCount = Cardinality(Refs(c, x))
                 /\ c.mapInfo[x].nRefCount <= MaxRefs
      <3>1. CASE x = id
        BY <3>1, <1>1, <1>7, <1>8
      <3>2. CASE x # id
        <4>1. x \in DOMAIN m.mapInfo /\ c.mapInfo[x] = m.mapInfo[x] /\ x # Nobody
          BY <3>2, <1>1, <1>3, Ids
        <4>2. Refs(c, x) = Refs(m, x)
          BY <3>2, <4>1, <1>2
        <4> QED
          BY <4>1, <4>2, <1>3 DEF NewTable
      <3> QED
        BY <3>1, <3>2
    <2> QED
      BY <2>1, <2>2 DEF NewTable
  <1>11. /\ info.nRefCount = 0 => Loose(c) = Loose(m) \cup {id}
         /\ info.nRefCount # 0 => Loose(c) = Loose(m)
    <2>1. \A x \in NewIds(m) \ {id} : c.mapInfo[x] = m.mapInfo[x]
      BY <1>1 DEF NewIds
    <2>2. \A x : x \in Loose(c) <=> \/ x = id /\ info.nRefCount = 0
                                    \/ x # id /\ x \in Loose(m)
      BY <1>1, <1>2, <1>3, <2>1 DEF Loose
    <2>3. id \notin Loose(m)
      BY <1>9 DEF Loose
    <2> QED
      BY <2>2, <2>3
  <1> QED
    BY <1>1, <1>2, <1>3, <1>9, <1>10, <1>11 DEF Core, Loose, RefTaken

-----------------------------------------------------------------------------
(* Position slot of the new table is empty; at most the entry it had is    *)
(* gone.                                                                   *)
NewCleared(m, c, slot) ==
    /\ Core(c) /\ c.vvNew = [m.vvNew EXCEPT ![slot] = Nobody]
    /\ DOMAIN c.mapInfo \subseteq DOMAIN m.mapInfo
    /\ \A x \in DOMAIN c.mapInfo :
          /\ c.mapInfo[x].svc = m.mapInfo[x].svc /\ c.mapInfo[x].source = m.mapInfo[x].source
          /\ c.mapInfo[x].fInTried = m.mapInfo[x].fInTried
          /\ c.mapInfo[x].succeeded = m.mapInfo[x].succeeded
    /\ \A x \in DOMAIN m.mapInfo \ {m.vvNew[slot]} :
          x \in DOMAIN c.mapInfo /\ c.mapInfo[x].nRefCount = m.mapInfo[x].nRefCount
    /\ TriedIds(c) = TriedIds(m) /\ Loose(c) = Loose(m)
    /\ c.vvTried = m.vvTried /\ c.m_tried_collisions = m.m_tried_collisions /\ c.nIdCount = m.nIdCount
    /\ \A new, tried \in Int : Counts(m, new, tried) => Counts(c, new, tried)

(* ClearNew empties the position, and its assertion holds. *)
LEMMA ClearNewIs ==
  ASSUME NEW m, Core(m), NEW slot \in NewSlots, NEW c, c = ClearNew(m, slot)
  PROVE  NewCleared(m, c, slot)
  <1>1. PICK id : id = m.vvNew[slot]
    OBVIOUS
  <1>2. m \in Manager /\ IsFiniteSet(DOMAIN m.mapInfo) /\ m.vvNew \in [NewSlots -> Int] /\ m.asserts
    BY Fields DEF Core
  <1>3. CASE id = Nobody
    <2>1. c = m
      BY <1>1, <1>3 DEF ClearNew
    <2>2. m.vvNew = [m.vvNew EXCEPT ![slot] = Nobody]
      BY <1>1, <1>2, <1>3
    <2> QED
      BY <2>1, <2>2 DEF NewCleared
  <1>4. CASE id # Nobody
    <2>1. id \in NewIds(m) /\ id \in DOMAIN m.mapInfo /\ ~m.mapInfo[id].fInTried
      BY <1>1, <1>2, <1>4, Ids DEF Core, NewTable
    <2>2. m.mapInfo[id].nRefCount \in Nat \ {0} /\ m.mapInfo[id] \in InfoType /\ m.mapInfo \in Partial(Nat, InfoType)
      <3>1. IsFiniteSet(Refs(m, id)) /\ Cardinality(Refs(m, id)) = m.mapInfo[id].nRefCount
        BY <2>1 DEF Core, NewTable
      <3>2. Refs(m, id) # {}
        BY <1>1 DEF Refs
      <3>3. m.mapInfo[id].nRefCount # 0
        BY <3>1, <3>2, FS_EmptySet
      <3>4. m.mapInfo[id] \in InfoType /\ m.mapInfo \in Partial(Nat, InfoType)
        BY <1>2, <2>1, Fields
      <3> QED
        BY <3>3, <3>4 DEF InfoType
    <2>3. PICK info : info = [m.mapInfo[id] EXCEPT !.nRefCount = @ - 1]
      OBVIOUS
    <2>4. /\ info \in InfoType /\ info.nRefCount = m.mapInfo[id].nRefCount - 1 /\ info.svc = m.mapInfo[id].svc
          /\ info.source = m.mapInfo[id].source /\ info.nRandomPos = m.mapInfo[id].nRandomPos
          /\ ~info.fInTried /\ info.succeeded = m.mapInfo[id].succeeded
      BY <2>1, <2>2, <2>3 DEF InfoType
    <2>5. PICK infos : infos = [m.mapInfo EXCEPT ![id] = info]
      OBVIOUS
    <2>6. PICK k : k = [m EXCEPT !.vvNew[slot] = Nobody, !.mapInfo[id].nRefCount = @ - 1,
                                 !.asserts = @ /\ m.mapInfo[id].nRefCount > 0]
      OBVIOUS
    <2>7. IsWith(Nat, InfoType, infos, m.mapInfo, id, info)
      BY <2>1, <2>2, <2>4, <2>5, ExceptIs
    <2>8. k = [m EXCEPT !.vvNew = [m.vvNew EXCEPT ![slot] = Nobody], !.mapInfo = infos, !.asserts = TRUE]
      <3>1. (m.asserts /\ m.mapInfo[id].nRefCount > 0) = TRUE
        BY <1>2, <2>2
      <3>2. k = [m EXCEPT !.vvNew = [m.vvNew EXCEPT ![slot] = Nobody], !.mapInfo = infos,
                          !.asserts = (m.asserts /\ m.mapInfo[id].nRefCount > 0)]
        BY <1>2, <2>3, <2>5, <2>6 DEF Manager
      <3> QED
        BY <3>1, <3>2, Zenon
    <2>9. /\ k.vvNew = [m.vvNew EXCEPT ![slot] = Nobody] /\ k.mapInfo = infos /\ k.asserts
          /\ k.vRandom = m.vRandom /\ k.mapAddr = m.mapAddr /\ k.nIdCount = m.nIdCount /\ k.vvTried = m.vvTried
          /\ k.m_tried_collisions = m.m_tried_collisions /\ k.nNew = m.nNew /\ k.nTried = m.nTried
      BY <1>2, <2>8 DEF Manager
    <2>10. k \in Manager
      <3>1. infos \in Partial(Nat, InfoType) /\ [m.vvNew EXCEPT ![slot] = Nobody] \in [NewSlots -> Int]
        BY <1>2, <2>7 DEF IsWith, Nobody
      <3> QED
        BY <1>2, <2>8, <3>1 DEF Manager
    <2>11. Recounted(m, k, id, slot, Nobody, info)
      BY <2>1, <2>4, <2>7, <2>9, <2>10 DEF Recounted, Changed
    <2>12. /\ Core(k) /\ id \notin Loose(m)
           /\ info.nRefCount = 0 => Loose(k) = Loose(m) \cup {id}
           /\ info.nRefCount # 0 => Loose(k) = Loose(m)
      <3>1. m.vvNew[slot] = id /\ info.nRefCount = m.mapInfo[id].nRefCount - 1
        BY <1>1, <2>4
      <3>2. RefTaken(m, k, id, info)
        BY <2>11, <3>1, RefRemoved
      <3> QED
        BY <3>2 DEF RefTaken
    <2>13. TriedIds(k) = TriedIds(m) /\ NewIds(k) = NewIds(m)
      BY <2>11, RecountedTables
    <2>14. /\ DOMAIN k.mapInfo = DOMAIN m.mapInfo /\ k.mapInfo[id] = info
           /\ \A x \in DOMAIN m.mapInfo \ {id} : k.mapInfo[x] = m.mapInfo[x]
      BY <2>1, <2>7, <2>9 DEF IsWith
    <2>15. \A new, tried \in Int : Counts(m, new, tried) => Counts(k, new, tried)
      BY <2>9, <2>13 DEF Counts
    <2>16. c = IF k.mapInfo[id].nRefCount = 0 THEN Delete(k, id) ELSE k
      BY <1>1, <1>4, <2>6 DEF ClearNew
    <2>17. CASE info.nRefCount # 0
      <3>1. c = k
        BY <2>14, <2>16, <2>17
      <3>2. Core(k) /\ Loose(k) = Loose(m) /\ k.vvNew = [m.vvNew EXCEPT ![slot] = Nobody]
        BY <2>9, <2>12, <2>17
      <3>3. \A x \in DOMAIN k.mapInfo :
              /\ k.mapInfo[x].svc = m.mapInfo[x].svc /\ k.mapInfo[x].source = m.mapInfo[x].source
              /\ k.mapInfo[x].fInTried = m.mapInfo[x].fInTried
              /\ k.mapInfo[x].succeeded = m.mapInfo[x].succeeded
        <4>1. info.fInTried = m.mapInfo[id].fInTried
          BY <2>2, <2>3 DEF InfoType
        <4> QED
          BY <2>4, <2>14, <4>1
      <3> QED
        BY <1>1, <2>9, <2>13, <2>14, <2>15, <3>1, <3>2, <3>3 DEF NewCleared
    <2>18. CASE info.nRefCount = 0
      <3>1. c = Delete(k, id) /\ id \in Loose(k)
        BY <2>12, <2>14, <2>16, <2>18
      <3>2. Deleted(k, c, id)
        BY <2>12, <3>1, DeleteIs
      <3>3. /\ Core(c) /\ TriedIds(c) = TriedIds(k) /\ Loose(c) = Loose(k) \ {id}
            /\ \A new, tried \in Int : Counts(k, new, tried) => Counts(c, new, tried)
        BY <2>12, <3>1, DeleteKeeps
      <3>4. Loose(c) = Loose(m)
        BY <2>12, <2>18, <3>3
      <3>5. /\ DOMAIN c.mapInfo = DOMAIN m.mapInfo \ {id} /\ c.vvNew = k.vvNew /\ c.vvTried = k.vvTried
            /\ c.m_tried_collisions = k.m_tried_collisions /\ c.nIdCount = k.nIdCount
            /\ \A x \in DOMAIN m.mapInfo \ {id} : Kept(c.mapInfo[x], m.mapInfo[x])
        BY <2>14, <3>2 DEF Deleted
      <3>6. \A new, tried \in Int : Counts(m, new, tried) => Counts(c, new, tried)
        BY <2>15, <3>3
      <3> QED
        BY <1>1, <2>9, <2>13, <3>3, <3>4, <3>5, <3>6 DEF NewCleared, Kept
    <2> QED
      BY <2>17, <2>18
  <1> QED
    BY <1>3, <1>4

-----------------------------------------------------------------------------
(* Entries keep who they are, though some may be gone. *)
SameEntries(m, t) ==
    /\ DOMAIN t.mapInfo \subseteq DOMAIN m.mapInfo
    /\ \A x \in DOMAIN t.mapInfo :
          t.mapInfo[x].svc = m.mapInfo[x].svc /\ t.mapInfo[x].source = m.mapInfo[x].source
    /\ t.m_tried_collisions = m.m_tried_collisions /\ t.nIdCount = m.nIdCount

(* An entry without a position in the new table is not in it. *)
LEMMA Unreferenced ==
  ASSUME NEW m, Core(m), NEW id \in DOMAIN m.mapInfo
  PROVE  m.mapInfo[id].nRefCount = 0 <=> \A s \in NewSlots : m.vvNew[s] # id
  <1>1. IsFiniteSet(Refs(m, id)) /\ m.mapInfo[id].nRefCount = Cardinality(Refs(m, id))
    BY DEF Core, NewTable
  <1>2. Cardinality(Refs(m, id)) = 0 <=> Refs(m, id) = {}
    BY <1>1, FS_EmptySet
  <1> QED
    BY <1>1, <1>2 DEF Refs

(* A tried entry is not in the new table. *)
LEMMA TriedNotNew ==
  ASSUME NEW m, Core(m), NEW id \in TriedIds(m)
  PROVE  (\A s \in NewSlots : m.vvNew[s] # id) /\ m.mapInfo[id].nRefCount = 0
  <1>1. id \in DOMAIN m.mapInfo /\ id \notin NewIds(m) /\ id # Nobody
    BY Ids DEF Core, TriedIds, NewIds
  <1>2. \A s \in NewSlots : m.vvNew[s] # id
    BY <1>1 DEF Core, NewTable
  <1> QED
    BY <1>1, <1>2, Unreferenced

Left(m, l, id) ==
    /\ Core(l) /\ SameEntries(m, l) /\ NewIds(l) = NewIds(m) /\ TriedIds(l) = TriedIds(m)
    /\ Loose(l) = Loose(m) \cup {id} /\ l.vvTried = m.vvTried
    /\ DOMAIN l.mapInfo = DOMAIN m.mapInfo /\ l.mapInfo[id].succeeded = m.mapInfo[id].succeeded
    /\ \A s \in NewSlots : l.vvNew[s] = IF m.vvNew[s] = id THEN Nobody ELSE m.vvNew[s]
    /\ \A new, tried \in Int : Counts(m, new, tried) => Counts(l, new - 1, tried)

(* LeaveNew takes all positions of an entry, as many as it has counted. *)
LEMMA LeaveNewIs ==
  ASSUME NEW m, Core(m), NEW id \in NewIds(m), NEW l, l = LeaveNew(m, id)
  PROVE  Left(m, l, id)
  <1>1. /\ m \in Manager /\ IsFiniteSet(DOMAIN m.mapInfo) /\ m.vvNew \in [NewSlots -> Int] /\ m.asserts
        /\ id \in DOMAIN m.mapInfo /\ ~m.mapInfo[id].fInTried /\ id # Nobody
        /\ m.mapInfo[id] \in InfoType /\ m.mapInfo \in Partial(Nat, InfoType)
    BY Fields, Ids DEF Core
  <1>2. PICK held : held = {s \in NewSlotsOf(m.mapInfo[id].svc) : m.vvNew[s] = id}
    OBVIOUS
  <1>3. held = Refs(m, id)
    <2>1. m.mapInfo[id].svc \in Services
      BY <1>1 DEF InfoType
    <2>2. NewSlotsOf(m.mapInfo[id].svc) \subseteq NewSlots
      BY <2>1, Places
    <2>3. \A s \in NewSlots : m.vvNew[s] = id => s \in NewSlotsOf(m.mapInfo[id].svc)
      BY <1>1 DEF Core, NewTable
    <2> QED
      BY <1>2, <2>2, <2>3 DEF Refs
  <1>4. m.mapInfo[id].nRefCount \in Nat /\ m.mapInfo[id].nRefCount = Cardinality(held)
    BY <1>1, <1>3 DEF Core, NewTable, InfoType
  <1>5. PICK info : info = [m.mapInfo[id] EXCEPT !.nRefCount = 0]
    OBVIOUS
  <1>6. /\ info \in InfoType /\ info.nRefCount = 0 /\ info.svc = m.mapInfo[id].svc
        /\ info.source = m.mapInfo[id].source /\ info.nRandomPos = m.mapInfo[id].nRandomPos
        /\ ~info.fInTried /\ info.succeeded = m.mapInfo[id].succeeded
    BY <1>1, <1>5 DEF InfoType
  <1>7. PICK infos : infos = [m.mapInfo EXCEPT ![id] = info]
    OBVIOUS
  <1>8. PICK table : table = [s \in NewSlots |-> IF s \in held THEN Nobody ELSE m.vvNew[s]]
    OBVIOUS
  <1>9. /\ table \in [NewSlots -> Int]
        /\ \A s \in NewSlots : table[s] = IF m.vvNew[s] = id THEN Nobody ELSE m.vvNew[s]
    BY <1>1, <1>3, <1>8 DEF Refs, Nobody
  <1>10. IsWith(Nat, InfoType, infos, m.mapInfo, id, info)
    BY <1>1, <1>6, <1>7, ExceptIs
  <1>11. l = [m EXCEPT !.vvNew = table, !.mapInfo = infos, !.nNew = m.nNew - 1, !.asserts = TRUE]
    <2>1. PICK left : left = m.mapInfo[id].nRefCount - Cardinality(held)
      OBVIOUS
    <2>2. left = 0 /\ (m.asserts /\ left = 0) = TRUE
      BY <1>1, <1>4, <2>1
    <2>3. l = [m EXCEPT !.vvNew = [s \in NewSlots |-> IF s \in held THEN Nobody ELSE @[s]],
                        !.mapInfo[id].nRefCount = left, !.nNew = @ - 1, !.asserts = @ /\ left = 0]
      BY <1>2, <2>1 DEF LeaveNew
    <2>4. l = [m EXCEPT !.vvNew = table, !.mapInfo = infos, !.nNew = m.nNew - 1,
                        !.asserts = (m.asserts /\ left = 0)]
      BY <1>1, <1>5, <1>7, <1>8, <2>2, <2>3 DEF Manager
    <2> QED
      BY <2>2, <2>4, Zenon
  <1>12. /\ l.vvNew = table /\ l.mapInfo = infos /\ l.nNew = m.nNew - 1 /\ l.asserts
         /\ l.vRandom = m.vRandom /\ l.mapAddr = m.mapAddr /\ l.nIdCount = m.nIdCount /\ l.vvTried = m.vvTried
         /\ l.m_tried_collisions = m.m_tried_collisions /\ l.nTried = m.nTried
    BY <1>1, <1>11 DEF Manager
  <1>13. l \in Manager
    <2>1. infos \in Partial(Nat, InfoType) /\ table \in [NewSlots -> Int] /\ m.nNew - 1 \in Int
      BY <1>1, <1>9, <1>10, Fields DEF IsWith
    <2> QED
      BY <1>1, <1>11, <2>1 DEF Manager
  <1>14. Changed(m, l, id, info)
    BY <1>1, <1>6, <1>10, <1>12, <1>13 DEF Changed
  <1>15. /\ RandomIndex(l) /\ HostIndex(l) /\ DOMAIN l.mapInfo = DOMAIN m.mapInfo
         /\ l.mapInfo[id] = info /\ \A x \in DOMAIN m.mapInfo \ {id} : l.mapInfo[x] = m.mapInfo[x]
    <2>1. StillIndexed(m, l, id, info)
      BY <1>14, ChangedIndex DEF Core
    <2> QED
      BY <2>1 DEF StillIndexed
  <1>16. TriedIds(l) = TriedIds(m) /\ NewIds(l) = NewIds(m)
    <2>1. TriedIds(l) = TriedIds(m)
      BY <1>1, <1>6, <1>15 DEF TriedIds
    <2> QED
      BY <1>15, <2>1 DEF NewIds
  <1>17. TriedTable(l)
    <2>1. \A x \in TriedIds(m) : l.mapInfo[x] = m.mapInfo[x]
      BY <1>1, <1>15 DEF TriedIds
    <2> QED
      BY <1>12, <1>16, <2>1 DEF TriedTable, Core
  <1>18. NewTable(l)
    <2>1. ASSUME NEW s \in NewSlots, l.vvNew[s] # Nobody
          PROVE  l.vvNew[s] \in NewIds(l) /\ s \in NewSlotsOf(l.mapInfo[l.vvNew[s]].svc)
      <3>1. l.vvNew[s] = m.vvNew[s] /\ m.vvNew[s] # id
        BY <2>1, <1>9, <1>12
      <3>2. m.vvNew[s] \in NewIds(m) /\ s \in NewSlotsOf(m.mapInfo[m.vvNew[s]].svc)
        BY <2>1, <3>1 DEF Core, NewTable
      <3>3. l.mapInfo[m.vvNew[s]] = m.mapInfo[m.vvNew[s]]
        BY <3>1, <3>2, <1>15 DEF NewIds
      <3> QED
        BY <3>1, <3>2, <3>3, <1>16
    <2>2. ASSUME NEW x \in DOMAIN l.mapInfo
          PROVE  /\ IsFiniteSet(Refs(l, x)) /\ l.mapInfo[x].nRefCount = Cardinality(Refs(l, x))
                 /\ l.mapInfo[x].nRefCount <= MaxRefs
      <3>1. CASE x = id
        <4>1. Refs(l, id) = {}
          BY <1>1, <1>9, <1>12 DEF Refs
        <4> QED
          BY <3>1, <4>1, <1>6, <1>15, FS_EmptySet, LimitAssumption
      <3>2. CASE x # id
        <4>1. x \in DOMAIN m.mapInfo /\ l.mapInfo[x] = m.mapInfo[x] /\ x # Nobody
          BY <3>2, <1>1, <1>15, Ids
        <4>2. Refs(l, x) = Refs(m, x)
          BY <3>2, <4>1, <1>9, <1>12 DEF Refs
        <4> QED
          BY <4>1, <4>2 DEF NewTable, Core
      <3> QED
        BY <3>1, <3>2
    <2> QED
      BY <2>1, <2>2 DEF NewTable
  <1>19. Loose(l) = Loose(m) \cup {id}
    <2>1. \A x \in NewIds(m) \ {id} : l.mapInfo[x] = m.mapInfo[x]
      BY <1>15 DEF NewIds
    <2> QED
      BY <1>6, <1>15, <1>16, <2>1 DEF Loose
  <1>20. ASSUME NEW new \in Int, NEW tried \in Int, Counts(m, new, tried)
         PROVE  Counts(l, new - 1, tried)
    <2>1. Cardinality(NewIds(m)) \in Nat
      BY <1>1, Ids
    <2> QED
      BY <1>12, <1>16, <1>20, <2>1 DEF Counts
  <1>21. Core(l)
    BY <1>1, <1>12, <1>13, <1>15, <1>17, <1>18 DEF Core
  <1>22. SameEntries(m, l)
    BY <1>6, <1>12, <1>15 DEF SameEntries
  <1> QED
    BY <1>6, <1>9, <1>12, <1>15, <1>16, <1>19, <1>20, <1>21, <1>22 DEF Left

-----------------------------------------------------------------------------
TakenOut(m, o, old, slot) ==
    /\ Core(o) /\ SameEntries(m, o) /\ DOMAIN o.mapInfo = DOMAIN m.mapInfo
    /\ TriedIds(o) = TriedIds(m) \ {old} /\ old \in Loose(o) /\ Loose(o) = Loose(m) \cup {old}
    /\ o.vvTried = [m.vvTried EXCEPT ![slot] = Nobody] /\ o.vvNew = m.vvNew
    /\ \A x \in DOMAIN m.mapInfo : o.mapInfo[x].succeeded = m.mapInfo[x].succeeded
    /\ \A new, tried \in Int : Counts(m, new, tried) => Counts(o, new - 1, tried)

(* The entry at a tried position is taken out: it is then new, without a   *)
(* position.                                                               *)
LEMMA TakenOutIs ==
  ASSUME NEW m, Core(m), NEW slot \in TriedSlots, NEW old, old = m.vvTried[slot], old # Nobody, NEW o,
         o = [m EXCEPT !.mapInfo[old].fInTried = FALSE, !.vvTried[slot] = Nobody, !.nTried = @ - 1]
  PROVE  TakenOut(m, o, old, slot)
  <1>1. /\ m \in Manager /\ IsFiniteSet(DOMAIN m.mapInfo) /\ m.vvTried \in [TriedSlots -> Int] /\ m.asserts
        /\ old \in TriedIds(m) /\ TriedSlot[m.mapInfo[old].svc] = slot
    BY Fields DEF Core, TriedTable
  <1>2. /\ old \in DOMAIN m.mapInfo /\ m.mapInfo[old].fInTried /\ m.mapInfo[old].nRefCount = 0
        /\ m.mapInfo[old] \in InfoType /\ m.mapInfo \in Partial(Nat, InfoType)
        /\ \A s \in NewSlots : m.vvNew[s] # old
    BY <1>1, Fields, Ids, TriedNotNew
  <1>3. PICK info : info = [m.mapInfo[old] EXCEPT !.fInTried = FALSE]
    OBVIOUS
  <1>4. /\ info \in InfoType /\ info.nRefCount = 0 /\ info.svc = m.mapInfo[old].svc
        /\ info.source = m.mapInfo[old].source /\ info.nRandomPos = m.mapInfo[old].nRandomPos
        /\ ~info.fInTried /\ info.succeeded = m.mapInfo[old].succeeded
    BY <1>2, <1>3 DEF InfoType
  <1>5. PICK infos : infos = [m.mapInfo EXCEPT ![old] = info]
    OBVIOUS
  <1>6. PICK table : table = [m.vvTried EXCEPT ![slot] = Nobody]
    OBVIOUS
  <1>7. IsWith(Nat, InfoType, infos, m.mapInfo, old, info)
    BY <1>2, <1>4, <1>5, ExceptIs
  <1>8. o = [m EXCEPT !.mapInfo = infos, !.vvTried = table, !.nTried = m.nTried - 1]
    BY <1>1, <1>3, <1>5, <1>6 DEF Manager
  <1>9. /\ o.vvTried = table /\ o.mapInfo = infos /\ o.nTried = m.nTried - 1 /\ o.asserts
        /\ o.vRandom = m.vRandom /\ o.mapAddr = m.mapAddr /\ o.nIdCount = m.nIdCount /\ o.vvNew = m.vvNew
        /\ o.m_tried_collisions = m.m_tried_collisions /\ o.nNew = m.nNew
    BY <1>1, <1>8 DEF Manager
  <1>10. o \in Manager
    <2>1. infos \in Partial(Nat, InfoType) /\ table \in [TriedSlots -> Int] /\ m.nTried - 1 \in Int
      BY <1>1, <1>6, <1>7, Fields DEF IsWith, Nobody
    <2> QED
      BY <1>1, <1>8, <2>1 DEF Manager
  <1>11. Changed(m, o, old, info)
    BY <1>2, <1>4, <1>7, <1>9, <1>10 DEF Changed
  <1>12. /\ RandomIndex(o) /\ HostIndex(o) /\ DOMAIN o.mapInfo = DOMAIN m.mapInfo
         /\ o.mapInfo[old] = info /\ \A x \in DOMAIN m.mapInfo \ {old} : o.mapInfo[x] = m.mapInfo[x]
    <2>1. StillIndexed(m, o, old, info)
      BY <1>11, ChangedIndex DEF Core
    <2> QED
      BY <2>1 DEF StillIndexed
  <1>13. TriedIds(o) = TriedIds(m) \ {old} /\ NewIds(o) = NewIds(m) \cup {old} /\ old \notin NewIds(m)
    <2>1. TriedIds(o) = TriedIds(m) \ {old}
      BY <1>4, <1>12 DEF TriedIds
    <2> QED
      BY <1>1, <1>2, <1>12, <2>1 DEF NewIds
  <1>14. \A x \in DOMAIN m.mapInfo : /\ o.mapInfo[x].svc = m.mapInfo[x].svc
                                     /\ o.mapInfo[x].source = m.mapInfo[x].source
                                     /\ o.mapInfo[x].succeeded = m.mapInfo[x].succeeded
                                     /\ o.mapInfo[x].nRefCount = m.mapInfo[x].nRefCount
    BY <1>2, <1>4, <1>12
  <1>15. TriedTable(o)
    <2>1. ASSUME NEW s \in TriedSlots, o.vvTried[s] # Nobody
          PROVE  o.vvTried[s] \in TriedIds(o) /\ TriedSlot[o.mapInfo[o.vvTried[s]].svc] = s
      <3>1. s # slot /\ o.vvTried[s] = m.vvTried[s]
        BY <2>1, <1>1, <1>6, <1>9
      <3>2. m.vvTried[s] \in TriedIds(m) /\ TriedSlot[m.mapInfo[m.vvTried[s]].svc] = s
        BY <2>1, <3>1 DEF Core, TriedTable
      <3>3. m.vvTried[s] # old /\ m.vvTried[s] \in DOMAIN m.mapInfo
        BY <3>1, <3>2, <1>1 DEF TriedIds
      <3> QED
        BY <3>1, <3>2, <3>3, <1>12, <1>13
    <2>2. ASSUME NEW x \in TriedIds(o)
          PROVE  o.mapInfo[x].succeeded /\ o.vvTried[TriedSlot[o.mapInfo[x].svc]] = x
      <3>1. x \in TriedIds(m) /\ x # old /\ x \in DOMAIN m.mapInfo
        BY <1>13 DEF TriedIds
      <3>2. m.mapInfo[x].succeeded /\ m.vvTried[TriedSlot[m.mapInfo[x].svc]] = x
        BY <3>1 DEF Core, TriedTable
      <3>3. TriedSlot[m.mapInfo[x].svc] \in TriedSlots \ {slot}
        <4>1. m.mapInfo[x].svc \in Services
          BY <1>1, <3>1, Fields DEF InfoType
        <4> QED
          BY <4>1, <3>1, <3>2, Places
      <3> QED
        BY <3>1, <3>2, <3>3, <1>1, <1>6, <1>9, <1>12
    <2> QED
      BY <2>1, <2>2 DEF TriedTable
  <1>16. NewTable(o)
    <2>1. \A x : Refs(o, x) = Refs(m, x)
      BY <1>9 DEF Refs
    <2>2. \A s \in NewSlots : m.vvNew[s] # Nobody =>
             m.vvNew[s] \in DOMAIN m.mapInfo /\ m.vvNew[s] \in NewIds(m) /\ s \in NewSlotsOf(m.mapInfo[m.vvNew[s]].svc)
      BY DEF Core, NewTable, NewIds
    <2>3. \A x \in DOMAIN m.mapInfo :
             /\ IsFiniteSet(Refs(m, x)) /\ m.mapInfo[x].nRefCount = Cardinality(Refs(m, x))
             /\ m.mapInfo[x].nRefCount <= MaxRefs
      BY DEF Core, NewTable
    <2>4. \A s \in NewSlots : o.vvNew[s] # Nobody =>
             o.vvNew[s] \in NewIds(o) /\ s \in NewSlotsOf(o.mapInfo[o.vvNew[s]].svc)
      BY <1>9, <1>13, <1>14, <2>2
    <2>5. \A x \in DOMAIN o.mapInfo :
             /\ IsFiniteSet(Refs(o, x)) /\ o.mapInfo[x].nRefCount = Cardinality(Refs(o, x))
             /\ o.mapInfo[x].nRefCount <= MaxRefs
      BY <1>12, <1>14, <2>1, <2>3
    <2> QED
      BY <2>4, <2>5 DEF NewTable
  <1>17. Loose(o) = Loose(m) \cup {old}
    <2>1. \A x \in NewIds(o) : x \in DOMAIN m.mapInfo
      BY <1>12 DEF NewIds
    <2> QED
      BY <1>2, <1>13, <1>14, <2>1 DEF Loose
  <1>18. ASSUME NEW new \in Int, NEW tried \in Int, Counts(m, new, tried)
         PROVE  Counts(o, new - 1, tried)
    <2>1. /\ Cardinality(NewIds(m)) \in Nat /\ Cardinality(TriedIds(m)) \in Nat
          /\ IsFiniteSet(NewIds(m)) /\ IsFiniteSet(TriedIds(m))
      BY <1>1, Ids
    <2>2. Cardinality(NewIds(o)) = Cardinality(NewIds(m)) + 1
      <3>1. Cardinality(NewIds(m) \cup {old}) = Cardinality(NewIds(m)) + 1
        BY <1>13, <2>1, FS_AddElement
      <3> QED
        BY <1>13, <3>1
    <2>3. Cardinality(TriedIds(o)) = Cardinality(TriedIds(m)) - 1
      BY <1>1, <1>13, <2>1, FS_RemoveElement
    <2> QED
      BY <1>9, <1>18, <2>1, <2>2, <2>3 DEF Counts
  <1>19. Core(o)
    BY <1>1, <1>9, <1>10, <1>12, <1>15, <1>16 DEF Core
  <1>20. SameEntries(m, o)
    BY <1>9, <1>12, <1>14 DEF SameEntries
  <1> QED
    BY <1>6, <1>9, <1>12, <1>13, <1>14, <1>17, <1>18, <1>19, <1>20 DEF TakenOut

(* An entry gets a free position, by one more reference. *)
Place(m, id, slot, n) ==
    [m EXCEPT !.mapInfo[id].nRefCount = m.mapInfo[id].nRefCount + 1, !.vvNew[slot] = id,
              !.nNew = n, !.asserts = TRUE]
Placed(m, c, id, slot, n) ==
    /\ c.nNew = n /\ c.nTried = m.nTried
    /\ Core(c) /\ SameEntries(m, c) /\ DOMAIN c.mapInfo = DOMAIN m.mapInfo
    /\ TriedIds(c) = TriedIds(m) /\ NewIds(c) = NewIds(m) /\ Loose(c) = Loose(m) \ {id}
    /\ c.vvTried = m.vvTried /\ c.vvNew = [m.vvNew EXCEPT ![slot] = id]
    /\ \A x \in DOMAIN m.mapInfo : c.mapInfo[x].succeeded = m.mapInfo[x].succeeded

(* The whole effect of that reference *)
LEMMA PlacedIs ==
  ASSUME NEW m, Core(m), NEW id \in NewIds(m), NEW slot \in NewSlots, m.vvNew[slot] = Nobody,
         slot \in NewSlotsOf(m.mapInfo[id].svc), m.mapInfo[id].nRefCount < MaxRefs, NEW c, NEW n \in Int,
         c = Place(m, id, slot, n)
  PROVE  Placed(m, c, id, slot, n)
  <1>1. /\ m \in Manager /\ IsFiniteSet(DOMAIN m.mapInfo) /\ m.vvNew \in [NewSlots -> Int]
        /\ id \in DOMAIN m.mapInfo /\ ~m.mapInfo[id].fInTried /\ id \in Nat
        /\ m.mapInfo[id] \in InfoType /\ m.mapInfo \in Partial(Nat, InfoType)
    BY Fields, Ids DEF Core
  <1>2. PICK info : info = [m.mapInfo[id] EXCEPT !.nRefCount = m.mapInfo[id].nRefCount + 1]
    OBVIOUS
  <1>3. /\ info \in InfoType /\ info.nRefCount = m.mapInfo[id].nRefCount + 1 /\ info.svc = m.mapInfo[id].svc
        /\ info.source = m.mapInfo[id].source /\ info.nRandomPos = m.mapInfo[id].nRandomPos
        /\ ~info.fInTried /\ info.succeeded = m.mapInfo[id].succeeded
    BY <1>1, <1>2 DEF InfoType
  <1>4. PICK infos : infos = [m.mapInfo EXCEPT ![id] = info]
    OBVIOUS
  <1>5. PICK table : table = [m.vvNew EXCEPT ![slot] = id]
    OBVIOUS
  <1>6. IsWith(Nat, InfoType, infos, m.mapInfo, id, info)
    BY <1>1, <1>3, <1>4, ExceptIs
  <1>7. c = [m EXCEPT !.mapInfo = infos, !.vvNew = table, !.nNew = n, !.asserts = TRUE]
    BY <1>1, <1>2, <1>4, <1>5 DEF Manager, Place
  <1>8. /\ c.vvNew = table /\ c.mapInfo = infos /\ c.nNew = n /\ c.asserts /\ c.nTried = m.nTried
        /\ c.vRandom = m.vRandom /\ c.mapAddr = m.mapAddr /\ c.nIdCount = m.nIdCount /\ c.vvTried = m.vvTried
        /\ c.m_tried_collisions = m.m_tried_collisions
    BY <1>1, <1>7 DEF Manager
  <1>9. c \in Manager
    <2>1. infos \in Partial(Nat, InfoType) /\ table \in [NewSlots -> Int]
      BY <1>1, <1>5, <1>6 DEF IsWith
    <2> QED
      BY <1>1, <1>7, <2>1 DEF Manager
  <1>10. Changed(m, c, id, info) /\ Recounted(m, c, id, slot, id, info)
    BY <1>1, <1>3, <1>5, <1>6, <1>8, <1>9 DEF Changed, Recounted
  <1>11. Core(c) /\ Loose(c) = Loose(m) \ {id}
    BY <1>3, <1>10, RefAdded
  <1>12. TriedIds(c) = TriedIds(m) /\ NewIds(c) = NewIds(m)
    BY <1>10, RecountedTables
  <1>13. /\ DOMAIN c.mapInfo = DOMAIN m.mapInfo
         /\ c.mapInfo[id] = info /\ \A x \in DOMAIN m.mapInfo \ {id} : c.mapInfo[x] = m.mapInfo[x]
    <2>1. StillIndexed(m, c, id, info)
      BY <1>10, ChangedIndex DEF Core
    <2> QED
      BY <2>1 DEF StillIndexed
  <1>14. SameEntries(m, c)
    BY <1>3, <1>8, <1>13 DEF SameEntries
  <1> QED
    BY <1>3, <1>5, <1>8, <1>11, <1>12, <1>13, <1>14 DEF Placed

-----------------------------------------------------------------------------
(* The position of the new table that the source of an entry leads to *)
Home(m, id) == SlotFor(m.mapInfo[id].svc, m.mapInfo[id].source)

Evicted(m, e, slot) ==
    /\ Core(e) /\ SameEntries(m, e) /\ Loose(e) = Loose(m)
    /\ TriedIds(e) = TriedIds(m) \ {m.vvTried[slot]}
    /\ e.vvTried = [m.vvTried EXCEPT ![slot] = Nobody]
    /\ \A x \in DOMAIN e.mapInfo : e.mapInfo[x].succeeded = m.mapInfo[x].succeeded
    /\ \A new, tried \in Int : Counts(m, new, tried) => Counts(e, new, tried)
    /\ e.vvNew = IF m.vvTried[slot] = Nobody THEN m.vvNew
                 ELSE [m.vvNew EXCEPT ![Home(m, m.vvTried[slot])] = m.vvTried[slot]]

(* An evicted entry is at home, whatever was there. *)
LEMMA EvictTriedIs ==
  ASSUME NEW m, Core(m), NEW slot \in TriedSlots, NEW e, e = EvictTried(m, slot)
  PROVE  Evicted(m, e, slot)
  <1>1. PICK old : old = m.vvTried[slot]
    OBVIOUS
  <1>2. m \in Manager /\ IsFiniteSet(DOMAIN m.mapInfo) /\ m.vvTried \in [TriedSlots -> Int] /\ m.vvNew \in [NewSlots -> Int]
    BY Fields DEF Core
  <1>3. CASE old = Nobody
    <2>1. e = m
      BY <1>1, <1>3 DEF EvictTried
    <2>2. m.vvTried = [m.vvTried EXCEPT ![slot] = Nobody] /\ Nobody \notin TriedIds(m)
      BY <1>1, <1>2, <1>3, Ids
    <2> QED
      BY <1>1, <1>3, <2>1, <2>2 DEF Evicted, SameEntries
  <1>4. CASE old # Nobody
    <2>1. PICK home : home = Home(m, old)
      OBVIOUS
    <2>2. PICK o : o = [m EXCEPT !.mapInfo[old].fInTried = FALSE, !.vvTried[slot] = Nobody, !.nTried = @ - 1]
      OBVIOUS
    <2>3. PICK c : c = ClearNew(o, home)
      OBVIOUS
    <2>4. e = BackToNew(c, old, home)
      BY <1>1, <1>4, <2>1, <2>2, <2>3 DEF EvictTried, Home
    <2>5. old \in TriedIds(m) /\ old \in DOMAIN m.mapInfo
      BY <1>1, <1>2, <1>4, Ids DEF Core, TriedTable
    <2>6. m.mapInfo[old].svc \in Services /\ m.mapInfo[old].source \in Sources
      BY <1>2, <2>5, Fields DEF InfoType
    <2>7. home \in NewSlots /\ home \in NewSlotsOf(m.mapInfo[old].svc)
      BY <2>1, <2>6, Places DEF Home
    <2>8. TakenOut(m, o, old, slot)
      BY <1>1, <1>4, <2>2, TakenOutIs
    <2>9. NewCleared(o, c, home)
      BY <2>3, <2>7, <2>8, ClearNewIs DEF TakenOut
    <2>10. old \in DOMAIN o.mapInfo /\ o.mapInfo[old].nRefCount = 0 /\ Core(o)
      BY <2>8 DEF TakenOut, Loose, NewIds
    <2>11. old # o.vvNew[home]
      BY <2>7, <2>10, Unreferenced
    <2>12. /\ Core(c) /\ old \in DOMAIN c.mapInfo /\ c.mapInfo[old].nRefCount = 0 /\ old \in Loose(c)
           /\ c.mapInfo[old].svc = m.mapInfo[old].svc /\ c.vvNew = [m.vvNew EXCEPT ![home] = Nobody]
      BY <2>5, <2>8, <2>9, <2>10, <2>11 DEF NewCleared, TakenOut, SameEntries
    <2>13. c \in Manager /\ c.nNew \in Int /\ c.asserts /\ c.vvNew[home] = Nobody /\ old \in NewIds(c) /\ c.nTried \in Int
      BY <1>2, <2>7, <2>12, Fields DEF Core, Loose
    <2>14. e = Place(c, old, home, c.nNew + 1)
      <3>1. (c.asserts /\ c.vvNew[home] = Nobody) = TRUE
        BY <2>13
      <3>2. e = [c EXCEPT !.mapInfo[old].nRefCount = 1, !.vvNew[home] = old,
                          !.nNew = c.nNew + 1, !.asserts = (c.asserts /\ c.vvNew[home] = Nobody)]
        BY <2>4, <2>13 DEF BackToNew, Manager
      <3>3. e = [c EXCEPT !.mapInfo[old].nRefCount = 1, !.vvNew[home] = old, !.nNew = c.nNew + 1, !.asserts = TRUE]
        BY <3>1, <3>2, Zenon
      <3>4. c.mapInfo[old].nRefCount + 1 = 1
        BY <2>12
      <3> QED
        BY <3>3, <3>4, Zenon DEF Place
    <2>15. Placed(c, e, old, home, c.nNew + 1)
      <3>1. c.mapInfo[old].nRefCount < MaxRefs /\ home \in NewSlotsOf(c.mapInfo[old].svc) /\ c.nNew + 1 \in Int
        BY <2>7, <2>12, <2>13, LimitAssumption
      <3> QED
        BY <2>7, <2>12, <2>13, <2>14, <3>1, PlacedIs
    <2>16. Loose(e) = Loose(m)
      <3>1. Loose(o) = Loose(m) \cup {old} /\ Loose(c) = Loose(o) /\ Loose(e) = Loose(c) \ {old}
        BY <2>8, <2>9, <2>15 DEF TakenOut, NewCleared, Placed
      <3>2. old \notin Loose(m)
        BY <2>5 DEF Loose, NewIds
      <3> QED
        BY <3>1, <3>2
    <2>17. TriedIds(e) = TriedIds(m) \ {old}
      BY <2>8, <2>9, <2>15 DEF TakenOut, NewCleared, Placed
    <2>18. e.vvTried = [m.vvTried EXCEPT ![slot] = Nobody]
      BY <2>8, <2>9, <2>15 DEF TakenOut, NewCleared, Placed
    <2>19. e.vvNew = [m.vvNew EXCEPT ![home] = old]
      BY <1>2, <2>7, <2>12, <2>15 DEF Placed
    <2>20. SameEntries(m, e) /\ \A x \in DOMAIN e.mapInfo : e.mapInfo[x].succeeded = m.mapInfo[x].succeeded
      BY <2>8, <2>9, <2>15 DEF TakenOut, NewCleared, Placed, SameEntries
    <2>21. ASSUME NEW new \in Int, NEW tried \in Int, Counts(m, new, tried)
           PROVE  Counts(e, new, tried)
      <3>1. Counts(o, new - 1, tried)
        BY <2>8, <2>21 DEF TakenOut
      <3>2. Counts(c, new - 1, tried)
        BY <2>9, <3>1 DEF NewCleared
      <3>3. NewIds(e) = NewIds(c) /\ TriedIds(e) = TriedIds(c)
        BY <2>15 DEF Placed
      <3>4. Cardinality(NewIds(c)) \in Nat
        BY <2>12, Ids DEF Core
      <3> QED
        BY <2>15, <3>2, <3>3, <3>4 DEF Counts, Placed
    <2>22. Core(e)
      BY <2>15 DEF Placed
    <2> QED
      BY <1>1, <1>4, <2>1, <2>16, <2>17, <2>18, <2>19, <2>20, <2>21, <2>22 DEF Evicted
  <1> QED
    BY <1>3, <1>4

-----------------------------------------------------------------------------
Enter(m, id, slot) ==
    [m EXCEPT !.vvTried[slot] = id, !.nTried = @ + 1, !.mapInfo[id].fInTried = TRUE]
Entered(m, t, id, slot) ==
    /\ Core(t) /\ SameEntries(m, t) /\ TriedIds(t) = TriedIds(m) \cup {id} /\ Loose(t) = Loose(m) \ {id}
    /\ t.vvTried = [m.vvTried EXCEPT ![slot] = id] /\ t.vvNew = m.vvNew
    /\ DOMAIN t.mapInfo = DOMAIN m.mapInfo
    /\ \A x \in DOMAIN m.mapInfo : t.mapInfo[x].succeeded = m.mapInfo[x].succeeded
    /\ \A new, tried \in Int : Counts(m, new, tried) => Counts(t, new + 1, tried)

(* An entry without a position in the new table goes to its free position  *)
(* of the tried one.                                                       *)
LEMMA EnteredIs ==
  ASSUME NEW m, Core(m), NEW id \in Loose(m), NEW slot, slot = TriedSlot[m.mapInfo[id].svc],
         m.vvTried[slot] = Nobody, m.mapInfo[id].succeeded, NEW t, t = Enter(m, id, slot)
  PROVE  Entered(m, t, id, slot)
  <1>1. /\ m \in Manager /\ IsFiniteSet(DOMAIN m.mapInfo) /\ m.vvTried \in [TriedSlots -> Int] /\ m.asserts
        /\ id \in NewIds(m) /\ m.mapInfo[id].nRefCount = 0
    BY Fields DEF Core, Loose
  <1>2. /\ id \in DOMAIN m.mapInfo /\ ~m.mapInfo[id].fInTried /\ id \in Nat /\ id # Nobody
        /\ m.mapInfo[id] \in InfoType /\ m.mapInfo \in Partial(Nat, InfoType)
        /\ \A s \in NewSlots : m.vvNew[s] # id
    <2>1. id \in DOMAIN m.mapInfo
      BY <1>1, Ids
    <2> QED
      BY <1>1, <2>1, Fields, Ids, Unreferenced
  <1>3. slot \in TriedSlots
    BY <1>2, Places DEF InfoType
  <1>4. PICK info : info = [m.mapInfo[id] EXCEPT !.fInTried = TRUE]
    OBVIOUS
  <1>5. /\ info \in InfoType /\ info.nRefCount = 0 /\ info.svc = m.mapInfo[id].svc
        /\ info.source = m.mapInfo[id].source /\ info.nRandomPos = m.mapInfo[id].nRandomPos
        /\ info.fInTried /\ info.succeeded /\ info.succeeded = m.mapInfo[id].succeeded
    BY <1>1, <1>2, <1>4 DEF InfoType
  <1>6. PICK infos : infos = [m.mapInfo EXCEPT ![id] = info]
    OBVIOUS
  <1>7. PICK table : table = [m.vvTried EXCEPT ![slot] = id]
    OBVIOUS
  <1>8. IsWith(Nat, InfoType, infos, m.mapInfo, id, info)
    BY <1>2, <1>5, <1>6, ExceptIs
  <1>9. t = [m EXCEPT !.mapInfo = infos, !.vvTried = table, !.nTried = m.nTried + 1]
    BY <1>1, <1>4, <1>6, <1>7 DEF Manager, Enter
  <1>10. /\ t.vvTried = table /\ t.mapInfo = infos /\ t.nTried = m.nTried + 1 /\ t.asserts
         /\ t.vRandom = m.vRandom /\ t.mapAddr = m.mapAddr /\ t.nIdCount = m.nIdCount /\ t.vvNew = m.vvNew
         /\ t.m_tried_collisions = m.m_tried_collisions /\ t.nNew = m.nNew
    BY <1>1, <1>9 DEF Manager
  <1>11. t \in Manager
    <2>1. infos \in Partial(Nat, InfoType)
      BY <1>8 DEF IsWith
    <2>2. table \in [TriedSlots -> Int]
      <3>1. id \in Int /\ m.vvTried \in [TriedSlots -> Int]
        BY <1>1, <1>2
      <3> QED
        BY <1>7, <3>1
    <2>3. m.nTried + 1 \in Int
      BY <1>1, Fields
    <2> QED
      BY <1>1, <1>9, <2>1, <2>2, <2>3 DEF Manager
  <1>12. Changed(m, t, id, info)
    BY <1>2, <1>5, <1>8, <1>10, <1>11 DEF Changed
  <1>13. /\ RandomIndex(t) /\ HostIndex(t) /\ DOMAIN t.mapInfo = DOMAIN m.mapInfo
         /\ t.mapInfo[id] = info /\ \A x \in DOMAIN m.mapInfo \ {id} : t.mapInfo[x] = m.mapInfo[x]
    <2>1. StillIndexed(m, t, id, info)
      BY <1>12, ChangedIndex DEF Core
    <2> QED
      BY <2>1 DEF StillIndexed
  <1>14. TriedIds(t) = TriedIds(m) \cup {id} /\ NewIds(t) = NewIds(m) \ {id} /\ id \notin TriedIds(m)
    <2>1. TriedIds(t) = TriedIds(m) \cup {id}
      BY <1>2, <1>5, <1>13 DEF TriedIds
    <2>2. id \notin TriedIds(m)
      BY <1>2 DEF TriedIds
    <2> QED
      BY <1>13, <2>1, <2>2 DEF NewIds
  <1>15. TriedTable(t)
    <2>3. t.vvTried[slot] = id /\ \A s \in TriedSlots \ {slot} : t.vvTried[s] = m.vvTried[s]
      <3>1. t.vvTried = [m.vvTried EXCEPT ![slot] = id]
        BY <1>7, <1>10
      <3>2. m.vvTried \in [TriedSlots -> Int]
        BY <1>1
      <3> QED
        BY <1>3, <3>1, <3>2
    <2>4. t.mapInfo[id].svc = m.mapInfo[id].svc /\ t.mapInfo[id].succeeded /\ id \in TriedIds(t)
      BY <1>5, <1>13, <1>14
    <2>1. ASSUME NEW s \in TriedSlots, t.vvTried[s] # Nobody
          PROVE  t.vvTried[s] \in TriedIds(t) /\ TriedSlot[t.mapInfo[t.vvTried[s]].svc] = s
      <3>1. CASE s = slot
        BY <3>1, <2>3, <2>4
      <3>2. CASE s # slot
        <4>1. t.vvTried[s] = m.vvTried[s]
          BY <3>2, <2>3
        <4>2. m.vvTried[s] \in TriedIds(m) /\ TriedSlot[m.mapInfo[m.vvTried[s]].svc] = s
          BY <2>1, <4>1 DEF Core, TriedTable
        <4>3. m.vvTried[s] # id /\ m.vvTried[s] \in DOMAIN m.mapInfo
          BY <4>2, <1>14 DEF TriedIds
        <4> QED
          BY <4>1, <4>2, <4>3, <1>13, <1>14, ZenonT(60)
      <3> QED
        BY <3>1, <3>2
    <2>2. ASSUME NEW x \in TriedIds(t)
          PROVE  t.mapInfo[x].succeeded /\ t.vvTried[TriedSlot[t.mapInfo[x].svc]] = x
      <3>1. CASE x = id
        BY <3>1, <2>3, <2>4
      <3>2. CASE x # id
        <4>1. x \in TriedIds(m) /\ x \in DOMAIN m.mapInfo /\ x # Nobody
          BY <3>2, <1>1, <1>14, Ids
        <4>2. m.mapInfo[x].succeeded /\ m.vvTried[TriedSlot[m.mapInfo[x].svc]] = x
          BY <4>1 DEF Core, TriedTable
        <4>3. TriedSlot[m.mapInfo[x].svc] \in TriedSlots \ {slot}
          <5>1. m.mapInfo[x].svc \in Services
            BY <1>1, <4>1, Fields DEF InfoType
          <5> QED
            BY <5>1, <4>1, <4>2, Places
        <4>4. t.mapInfo[x] = m.mapInfo[x] /\ t.vvTried[TriedSlot[m.mapInfo[x].svc]] = m.vvTried[TriedSlot[m.mapInfo[x].svc]]
          BY <3>2, <4>1, <4>3, <2>3, <1>13
        <4> QED
          BY <4>2, <4>4
      <3> QED
        BY <3>1, <3>2
    <2> QED
      BY <2>1, <2>2 DEF TriedTable
  <1>16. NewTable(t)
    <2>1. \A x : Refs(t, x) = Refs(m, x)
      BY <1>10 DEF Refs
    <2>2. \A x \in DOMAIN m.mapInfo : /\ t.mapInfo[x].svc = m.mapInfo[x].svc
                                      /\ t.mapInfo[x].nRefCount = m.mapInfo[x].nRefCount
      BY <1>1, <1>5, <1>13
    <2>3. \A s \in NewSlots : m.vvNew[s] # Nobody =>
             m.vvNew[s] \in DOMAIN m.mapInfo /\ m.vvNew[s] \in NewIds(m) /\ s \in NewSlotsOf(m.mapInfo[m.vvNew[s]].svc)
      BY DEF Core, NewTable, NewIds
    <2>4. \A x \in DOMAIN m.mapInfo :
             /\ IsFiniteSet(Refs(m, x)) /\ m.mapInfo[x].nRefCount = Cardinality(Refs(m, x))
             /\ m.mapInfo[x].nRefCount <= MaxRefs
      BY DEF Core, NewTable
    <2>5. ASSUME NEW s \in NewSlots, t.vvNew[s] # Nobody
          PROVE  t.vvNew[s] \in NewIds(t) /\ s \in NewSlotsOf(t.mapInfo[t.vvNew[s]].svc)
      <3>1. t.vvNew[s] = m.vvNew[s] /\ m.vvNew[s] # id
        BY <1>2, <1>10
      <3>2. /\ m.vvNew[s] \in DOMAIN m.mapInfo /\ m.vvNew[s] \in NewIds(m)
            /\ s \in NewSlotsOf(m.mapInfo[m.vvNew[s]].svc)
        BY <2>3, <2>5, <3>1
      <3>3. t.mapInfo[m.vvNew[s]].svc = m.mapInfo[m.vvNew[s]].svc
        BY <2>2, <3>2
      <3> QED
        BY <1>14, <3>1, <3>2, <3>3
    <2>6. \A x \in DOMAIN t.mapInfo :
             /\ IsFiniteSet(Refs(t, x)) /\ t.mapInfo[x].nRefCount = Cardinality(Refs(t, x))
             /\ t.mapInfo[x].nRefCount <= MaxRefs
      BY <1>13, <2>1, <2>2, <2>4
    <2> QED
      BY <2>5, <2>6 DEF NewTable
  <1>17. Loose(t) = Loose(m) \ {id}
    <2>1. \A x \in NewIds(t) : t.mapInfo[x] = m.mapInfo[x]
      BY <1>13, <1>14 DEF NewIds
    <2> QED
      BY <1>14, <2>1 DEF Loose
  <1>18. ASSUME NEW new \in Int, NEW tried \in Int, Counts(m, new, tried)
         PROVE  Counts(t, new + 1, tried)
    <2>1. /\ Cardinality(NewIds(m)) \in Nat /\ Cardinality(TriedIds(m)) \in Nat
          /\ IsFiniteSet(NewIds(m)) /\ IsFiniteSet(TriedIds(m))
      BY <1>1, Ids
    <2>2. Cardinality(NewIds(m) \ {id}) = Cardinality(NewIds(m)) - 1
      BY <1>1, <2>1, FS_RemoveElement
    <2>3. Cardinality(TriedIds(m) \cup {id}) = Cardinality(TriedIds(m)) + 1
      BY <1>14, <2>1, FS_AddElement
    <2>4. m.nNew = Cardinality(NewIds(m)) + new /\ m.nTried = Cardinality(TriedIds(m)) + tried
      BY <1>18 DEF Counts
    <2>5. t.nNew = Cardinality(NewIds(t)) + (new + 1)
      <3>1. NewIds(t) = NewIds(m) \ {id}
        BY <1>14
      <3>2. Cardinality(NewIds(t)) = Cardinality(NewIds(m)) - 1
        BY <2>2, <3>1
      <3>3. t.nNew = m.nNew
        BY <1>10
      <3> QED
        BY <2>1, <2>4, <3>2, <3>3
    <2>6. t.nTried = Cardinality(TriedIds(t)) + tried
      <3>1. TriedIds(t) = TriedIds(m) \cup {id}
        BY <1>14
      <3>2. Cardinality(TriedIds(t)) = Cardinality(TriedIds(m)) + 1
        BY <2>3, <3>1
      <3>3. t.nTried = m.nTried + 1
        BY <1>10
      <3> QED
        BY <2>1, <2>4, <3>2, <3>3
    <2> QED
      BY <2>5, <2>6 DEF Counts
  <1>19. Core(t)
    BY <1>1, <1>10, <1>11, <1>13, <1>15, <1>16 DEF Core
  <1>20. SameEntries(m, t)
    BY <1>5, <1>10, <1>13 DEF SameEntries
  <1>21. \A x \in DOMAIN m.mapInfo : t.mapInfo[x].succeeded = m.mapInfo[x].succeeded
    BY <1>5, <1>13
  <1> QED
    BY <1>7, <1>10, <1>13, <1>14, <1>17, <1>18, <1>19, <1>20, <1>21 DEF Entered

BecameTried(m, t, id) ==
    LET slot == TriedSlot[m.mapInfo[id].svc]
        old == m.vvTried[slot]
    IN  /\ Core(t) /\ SameEntries(m, t) /\ Loose(t) = Loose(m) \ {id}
        /\ TriedIds(t) = (TriedIds(m) \ {old}) \cup {id}
        /\ t.vvTried = [m.vvTried EXCEPT ![slot] = id]
        /\ \A new, tried \in Int : Counts(m, new, tried) => Counts(t, new, tried)
        /\ old # Nobody => t.vvNew[Home(m, old)] = old
        /\ \A s \in NewSlots : old = Nobody \/ s # Home(m, old) =>
              t.vvNew[s] = IF m.vvNew[s] = id THEN Nobody ELSE m.vvNew[s]

(* MakeTried moves an entry of the new table, and another back to it. *)
LEMMA MakeTriedIs ==
  ASSUME NEW m, Core(m), NEW id \in NewIds(m), m.mapInfo[id].succeeded, NEW t, t = MakeTried(m, id)
  PROVE  BecameTried(m, t, id)
  <1>1. PICK slot : slot = TriedSlot[m.mapInfo[id].svc]
    OBVIOUS
  <1>2. PICK l : l = LeaveNew(m, id)
    OBVIOUS
  <1>3. PICK e : e = EvictTried(l, slot)
    OBVIOUS
  <1>4. t = Enter(e, id, slot)
    BY <1>1, <1>2, <1>3 DEF MakeTried, Enter
  <1>5. Left(m, l, id)
    BY <1>2, LeaveNewIs
  <1>6. /\ m \in Manager /\ id \in DOMAIN m.mapInfo /\ m.mapInfo[id].svc \in Services /\ id \in DOMAIN l.mapInfo
        /\ m.vvTried \in [TriedSlots -> Int] /\ l \in Manager
    BY <1>5, Fields, Ids DEF Core, InfoType, Left
  <1>7. slot \in TriedSlots
    BY <1>1, <1>6, Places
  <1>8. Evicted(l, e, slot)
    BY <1>3, <1>5, <1>7, EvictTriedIs DEF Left
  <1>9. /\ Core(e) /\ id \in Loose(e) /\ id \in DOMAIN e.mapInfo
        /\ e.vvTried = [m.vvTried EXCEPT ![slot] = Nobody]
    BY <1>5, <1>8 DEF Left, Evicted, Loose, NewIds
  <1>10. e.mapInfo[id].svc = m.mapInfo[id].svc /\ e.mapInfo[id].succeeded = m.mapInfo[id].succeeded
    BY <1>5, <1>6, <1>8, <1>9 DEF Left, Evicted, SameEntries
  <1>11. Entered(e, t, id, slot)
    <2>1. slot = TriedSlot[e.mapInfo[id].svc] /\ e.vvTried[slot] = Nobody /\ e.mapInfo[id].succeeded
      BY <1>1, <1>6, <1>7, <1>9, <1>10
    <2> QED
      BY <1>4, <1>9, <2>1, EnteredIs
  <1>12. SameEntries(m, t)
    BY <1>5, <1>8, <1>11 DEF Left, Evicted, Entered, SameEntries
  <1>13. Loose(t) = Loose(m) \ {id}
    BY <1>5, <1>8, <1>11 DEF Left, Evicted, Entered
  <1>14. PICK old : old = m.vvTried[slot]
    OBVIOUS
  <1>15. old = l.vvTried[slot] /\ TriedIds(t) = (TriedIds(m) \ {old}) \cup {id}
    BY <1>5, <1>8, <1>11, <1>14 DEF Left, Evicted, Entered
  <1>16. t.vvTried = [m.vvTried EXCEPT ![slot] = id]
    BY <1>6, <1>7, <1>9, <1>11 DEF Entered
  <1>17. ASSUME NEW new \in Int, NEW tried \in Int, Counts(m, new, tried)
         PROVE  Counts(t, new, tried)
    <2>1. Counts(l, new - 1, tried)
      BY <1>5, <1>17 DEF Left
    <2>2. Counts(e, new - 1, tried)
      BY <1>8, <2>1 DEF Evicted
    <2>3. Counts(t, (new - 1) + 1, tried)
      BY <1>11, <2>2 DEF Entered
    <2>4. (new - 1) + 1 = new
      OBVIOUS
    <2> QED
      BY <2>3, <2>4
  <1>18. /\ \A s \in NewSlots : l.vvNew[s] = IF m.vvNew[s] = id THEN Nobody ELSE m.vvNew[s]
         /\ l.vvNew \in [NewSlots -> Int] /\ t.vvNew = e.vvNew
    BY <1>5, <1>6, <1>11, Fields DEF Left, Entered
  <1>19. CASE old = Nobody
    <2>1. t.vvNew = l.vvNew
      BY <1>8, <1>15, <1>18, <1>19 DEF Evicted
    <2> QED
      BY <1>1, <1>11, <1>12, <1>13, <1>14, <1>15, <1>16, <1>17, <1>18, <1>19, <2>1 DEF BecameTried, Entered
  <1>20. CASE old # Nobody
    <2>1. old \in DOMAIN m.mapInfo /\ old \in DOMAIN l.mapInfo /\ m.mapInfo[old] \in InfoType
      BY <1>5, <1>6, <1>7, <1>14, <1>20, Fields DEF Core, TriedTable, TriedIds, Left
    <2>2. PICK home : home = Home(m, old)
      OBVIOUS
    <2>3. home = Home(l, old)
      BY <1>5, <2>1, <2>2 DEF Home, Left, SameEntries
    <2>4. home \in NewSlots
      BY <2>1, <2>2, Places DEF Home, InfoType
    <2>5. t.vvNew = [l.vvNew EXCEPT ![home] = old]
      BY <1>8, <1>15, <1>18, <1>20, <2>3 DEF Evicted
    <2>6. t.vvNew[home] = old /\ \A s \in NewSlots : s # home => t.vvNew[s] = l.vvNew[s]
      BY <1>18, <2>4, <2>5
    <2>7. \A s \in NewSlots : s # home => t.vvNew[s] = IF m.vvNew[s] = id THEN Nobody ELSE m.vvNew[s]
      BY <1>18, <2>6
    <2> QED
      BY <1>1, <1>11, <1>12, <1>13, <1>14, <1>15, <1>16, <1>17, <1>20, <2>2, <2>6, <2>7 DEF BecameTried, Entered
  <1> QED
    BY <1>19, <1>20

-----------------------------------------------------------------------------
(* Waiting collisions are of entries of the new table, with a resident of  *)
(* the tried one in their place.                                           *)
Real(m) ==
    \A id \in m.m_tried_collisions \cap DOMAIN m.mapInfo :
        id \notin TriedIds(m) /\ m.vvTried[TriedSlot[m.mapInfo[id].svc]] # Nobody
Below(m, n) == \A id \in DOMAIN m.mapInfo \cup m.m_tried_collisions : id < n

(* What every call leaves *)
Whole(m) ==
    /\ Core(m) /\ Loose(m) = {} /\ Counts(m, 0, 0) /\ Below(m, m.nIdCount) /\ Real(m)

Seen(m, id) == [m EXCEPT !.mapInfo[id].succeeded = TRUE]
IsSeen(m, c, id) ==
    /\ Core(c) /\ SameEntries(m, c) /\ DOMAIN c.mapInfo = DOMAIN m.mapInfo
    /\ TriedIds(c) = TriedIds(m) /\ NewIds(c) = NewIds(m) /\ Loose(c) = Loose(m)
    /\ c.vvTried = m.vvTried /\ c.vvNew = m.vvNew /\ c.nNew = m.nNew /\ c.nTried = m.nTried
    /\ c.mapInfo[id].succeeded

(* That a connection succeeded is noted without any other change. *)
LEMMA SeenIs ==
  ASSUME NEW m, Core(m), NEW id \in DOMAIN m.mapInfo, NEW c, c = Seen(m, id)
  PROVE  IsSeen(m, c, id)
  <1>1. /\ m \in Manager /\ IsFiniteSet(DOMAIN m.mapInfo) /\ m.asserts
        /\ m.mapInfo[id] \in InfoType /\ m.mapInfo \in Partial(Nat, InfoType)
    BY Fields DEF Core
  <1>2. PICK info : info = [m.mapInfo[id] EXCEPT !.succeeded = TRUE]
    OBVIOUS
  <1>3. /\ info \in InfoType /\ info.nRefCount = m.mapInfo[id].nRefCount /\ info.svc = m.mapInfo[id].svc
        /\ info.source = m.mapInfo[id].source /\ info.nRandomPos = m.mapInfo[id].nRandomPos
        /\ info.fInTried = m.mapInfo[id].fInTried /\ info.succeeded
    BY <1>1, <1>2 DEF InfoType
  <1>4. PICK infos : infos = [m.mapInfo EXCEPT ![id] = info]
    OBVIOUS
  <1>5. IsWith(Nat, InfoType, infos, m.mapInfo, id, info)
    BY <1>1, <1>3, <1>4, ExceptIs
  <1>6. c = [m EXCEPT !.mapInfo = infos]
    BY <1>1, <1>2, <1>4 DEF Manager, Seen
  <1>7. /\ c.mapInfo = infos /\ c.vvNew = m.vvNew /\ c.nNew = m.nNew /\ c.asserts = m.asserts /\ c.nTried = m.nTried
        /\ c.vRandom = m.vRandom /\ c.mapAddr = m.mapAddr /\ c.nIdCount = m.nIdCount /\ c.vvTried = m.vvTried
        /\ c.m_tried_collisions = m.m_tried_collisions
    BY <1>1, <1>6 DEF Manager
  <1>8. c \in Manager
    <2>1. infos \in Partial(Nat, InfoType)
      BY <1>5 DEF IsWith
    <2> QED
      BY <1>1, <1>6, <2>1 DEF Manager
  <1>9. Changed(m, c, id, info)
    BY <1>1, <1>3, <1>5, <1>7, <1>8 DEF Changed
  <1>10. /\ RandomIndex(c) /\ HostIndex(c) /\ DOMAIN c.mapInfo = DOMAIN m.mapInfo
         /\ c.mapInfo[id] = info /\ \A x \in DOMAIN m.mapInfo \ {id} : c.mapInfo[x] = m.mapInfo[x]
    <2>1. StillIndexed(m, c, id, info)
      BY <1>9, ChangedIndex DEF Core
    <2> QED
      BY <2>1 DEF StillIndexed
  <1>11. \A x \in DOMAIN m.mapInfo :
            /\ c.mapInfo[x].svc = m.mapInfo[x].svc /\ c.mapInfo[x].source = m.mapInfo[x].source
            /\ c.mapInfo[x].nRefCount = m.mapInfo[x].nRefCount /\ c.mapInfo[x].fInTried = m.mapInfo[x].fInTried
            /\ m.mapInfo[x].succeeded => c.mapInfo[x].succeeded
    BY <1>3, <1>10
  <1>12. TriedIds(c) = TriedIds(m)
    BY <1>10, <1>11 DEF TriedIds
  <1>13. NewIds(c) = NewIds(m) /\ TriedIds(m) \subseteq DOMAIN m.mapInfo /\ NewIds(m) \subseteq DOMAIN m.mapInfo
    BY <1>10, <1>12 DEF NewIds, TriedIds
  <1>14. Loose(c) = Loose(m)
    BY <1>11, <1>13 DEF Loose
  <1>15. TriedTable(c)
    <2>1. /\ \A s \in TriedSlots : m.vvTried[s] # Nobody =>
                m.vvTried[s] \in TriedIds(m) /\ TriedSlot[m.mapInfo[m.vvTried[s]].svc] = s
          /\ \A x \in TriedIds(m) :
                m.mapInfo[x].succeeded /\ m.vvTried[TriedSlot[m.mapInfo[x].svc]] = x
      BY DEF Core, TriedTable
    <2> QED
      BY <1>7, <1>11, <1>12, <1>13, <2>1 DEF TriedTable
  <1>16. NewTable(c)
    <2>1. /\ \A s \in NewSlots : m.vvNew[s] # Nobody =>
                m.vvNew[s] \in NewIds(m) /\ s \in NewSlotsOf(m.mapInfo[m.vvNew[s]].svc)
          /\ \A x \in DOMAIN m.mapInfo :
                /\ IsFiniteSet(Refs(m, x)) /\ m.mapInfo[x].nRefCount = Cardinality(Refs(m, x))
                /\ m.mapInfo[x].nRefCount <= MaxRefs
      BY DEF Core, NewTable
    <2>2. \A x : Refs(c, x) = Refs(m, x)
      BY <1>7 DEF Refs
    <2> QED
      BY <1>7, <1>10, <1>11, <1>13, <2>1, <2>2 DEF NewTable
  <1>17. SameEntries(m, c)
    BY <1>7, <1>10, <1>11 DEF SameEntries
  <1>18. Core(c)
    BY <1>1, <1>7, <1>8, <1>10, <1>15, <1>16 DEF Core
  <1> QED
    BY <1>3, <1>7, <1>10, <1>12, <1>13, <1>14, <1>17, <1>18 DEF IsSeen

Collide(m, id) == [m EXCEPT !.m_tried_collisions = @ \cup {id}]

(* What Good_ does, by the entry it finds *)
GoodDoes(m, g, svc, testBeforeEvict) ==
    LET id == m.mapAddr[Host[svc]]
        resident == m.vvTried[TriedSlot[svc]]
    IN  \/ g = m
        \/ /\ id \in DOMAIN m.mapInfo /\ m.mapInfo[id].svc = svc
           /\ \/ g = Seen(m, id)
              \/ g = Collide(Seen(m, id), id) /\ id \in NewIds(m) /\ resident # Nobody
              \/ /\ g = MakeTried(Seen(m, id), id) /\ id \in NewIds(m)
                 /\ testBeforeEvict => resident = Nobody

(* Good_ in all its cases *)
LEMMA GoodIs ==
  ASSUME NEW m, Core(m), NEW svc \in Services, NEW testBeforeEvict \in BOOLEAN,
         NEW g, g = Good(m, svc, testBeforeEvict)
  PROVE  GoodDoes(m, g, svc, testBeforeEvict)
  <1>1. PICK id : id = m.mapAddr[Host[svc]]
    OBVIOUS
  <1>2. PICK inNew \in BOOLEAN : inNew = \E s \in NewSlotsOf(svc) : m.vvNew[s] = id
    OBVIOUS
  <1>3. PICK full : full = (Cardinality(m.m_tried_collisions) >= MaxCollisions)
    OBVIOUS
  <1>4. g = IF Host[svc] \notin DOMAIN m.mapAddr \/ m.mapInfo[id].svc # svc THEN m
            ELSE IF m.mapInfo[id].fInTried \/ ~inNew THEN Seen(m, id)
            ELSE IF testBeforeEvict /\ m.vvTried[TriedSlot[svc]] # Nobody
            THEN IF full THEN Seen(m, id) ELSE Collide(Seen(m, id), id)
            ELSE MakeTried(Seen(m, id), id)
    BY <1>1, <1>2, <1>3 DEF Good, Seen, Collide
  <1>5. CASE Host[svc] \notin DOMAIN m.mapAddr \/ m.mapInfo[id].svc # svc
    BY <1>4, <1>5 DEF GoodDoes
  <1>6. CASE ~(Host[svc] \notin DOMAIN m.mapAddr \/ m.mapInfo[id].svc # svc)
    <2>1. id \in DOMAIN m.mapInfo /\ m.mapInfo[id].svc = svc
      BY <1>1, <1>6 DEF Core, HostIndex
    <2>2. CASE m.mapInfo[id].fInTried \/ ~inNew
      BY <1>1, <1>4, <1>6, <2>1, <2>2 DEF GoodDoes
    <2>3. CASE ~(m.mapInfo[id].fInTried \/ ~inNew)
      <3>1. id \in NewIds(m)
        BY <2>1, <2>3 DEF NewIds, TriedIds
      <3>2. CASE testBeforeEvict /\ m.vvTried[TriedSlot[svc]] # Nobody
        <4>1. g = Seen(m, id) \/ g = Collide(Seen(m, id), id)
          BY <1>4, <1>6, <2>3, <3>2
        <4> QED
          BY <1>1, <2>1, <3>1, <3>2, <4>1 DEF GoodDoes
      <3>3. CASE ~(testBeforeEvict /\ m.vvTried[TriedSlot[svc]] # Nobody)
        <4>1. g = MakeTried(Seen(m, id), id)
          BY <1>4, <1>6, <2>3, <3>3
        <4> QED
          BY <1>1, <2>1, <3>1, <3>3, <4>1 DEF GoodDoes
      <3> QED
        BY <3>2, <3>3
    <2> QED
      BY <2>2, <2>3
  <1> QED
    BY <1>5, <1>6

(* Noting success keeps everything. *)
LEMMA SeenWhole ==
  ASSUME NEW m, Whole(m), NEW id \in DOMAIN m.mapInfo, NEW c, c = Seen(m, id)
  PROVE  Whole(c) /\ IsSeen(m, c, id)
  <1>1. IsSeen(m, c, id)
    BY SeenIs DEF Whole
  <1>2. Core(c) /\ Loose(c) = {} /\ Counts(c, 0, 0)
    BY <1>1 DEF IsSeen, Whole, Counts
  <1>3. Below(c, c.nIdCount)
    BY <1>1 DEF IsSeen, Whole, Below, SameEntries
  <1>4. Real(c)
    BY <1>1 DEF IsSeen, Whole, Real, SameEntries
  <1> QED
    BY <1>1, <1>2, <1>3, <1>4 DEF Whole

(* A collision of an entry of the new table with a resident of the tried   *)
(* one is kept.                                                            *)
LEMMA CollideWhole ==
  ASSUME NEW m, Whole(m), NEW id \in NewIds(m), m.vvTried[TriedSlot[m.mapInfo[id].svc]] # Nobody,
         NEW c, c = Collide(m, id)
  PROVE  Whole(c) /\ TriedIds(c) = TriedIds(m)
  <1>1. m \in Manager /\ id \in DOMAIN m.mapInfo /\ id \notin TriedIds(m) /\ Core(m) /\ id \in Nat
    BY Fields, Ids DEF Whole, Core, NewIds
  <1>2. /\ c.mapInfo = m.mapInfo /\ c.mapAddr = m.mapAddr /\ c.vRandom = m.vRandom /\ c.nTried = m.nTried
        /\ c.nNew = m.nNew /\ c.vvTried = m.vvTried /\ c.vvNew = m.vvNew /\ c.nIdCount = m.nIdCount
        /\ c.asserts = m.asserts /\ c.m_tried_collisions = m.m_tried_collisions \cup {id}
    BY <1>1 DEF Manager, Collide
  <1>3. c \in Manager
    BY <1>1 DEF Manager, Collide
  <1>4. TriedIds(c) = TriedIds(m)
    BY <1>2 DEF TriedIds
  <1>5. NewIds(c) = NewIds(m)
    BY <1>2, <1>4 DEF NewIds
  <1>6. \A x : Refs(c, x) = Refs(m, x)
    BY <1>2 DEF Refs
  <1>7. RandomIndex(c) /\ HostIndex(c)
    BY <1>1, <1>2 DEF Core, RandomIndex, HostIndex
  <1>8. NewTable(c)
    BY <1>1, <1>2, <1>5, <1>6 DEF Core, NewTable
  <1>9. TriedTable(c)
    BY <1>1, <1>2, <1>4 DEF Core, TriedTable
  <1>10. Core(c)
    BY <1>1, <1>2, <1>3, <1>7, <1>8, <1>9 DEF Core
  <1>11. Loose(c) = {} /\ Counts(c, 0, 0)
    BY <1>2, <1>4, <1>5 DEF Whole, Loose, Counts
  <1>12. Below(c, c.nIdCount)
    BY <1>1, <1>2 DEF Whole, Below
  <1>13. Real(c)
    BY <1>1, <1>2, <1>4 DEF Whole, Real
  <1> QED
    BY <1>4, <1>10, <1>11, <1>12, <1>13 DEF Whole

(* All collisions but that of id are real. *)
RealBut(m, id) ==
    \A x \in (m.m_tried_collisions \cap DOMAIN m.mapInfo) \ {id} :
        x \notin TriedIds(m) /\ m.vvTried[TriedSlot[m.mapInfo[x].svc]] # Nobody

(* A move to the tried table keeps everything but the entry's own          *)
(* collision.                                                              *)
LEMMA BecameWhole ==
  ASSUME NEW m, Whole(m), NEW id \in NewIds(m), NEW t, BecameTried(m, t, id)
  PROVE  Core(t) /\ Loose(t) = {} /\ Counts(t, 0, 0) /\ Below(t, t.nIdCount) /\ RealBut(t, id)
  <1>1. PICK slot : slot = TriedSlot[m.mapInfo[id].svc]
    OBVIOUS
  <1>2. PICK old : old = m.vvTried[slot]
    OBVIOUS
  <1>3. /\ Core(t) /\ SameEntries(m, t) /\ Loose(t) = Loose(m) \ {id}
        /\ TriedIds(t) = (TriedIds(m) \ {old}) \cup {id}
        /\ t.vvTried = [m.vvTried EXCEPT ![slot] = id]
        /\ \A new, tried \in Int : Counts(m, new, tried) => Counts(t, new, tried)
    BY <1>1, <1>2 DEF BecameTried
  <1>4. m \in Manager /\ m.vvTried \in [TriedSlots -> Int] /\ id \in DOMAIN m.mapInfo /\ id # Nobody
    BY Fields, Ids DEF Whole, Core
  <1>5. Loose(t) = {} /\ Counts(t, 0, 0)
    BY <1>3 DEF Whole
  <1>6. Below(t, t.nIdCount)
    BY <1>3 DEF Whole, Below, SameEntries
  <1>7. ASSUME NEW x \in t.m_tried_collisions \cap DOMAIN t.mapInfo, x # id
        PROVE  x \notin TriedIds(t) /\ t.vvTried[TriedSlot[t.mapInfo[x].svc]] # Nobody
    <2>1. /\ x \in m.m_tried_collisions \cap DOMAIN m.mapInfo
          /\ t.mapInfo[x].svc = m.mapInfo[x].svc /\ m.mapInfo[x].svc \in Services
      BY <1>3, <1>4, Fields DEF SameEntries, InfoType
    <2>2. x \notin TriedIds(m) /\ m.vvTried[TriedSlot[m.mapInfo[x].svc]] # Nobody
      BY <2>1 DEF Whole, Real
    <2>3. TriedSlot[m.mapInfo[x].svc] \in TriedSlots
      BY <2>1, Places
    <2> QED
      BY <1>3, <1>4, <1>7, <2>1, <2>2, <2>3
  <1> QED
    BY <1>3, <1>5, <1>6, <1>7 DEF RealBut

(* A successful connection keeps everything, and evicts nobody. *)
LEMMA GoodWhole ==
  ASSUME NEW m, Whole(m), NEW svc \in Services, NEW g, g = Good(m, svc, TRUE)
  PROVE  Whole(g) /\ TriedIds(m) \subseteq TriedIds(g)
  <1>1. PICK id : id = m.mapAddr[Host[svc]]
    OBVIOUS
  <1>2. GoodDoes(m, g, svc, TRUE)
    BY GoodIs DEF Whole
  <1>3. CASE g = m
    BY <1>3
  <1>4. CASE id \in DOMAIN m.mapInfo /\ m.mapInfo[id].svc = svc /\ g = Seen(m, id)
    <2>1. Whole(g) /\ IsSeen(m, g, id)
      BY <1>4, SeenWhole
    <2> QED
      BY <2>1 DEF IsSeen
  <1>5. CASE /\ id \in DOMAIN m.mapInfo /\ m.mapInfo[id].svc = svc /\ id \in NewIds(m)
             /\ g = Collide(Seen(m, id), id) /\ m.vvTried[TriedSlot[svc]] # Nobody
    <2>1. PICK c : c = Seen(m, id)
      OBVIOUS
    <2>2. Whole(c) /\ IsSeen(m, c, id)
      BY <1>5, <2>1, SeenWhole
    <2>3. id \in NewIds(c) /\ c.vvTried[TriedSlot[c.mapInfo[id].svc]] # Nobody /\ TriedIds(c) = TriedIds(m)
      BY <1>5, <2>2 DEF IsSeen, SameEntries
    <2>4. Whole(g) /\ TriedIds(g) = TriedIds(c)
      BY <1>5, <2>1, <2>2, <2>3, CollideWhole
    <2> QED
      BY <2>3, <2>4
  <1>6. CASE /\ id \in DOMAIN m.mapInfo /\ m.mapInfo[id].svc = svc /\ id \in NewIds(m)
             /\ g = MakeTried(Seen(m, id), id) /\ m.vvTried[TriedSlot[svc]] = Nobody
    <2>1. PICK c : c = Seen(m, id)
      OBVIOUS
    <2>2. Whole(c) /\ IsSeen(m, c, id)
      BY <1>6, <2>1, SeenWhole
    <2>3. /\ id \in NewIds(c) /\ id \in DOMAIN c.mapInfo /\ c.mapInfo[id].svc = svc
          /\ c.vvTried[TriedSlot[c.mapInfo[id].svc]] = Nobody
          /\ TriedIds(c) = TriedIds(m) /\ c.mapInfo[id].succeeded /\ Core(c)
      BY <1>6, <2>2 DEF IsSeen, SameEntries
    <2>4. BecameTried(c, g, id)
      BY <1>6, <2>1, <2>3, MakeTriedIs
    <2>5. Core(g) /\ Loose(g) = {} /\ Counts(g, 0, 0) /\ Below(g, g.nIdCount) /\ RealBut(g, id)
      BY <2>2, <2>3, <2>4, BecameWhole
    <2>6. id \notin g.m_tried_collisions
      BY <2>2, <2>3, <2>4 DEF Whole, Real, BecameTried, SameEntries
    <2>7. Real(g)
      BY <2>5, <2>6 DEF Real, RealBut
    <2>8. TriedIds(g) = (TriedIds(m) \ {Nobody}) \cup {id} /\ Nobody \notin TriedIds(m)
      <3>1. Nobody \notin TriedIds(m)
        BY Ids DEF Whole, Core
      <3> QED
        BY <2>3, <2>4, <3>1 DEF BecameTried
    <2> QED
      BY <2>5, <2>7, <2>8 DEF Whole
  <1> QED
    BY <1>1, <1>2, <1>3, <1>4, <1>5, <1>6 DEF GoodDoes

-----------------------------------------------------------------------------
(* A new entry at the end of vRandom *)
Append1(m, id, info) ==
    [m EXCEPT !.mapInfo = With(@, id, info), !.mapAddr = With(@, Host[info.svc], id), !.vRandom = Append(@, id)]
Appended(m, c, id, info) ==
    /\ Core(c) /\ IsWith(Nat, InfoType, c.mapInfo, m.mapInfo, id, info)
    /\ DOMAIN c.mapAddr = DOMAIN m.mapAddr \cup {Host[info.svc]}
    /\ NewIds(c) = NewIds(m) \cup {id} /\ TriedIds(c) = TriedIds(m) /\ Loose(c) = Loose(m) \cup {id}
    /\ c.vvNew = m.vvNew /\ c.vvTried = m.vvTried /\ c.nNew = m.nNew /\ c.nTried = m.nTried
    /\ c.nIdCount = m.nIdCount /\ c.m_tried_collisions = m.m_tried_collisions
    /\ Len(c.vRandom) = Len(m.vRandom) + 1

(* An entry for a host that has none comes without positions. *)
LEMMA AppendedIs ==
  ASSUME NEW m, Core(m), NEW id \in Nat \ DOMAIN m.mapInfo, NEW info \in InfoType, info.nRefCount = 0,
         ~info.fInTried, info.nRandomPos = Len(m.vRandom) + 1, Host[info.svc] \notin DOMAIN m.mapAddr,
         NEW c, c = Append1(m, id, info)
  PROVE  Appended(m, c, id, info)
  <1>1. /\ m \in Manager /\ IsFiniteSet(DOMAIN m.mapInfo) /\ m.asserts /\ m.vRandom \in Seq(Nat)
        /\ m.mapInfo \in Partial(Nat, InfoType) /\ m.mapAddr \in Partial(Hosts, Nat)
    BY Fields DEF Core
  <1>2. PICK host : host = Host[info.svc]
    OBVIOUS
  <1>3. host \in Hosts /\ host \notin DOMAIN m.mapAddr
    BY <1>2, Places DEF InfoType
  <1>4. PICK infos : infos = With(m.mapInfo, id, info)
    OBVIOUS
  <1>5. PICK addrs : addrs = With(m.mapAddr, host, id)
    OBVIOUS
  <1>6. PICK rnd : rnd = Append(m.vRandom, id)
    OBVIOUS
  <1>7. IsWith(Nat, InfoType, infos, m.mapInfo, id, info)
    BY <1>1, <1>4, WithIs
  <1>8. IsWith(Hosts, Nat, addrs, m.mapAddr, host, id)
    BY <1>1, <1>3, <1>5, WithIs
  <1>9. /\ rnd \in Seq(Nat) /\ Len(rnd) = Len(m.vRandom) + 1 /\ rnd[Len(m.vRandom) + 1] = id
        /\ \A p \in 1 .. Len(m.vRandom) : rnd[p] = m.vRandom[p]
    BY <1>1, <1>6
  <1>10. c = [m EXCEPT !.mapInfo = infos, !.mapAddr = addrs, !.vRandom = rnd]
    BY <1>1, <1>2, <1>4, <1>5, <1>6 DEF Manager, Append1
  <1>11. /\ c.mapInfo = infos /\ c.mapAddr = addrs /\ c.vRandom = rnd /\ c.vvNew = m.vvNew /\ c.nNew = m.nNew
         /\ c.asserts = m.asserts /\ c.nTried = m.nTried /\ c.nIdCount = m.nIdCount /\ c.vvTried = m.vvTried
         /\ c.m_tried_collisions = m.m_tried_collisions
    BY <1>1, <1>10 DEF Manager
  <1>12. c \in Manager
    <2>1. infos \in Partial(Nat, InfoType) /\ addrs \in Partial(Hosts, Nat) /\ rnd \in Seq(Nat)
      BY <1>7, <1>8, <1>9 DEF IsWith
    <2> QED
      BY <1>1, <1>10, <2>1 DEF Manager
  <1>13. /\ DOMAIN infos = DOMAIN m.mapInfo \cup {id} /\ infos[id] = info
         /\ \A x \in DOMAIN m.mapInfo : infos[x] = m.mapInfo[x] /\ x # id
    BY <1>7 DEF IsWith
  <1>14. RandomIndex(c)
    <2>1. ASSUME NEW x \in DOMAIN infos
          PROVE  infos[x].nRandomPos \in 1 .. Len(rnd) /\ rnd[infos[x].nRandomPos] = x
      <3>1. CASE x = id
        BY <3>1, <1>1, <1>9, <1>13
      <3>2. CASE x # id
        <4>1. x \in DOMAIN m.mapInfo /\ infos[x] = m.mapInfo[x]
          BY <3>2, <1>13
        <4>2. m.mapInfo[x].nRandomPos \in 1 .. Len(m.vRandom) /\ m.vRandom[m.mapInfo[x].nRandomPos] = x
          BY <4>1 DEF Core, RandomIndex
        <4>3. PICK pos : pos = m.mapInfo[x].nRandomPos
          OBVIOUS
        <4>4. pos \in 1 .. Len(m.vRandom) /\ rnd[pos] = x /\ pos \in 1 .. Len(rnd)
          <5>1. pos \in 1 .. Len(m.vRandom) /\ m.vRandom[pos] = x
            BY <4>2, <4>3
          <5>2. rnd[pos] = m.vRandom[pos]
            BY <5>1, <1>9
          <5>3. Len(m.vRandom) \in Nat /\ Len(rnd) = Len(m.vRandom) + 1
            BY <1>1, <1>9
          <5> QED
            BY <5>1, <5>2, <5>3
        <4> QED
          BY <4>1, <4>3, <4>4
      <3> QED
        BY <3>1, <3>2
    <2>2. ASSUME NEW p \in 1 .. Len(rnd)
          PROVE  rnd[p] \in DOMAIN infos /\ infos[rnd[p]].nRandomPos = p
      <3>1. CASE p = Len(m.vRandom) + 1
        BY <3>1, <1>1, <1>9, <1>13
      <3>2. CASE p # Len(m.vRandom) + 1
        <4>1. p \in 1 .. Len(m.vRandom)
          BY <3>2, <1>1, <1>9
        <4>2. m.vRandom[p] \in DOMAIN m.mapInfo /\ m.mapInfo[m.vRandom[p]].nRandomPos = p
          BY <4>1 DEF Core, RandomIndex
        <4> QED
          BY <4>1, <4>2, <1>9, <1>13
      <3> QED
        BY <3>1, <3>2
    <2> QED
      BY <1>11, <2>1, <2>2 DEF RandomIndex
  <1>15. HostIndex(c)
    <2>1. /\ DOMAIN addrs = DOMAIN m.mapAddr \cup {host} /\ addrs[host] = id
          /\ \A h \in DOMAIN m.mapAddr : addrs[h] = m.mapAddr[h] /\ h # host
      BY <1>3, <1>8 DEF IsWith
    <2>2. /\ \A x \in DOMAIN m.mapInfo :
                Host[m.mapInfo[x].svc] \in DOMAIN m.mapAddr /\ m.mapAddr[Host[m.mapInfo[x].svc]] = x
          /\ \A h \in DOMAIN m.mapAddr :
                m.mapAddr[h] \in DOMAIN m.mapInfo /\ Host[m.mapInfo[m.mapAddr[h]].svc] = h
      BY DEF Core, HostIndex
    <2>3. \A x \in DOMAIN infos : Host[infos[x].svc] \in DOMAIN addrs /\ addrs[Host[infos[x].svc]] = x
      BY <1>2, <1>13, <2>1, <2>2
    <2>4. \A h \in DOMAIN addrs : addrs[h] \in DOMAIN infos /\ Host[infos[addrs[h]].svc] = h
      BY <1>2, <1>13, <2>1, <2>2
    <2> QED
      BY <1>11, <2>3, <2>4 DEF HostIndex
  <1>16. TriedIds(c) = TriedIds(m)
    BY <1>11, <1>13 DEF TriedIds
  <1>17. NewIds(c) = NewIds(m) \cup {id} /\ id \notin NewIds(m)
    BY <1>11, <1>13, <1>16 DEF NewIds, TriedIds
  <1>18. TriedIds(m) \subseteq DOMAIN m.mapInfo /\ NewIds(m) \subseteq DOMAIN m.mapInfo
    BY DEF NewIds, TriedIds
  <1>19. TriedTable(c)
    <2>1. /\ \A s \in TriedSlots : m.vvTried[s] # Nobody =>
                m.vvTried[s] \in TriedIds(m) /\ TriedSlot[m.mapInfo[m.vvTried[s]].svc] = s
          /\ \A x \in TriedIds(m) :
                m.mapInfo[x].succeeded /\ m.vvTried[TriedSlot[m.mapInfo[x].svc]] = x
      BY DEF Core, TriedTable
    <2>2. \A x \in TriedIds(m) : c.mapInfo[x] = m.mapInfo[x]
      BY <1>11, <1>13, <1>18
    <2> QED
      BY <1>11, <1>16, <2>1, <2>2 DEF TriedTable
  <1>20. NewTable(c)
    <2>1. /\ \A s \in NewSlots : m.vvNew[s] # Nobody =>
                m.vvNew[s] \in NewIds(m) /\ s \in NewSlotsOf(m.mapInfo[m.vvNew[s]].svc)
          /\ \A x \in DOMAIN m.mapInfo :
                /\ IsFiniteSet(Refs(m, x)) /\ m.mapInfo[x].nRefCount = Cardinality(Refs(m, x))
                /\ m.mapInfo[x].nRefCount <= MaxRefs
      BY DEF Core, NewTable
    <2>2. \A x : Refs(c, x) = Refs(m, x)
      BY <1>11 DEF Refs
    <2>3. \A s \in NewSlots : c.vvNew[s] # Nobody =>
                c.vvNew[s] \in NewIds(c) /\ s \in NewSlotsOf(c.mapInfo[c.vvNew[s]].svc)
      BY <1>11, <1>13, <1>17, <1>18, <2>1
    <2>4. ASSUME NEW x \in DOMAIN c.mapInfo
          PROVE  /\ IsFiniteSet(Refs(c, x)) /\ c.mapInfo[x].nRefCount = Cardinality(Refs(c, x))
                 /\ c.mapInfo[x].nRefCount <= MaxRefs
      <3>1. CASE x = id
        <4>1. id # Nobody /\ \A s \in NewSlots : m.vvNew[s] # id
          BY <1>18, <2>1 DEF Nobody
        <4>2. Refs(m, id) = {}
          BY <4>1 DEF Refs
        <4>3. Refs(c, x) = {} /\ c.mapInfo[x].nRefCount = 0
          BY <3>1, <4>2, <2>2, <1>11, <1>13
        <4>4. IsFiniteSet(Refs(c, x)) /\ Cardinality(Refs(c, x)) = 0
          BY <4>3, FS_EmptySet
        <4> QED
          BY <4>3, <4>4, LimitAssumption
      <3>2. CASE x # id
        BY <3>2, <2>1, <2>2, <1>11, <1>13
      <3> QED
        BY <3>1, <3>2
    <2> QED
      BY <2>3, <2>4 DEF NewTable
  <1>21. Loose(c) = Loose(m) \cup {id}
    BY <1>11, <1>13, <1>17, <1>18 DEF Loose
  <1>22. IsFiniteSet(DOMAIN c.mapInfo)
    BY <1>1, <1>11, <1>13, FS_AddElement
  <1>23. Core(c)
    BY <1>1, <1>11, <1>12, <1>14, <1>15, <1>19, <1>20, <1>22 DEF Core
  <1>24. DOMAIN c.mapAddr = DOMAIN m.mapAddr \cup {Host[info.svc]}
    BY <1>2, <1>8, <1>11 DEF IsWith
  <1> QED
    BY <1>7, <1>9, <1>11, <1>16, <1>17, <1>21, <1>23, <1>24 DEF Appended

SetCounters(m, new, tried, ids) == [m EXCEPT !.nNew = new, !.nTried = tried, !.nIdCount = ids]
SameTables(m, c) ==
    /\ Core(c) /\ c.mapInfo = m.mapInfo /\ c.mapAddr = m.mapAddr /\ c.vRandom = m.vRandom
    /\ c.vvTried = m.vvTried /\ c.vvNew = m.vvNew /\ c.m_tried_collisions = m.m_tried_collisions
    /\ NewIds(c) = NewIds(m) /\ TriedIds(c) = TriedIds(m) /\ Loose(c) = Loose(m)

(* The tables do not depend on the counters. *)
LEMMA CountersSet ==
  ASSUME NEW m, Core(m), NEW new \in Int, NEW tried \in Int, NEW ids \in Nat,
         NEW c, c = SetCounters(m, new, tried, ids)
  PROVE  SameTables(m, c) /\ c.nNew = new /\ c.nTried = tried /\ c.nIdCount = ids
  <1>1. m \in Manager
    BY DEF Core
  <1>2. /\ c.mapInfo = m.mapInfo /\ c.mapAddr = m.mapAddr /\ c.vRandom = m.vRandom
        /\ c.vvTried = m.vvTried /\ c.vvNew = m.vvNew /\ c.asserts = m.asserts
        /\ c.m_tried_collisions = m.m_tried_collisions
        /\ c.nNew = new /\ c.nTried = tried /\ c.nIdCount = ids
    BY <1>1 DEF Manager, SetCounters
  <1>3. c \in Manager
    BY <1>1 DEF Manager, SetCounters
  <1>4. TriedIds(c) = TriedIds(m)
    BY <1>2 DEF TriedIds
  <1>5. NewIds(c) = NewIds(m)
    BY <1>2, <1>4 DEF NewIds
  <1>6. Loose(c) = Loose(m)
    BY <1>2, <1>5 DEF Loose
  <1>7. \A x : Refs(c, x) = Refs(m, x)
    BY <1>2 DEF Refs
  <1>8. RandomIndex(c) /\ HostIndex(c)
    BY <1>2 DEF Core, RandomIndex, HostIndex
  <1>9. NewTable(c)
    BY <1>2, <1>5, <1>7 DEF Core, NewTable
  <1>10. TriedTable(c)
    BY <1>2, <1>4 DEF Core, TriedTable
  <1> QED
    BY <1>2, <1>3, <1>4, <1>5, <1>6, <1>8, <1>9, <1>10 DEF Core, SameTables

-----------------------------------------------------------------------------
Referenced(m, a) ==
    /\ Core(a) /\ SameEntries(m, a) /\ Loose(a) = {} /\ Counts(a, 0, 0)
    /\ TriedIds(a) = TriedIds(m) /\ a.vvTried = m.vvTried

(* Add_ gives an entry a reference or, if it has none, deletes it. *)
LEMMA AddReferenceIs ==
  ASSUME NEW m, Core(m), NEW id \in NewIds(m), NEW src \in Sources, NEW terrible \in BOOLEAN,
         m.mapInfo[id].nRefCount # MaxRefs, Loose(m) \subseteq {id}, Counts(m, 0, 0),
         NEW a, a = AddReference(m, id, src, terrible)
  PROVE  Referenced(m, a)
  <1>1. PICK info : info = m.mapInfo[id]
    OBVIOUS
  <1>2. PICK slot : slot = SlotFor(info.svc, src)
    OBVIOUS
  <1>3. PICK there : there = m.vvNew[slot]
    OBVIOUS
  <1>4. PICK insert \in BOOLEAN :
           a = IF there = id THEN m
               ELSE IF insert
               THEN [ClearNew(m, slot) EXCEPT !.mapInfo[id].nRefCount = @ + 1, !.vvNew[slot] = id]
               ELSE IF info.nRefCount = 0 THEN Delete(m, id) ELSE m
    <2>1. PICK insert \in BOOLEAN : insert = (\/ there = Nobody
                                              \/ terrible
                                              \/ m.mapInfo[there].nRefCount > 1 /\ info.nRefCount = 0)
      OBVIOUS
    <2>2. WITNESS insert \in BOOLEAN
    <2> QED
      BY <1>1, <1>2, <1>3, <2>1 DEF AddReference
  <1>5. /\ m \in Manager /\ id \in DOMAIN m.mapInfo /\ info \in InfoType /\ id # Nobody
        /\ m.vvNew \in [NewSlots -> Int]
    BY <1>1, Fields, Ids DEF Core
  <1>6. slot \in NewSlots /\ slot \in NewSlotsOf(info.svc)
    BY <1>2, <1>5, Places DEF InfoType
  <1>7. info.nRefCount \in Nat /\ MaxRefs \in Nat /\ info.nRefCount < MaxRefs
    <2>1. info.nRefCount <= MaxRefs
      BY <1>1, <1>5 DEF Core, NewTable
    <2> QED
      BY <1>1, <1>5, <2>1, LimitAssumption DEF InfoType
  <1>8. CASE a = m /\ info.nRefCount # 0
    <2>1. Loose(m) = {}
      BY <1>1, <1>8 DEF Loose
    <2> QED
      BY <1>8, <2>1 DEF Referenced, SameEntries
  <1>9. CASE there = id
    <2>1. m.mapInfo[id].nRefCount = 0 <=> \A s \in NewSlots : m.vvNew[s] # id
      BY <1>5, Unreferenced
    <2>2. info.nRefCount # 0
      BY <1>1, <1>3, <1>6, <1>9, <2>1
    <2> QED
      BY <1>4, <1>8, <1>9, <2>2
  <1>10. CASE there # id /\ insert
    <2>1. PICK c : c = ClearNew(m, slot)
      OBVIOUS
    <2>2. NewCleared(m, c, slot)
      BY <1>6, <2>1, ClearNewIs
    <2>3. /\ Core(c) /\ id \in DOMAIN c.mapInfo /\ c.mapInfo[id].nRefCount = info.nRefCount
          /\ c.mapInfo[id].svc = info.svc /\ TriedIds(c) = TriedIds(m) /\ Loose(c) = Loose(m)
          /\ c.vvNew = [m.vvNew EXCEPT ![slot] = Nobody] /\ c.vvTried = m.vvTried
      BY <1>1, <1>3, <1>5, <1>10, <2>2 DEF NewCleared
    <2>4. id \in NewIds(c) /\ c.vvNew[slot] = Nobody /\ c \in Manager /\ c.nNew \in Int /\ c.asserts
      <3>1. c \in Manager /\ c.asserts
        BY <2>3 DEF Core
      <3>2. id \in NewIds(c)
        BY <2>3 DEF NewIds
      <3>3. c.vvNew[slot] = Nobody
        BY <1>5, <1>6, <2>3
      <3> QED
        BY <3>1, <3>2, <3>3, Fields
    <2>5. a = Place(c, id, slot, c.nNew)
      <3>1. a = [c EXCEPT !.mapInfo[id].nRefCount = @ + 1, !.vvNew[slot] = id]
        BY <1>4, <1>10, <2>1
      <3>2. c.asserts = TRUE
        BY <2>4, Fields
      <3> QED
        BY <2>4, <3>1, <3>2 DEF Manager, Place
    <2>6. Placed(c, a, id, slot, c.nNew)
      BY <1>6, <1>7, <2>3, <2>4, <2>5, PlacedIs
    <2>7. Loose(a) = {}
      BY <2>3, <2>6 DEF Placed
    <2>8. Counts(a, 0, 0)
      <3>1. Counts(c, 0, 0)
        BY <2>2 DEF NewCleared
      <3> QED
        BY <3>1, <2>6 DEF Counts, Placed
    <2>9. SameEntries(m, a)
      BY <2>2, <2>6 DEF NewCleared, Placed, SameEntries
    <2> QED
      BY <2>3, <2>6, <2>7, <2>8, <2>9 DEF Placed, Referenced
  <1>11. CASE there # id /\ ~insert /\ info.nRefCount = 0
    <2>1. a = Delete(m, id) /\ id \in Loose(m)
      BY <1>1, <1>4, <1>11 DEF Loose
    <2>2. Deleted(m, a, id)
      BY <2>1, DeleteIs
    <2>3. /\ Core(a) /\ TriedIds(a) = TriedIds(m) /\ Loose(a) = Loose(m) \ {id}
          /\ \A new, tried \in Int : Counts(m, new, tried) => Counts(a, new, tried)
      BY <2>1, DeleteKeeps
    <2>4. SameEntries(m, a) /\ a.vvTried = m.vvTried
      BY <2>2 DEF Deleted, SameEntries, Kept
    <2> QED
      BY <2>3, <2>4 DEF Referenced
  <1>12. CASE there # id /\ ~insert /\ info.nRefCount # 0
    BY <1>4, <1>8, <1>12
  <1> QED
    BY <1>9, <1>10, <1>11, <1>12

(* A reference more leaves everything in order. *)
LEMMA ReferencedWhole ==
  ASSUME NEW m, NEW a, Referenced(m, a), Below(m, m.nIdCount), Real(m)
  PROVE  Whole(a)
  <1>1. Below(a, a.nIdCount)
    BY DEF Referenced, SameEntries, Below
  <1>2. Real(a)
    BY DEF Referenced, SameEntries, Real
  <1> QED
    BY <1>1, <1>2 DEF Referenced, Whole

(* An address heard of *)
LEMMA AddStep ==
  ASSUME Whole(am), NEW svc \in Services, NEW src \in Sources, Add(svc, src)
  PROVE  Whole(am') /\ TriedIds(am') = TriedIds(am)
  <1>1. PICK terrible \in BOOLEAN :
          IF Host[svc] \in DOMAIN am.mapAddr
          THEN LET id == am.mapAddr[Host[svc]]
               IN  /\ MayAddReference(am.mapInfo[id])
                   /\ am' = AddReference(am, id, src, terrible)
          ELSE /\ am.nIdCount < MaxIds
               /\ am' = AddReference([Create(am, svc, src) EXCEPT !.nNew = @ + 1],
                                     am.nIdCount, src, terrible)
    BY DEF Add
  <1>2. Core(am) /\ am \in Manager /\ Loose(am) = {} /\ Counts(am, 0, 0) /\ Below(am, am.nIdCount) /\ Real(am)
    BY DEF Whole, Core
  <1>3. CASE Host[svc] \in DOMAIN am.mapAddr
    <2>1. PICK id : id = am.mapAddr[Host[svc]]
      OBVIOUS
    <2>2. MayAddReference(am.mapInfo[id]) /\ am' = AddReference(am, id, src, terrible)
      BY <1>1, <1>3, <2>1
    <2>3. id \in DOMAIN am.mapInfo
      BY <1>2, <1>3, <2>1 DEF Core, HostIndex
    <2>4. id \in NewIds(am) /\ am.mapInfo[id].nRefCount # MaxRefs
      BY <2>2, <2>3 DEF MayAddReference, NewIds, TriedIds
    <2>5. Referenced(am, am')
      BY <1>2, <2>2, <2>4, AddReferenceIs
    <2> QED
      BY <1>2, <2>5, ReferencedWhole DEF Referenced
  <1>4. CASE Host[svc] \notin DOMAIN am.mapAddr
    <2>1. PICK id : id = am.nIdCount
      OBVIOUS
    <2>2. PICK info : info = Info(svc, src, Len(am.vRandom) + 1)
      OBVIOUS
    <2>3. PICK k : k = Append1(am, id, info)
      OBVIOUS
    <2>4. PICK c : c = SetCounters(k, am.nNew + 1, am.nTried, id + 1)
      OBVIOUS
    <2>5. /\ am.nNew \in Int /\ am.nTried \in Int /\ id \in Nat /\ am.vRandom \in Seq(Nat)
          /\ am.m_tried_collisions \in SUBSET Nat /\ DOMAIN am.mapInfo \subseteq Nat
      BY <1>2, <2>1, Fields
    <2>6. id \notin DOMAIN am.mapInfo
      BY <1>2, <2>1, <2>5 DEF Below
    <2>7. /\ info \in InfoType /\ info.nRefCount = 0 /\ ~info.fInTried /\ info.nRandomPos = Len(am.vRandom) + 1
          /\ info.svc = svc
      BY <2>2, <2>5 DEF Info, InfoType
    <2>8. Appended(am, k, id, info)
      <3>1. Host[info.svc] \notin DOMAIN am.mapAddr
        BY <1>4, <2>7
      <3> QED
        BY <1>2, <2>3, <2>5, <2>6, <2>7, <3>1, AppendedIs
    <2>9. Core(k) /\ k.nNew = am.nNew /\ k.nTried = am.nTried /\ k.nIdCount = id
      BY <2>1, <2>8 DEF Appended
    <2>10. SameTables(k, c) /\ c.nNew = am.nNew + 1 /\ c.nTried = am.nTried /\ c.nIdCount = id + 1
      BY <2>4, <2>5, <2>9, CountersSet
    <2>11. [Create(am, svc, src) EXCEPT !.nNew = @ + 1] = c
      <3>1. k \in Manager
        BY <2>9 DEF Core
      <3>2. c = [[am EXCEPT !.mapInfo = With(@, id, info), !.mapAddr = With(@, Host[svc], id),
                            !.vRandom = Append(@, id)]
                 EXCEPT !.nNew = am.nNew + 1, !.nTried = am.nTried, !.nIdCount = id + 1]
        BY <2>3, <2>4, <2>7 DEF SetCounters, Append1
      <3>3. Create(am, svc, src) = [am EXCEPT !.mapInfo = With(@, id, info), !.mapAddr = With(@, Host[svc], id),
                                              !.vRandom = Append(@, id), !.nIdCount = @ + 1]
        BY <2>1, <2>2 DEF Create
      <3> QED
        BY <1>2, <2>1, <3>2, <3>3 DEF Manager
    <2>12. am' = AddReference(c, id, src, terrible)
      BY <1>1, <1>4, <2>1, <2>11
    <2>13. NewIds(c) = NewIds(am) \cup {id} /\ TriedIds(c) = TriedIds(am) /\ Loose(c) = {id}
      BY <1>2, <2>8, <2>10 DEF Appended, SameTables
    <2>14. Counts(c, 0, 0)
      <3>1. IsFiniteSet(NewIds(am)) /\ id \notin NewIds(am)
        BY <1>2, <2>6, Ids DEF Core
      <3>2. Cardinality(NewIds(am) \cup {id}) = Cardinality(NewIds(am)) + 1
        BY <3>1, FS_AddElement
      <3>3. Cardinality(NewIds(am)) \in Nat
        BY <3>1, FS_CardinalityType
      <3>4. Cardinality(NewIds(c)) = Cardinality(NewIds(am)) + 1 /\ Cardinality(TriedIds(c)) = Cardinality(TriedIds(am))
        BY <2>13, <3>2
      <3> QED
        BY <1>2, <2>10, <3>3, <3>4 DEF Counts
    <2>15. /\ DOMAIN c.mapInfo = DOMAIN am.mapInfo \cup {id} /\ c.mapInfo[id] = info
           /\ \A x \in DOMAIN am.mapInfo : c.mapInfo[x] = am.mapInfo[x]
           /\ c.vvTried = am.vvTried /\ c.m_tried_collisions = am.m_tried_collisions
      BY <2>6, <2>8, <2>10 DEF Appended, SameTables, IsWith
    <2>16. Referenced(c, am')
      <3>1. Core(c) /\ id \in NewIds(c) /\ c.mapInfo[id].nRefCount # MaxRefs
        BY <2>7, <2>10, <2>13, <2>15, LimitAssumption DEF SameTables
      <3> QED
        BY <2>12, <2>13, <2>14, <3>1, AddReferenceIs
    <2>17. Below(c, c.nIdCount)
      BY <1>2, <2>1, <2>5, <2>10, <2>15 DEF Below
    <2>18. Real(c)
      <3>1. id \notin am.m_tried_collisions
        BY <1>2, <2>1, <2>5 DEF Below
      <3> QED
        BY <1>2, <2>13, <2>15, <3>1 DEF Real
    <2> QED
      BY <2>13, <2>16, <2>17, <2>18, ReferencedWhole DEF Referenced
  <1> QED
    BY <1>3, <1>4

-----------------------------------------------------------------------------
(* A set of naturals that is not empty has a least element. *)
LEMMA LeastNat ==
  ASSUME NEW T \in SUBSET Nat, T # {}
  PROVE  \E x \in T : \A y \in T : x <= y
  <1> DEFINE R == OpToRel(<, Nat)
  <1>1. IsWellFoundedOn(R, Nat)
    BY NatLessThanWellFounded
  <1>2. \A x, y \in Nat : <<y, x>> \in R <=> y < x
    BY DEF OpToRel
  <1> HIDE DEF R
  <1>3. PICK x \in T : \A y \in T : ~ (<<y, x>> \in R)
    BY <1>1, WFMin
  <1>4. \A y \in T : ~(y < x)
    BY <1>2, <1>3
  <1> QED
    BY <1>4

(* Induction over the rounds of a loop, with the rounds after which the    *)
(* invariant holds as a set                                                *)
LEMMA UpTo ==
  ASSUME NEW n \in Nat, NEW T, 0 \in T, \A i \in 1 .. n : i - 1 \in T => i \in T
  PROVE  \A i \in 0 .. n : i \in T
  <1> SUFFICES ASSUME NEW j \in 0 .. n, j \notin T
               PROVE  FALSE
    OBVIOUS
  <1> DEFINE B == {i \in 0 .. n : i \notin T}
  <1>1. B \in SUBSET Nat /\ B # {}
    OBVIOUS
  <1>2. PICK x \in B : \A y \in B : x <= y
    <2> HIDE DEF B
    <2> QED
      BY <1>1, LeastNat
  <1>3. x \in 1 .. n /\ x - 1 \notin B
    BY <1>2
  <1> QED
    BY <1>2, <1>3

(* The rounds of the loops, and the managers g[0], ..., g[n] that the      *)
(* rounds lead through                                                     *)
ResolveStep(verdict, m, i) == IF i - 1 \in am.m_tried_collisions THEN ResolveCollision(m, i - 1, verdict[i - 1]) ELSE m
ShuffleStep(pick, m, i) == SwapRandom(m, i, pick[i])
NewsStep(new, sameBuckets, m, i) == ReadNew(m, i - 1, new[i], sameBuckets)
TriedsStep(tried, m, i) == ReadTried(m, tried[i])
PruneStep(m, i) == IF IsUnreferenced(m, i - 1) THEN Delete(m, i - 1) ELSE m
ResolveRun(verdict, g, n) == g[0] = am /\ \A i \in 1 .. n : g[i] = ResolveStep(verdict, g[i - 1], i)
ShuffleRun(pick, g, n) == g[0] = am /\ \A i \in 1 .. n : g[i] = ShuffleStep(pick, g[i - 1], i)
NewsRun(start, new, sameBuckets, g, n) == g[0] = start /\ \A i \in 1 .. n : g[i] = NewsStep(new, sameBuckets, g[i - 1], i)
TriedsRun(start, tried, g, n) == g[0] = start /\ \A i \in 1 .. n : g[i] = TriedsStep(tried, g[i - 1], i)
PruneRun(start, g, n) == g[0] = start /\ \A i \in 1 .. n : g[i] = PruneStep(g[i - 1], i)

(* ResolveCollisions_ goes through its rounds one after another. *)
LEMMA ResolveRuns ==
  ASSUME NEW verdict, NEW n \in Nat
  PROVE  \E g : ResolveRun(verdict, g, n) /\ Resolution(verdict, n) = g[n]
  <1> DEFINE T == {k \in 0 .. n : \E g : ResolveRun(verdict, g, k)}
  <1>1. 0 \in T
    <2>1. ResolveRun(verdict, [i \in 0 .. 0 |-> am], 0)
      BY DEF ResolveRun
    <2> QED
      BY <2>1
  <1>2. ASSUME NEW k \in 1 .. n, k - 1 \in T
        PROVE  k \in T
    <2>1. PICK g : ResolveRun(verdict, g, k - 1)
      BY <1>2
    <2>2. PICK h : h = [i \in 0 .. k |-> IF i = k THEN ResolveStep(verdict, g[k - 1], k) ELSE g[i]]
      OBVIOUS
    <2>3. ResolveRun(verdict, h, k)
      BY <2>1, <2>2 DEF ResolveRun
    <2> QED
      BY <2>3
  <1>3. n \in T
    <2> HIDE DEF T
    <2> QED
      BY <1>1, <1>2, UpTo
  <1>4. PICK g : ResolveRun(verdict, g, n)
    BY <1>3
  <1> DEFINE f == [i \in 0 .. n |-> g[i]]
             h == CHOOSE h : h = [i \in 0 .. n |-> IF i = 0 THEN am ELSE ResolveStep(verdict, h[i - 1], i)]
  <1>5. f = [i \in 0 .. n |-> IF i = 0 THEN am ELSE ResolveStep(verdict, f[i - 1], i)]
    BY <1>4 DEF ResolveRun
  <1>6. h = [i \in 0 .. n |-> IF i = 0 THEN am ELSE ResolveStep(verdict, h[i - 1], i)]
    <2> HIDE DEF f
    <2> QED
      BY <1>5
  <1>7. Resolution(verdict, n) = h[n]
    BY DEF Resolution, Loop, ResolveStep
  <1> HIDE DEF h
  <1>8. ResolveRun(verdict, h, n)
    BY <1>6 DEF ResolveRun
  <1> QED
    BY <1>7, <1>8

(* So does GetAddr_ with its swaps, *)
LEMMA ShuffleRuns ==
  ASSUME NEW pick, NEW n \in Nat
  PROVE  \E g : ShuffleRun(pick, g, n) /\ Shuffled(pick, n) = g[n]
  <1> DEFINE T == {k \in 0 .. n : \E g : ShuffleRun(pick, g, k)}
  <1>1. 0 \in T
    <2>1. ShuffleRun(pick, [i \in 0 .. 0 |-> am], 0)
      BY DEF ShuffleRun
    <2> QED
      BY <2>1
  <1>2. ASSUME NEW k \in 1 .. n, k - 1 \in T
        PROVE  k \in T
    <2>1. PICK g : ShuffleRun(pick, g, k - 1)
      BY <1>2
    <2>2. PICK h : h = [i \in 0 .. k |-> IF i = k THEN ShuffleStep(pick, g[k - 1], k) ELSE g[i]]
      OBVIOUS
    <2>3. ShuffleRun(pick, h, k)
      BY <2>1, <2>2 DEF ShuffleRun
    <2> QED
      BY <2>3
  <1>3. n \in T
    <2> HIDE DEF T
    <2> QED
      BY <1>1, <1>2, UpTo
  <1>4. PICK g : ShuffleRun(pick, g, n)
    BY <1>3
  <1> DEFINE f == [i \in 0 .. n |-> g[i]]
             h == CHOOSE h : h = [i \in 0 .. n |-> IF i = 0 THEN am ELSE ShuffleStep(pick, h[i - 1], i)]
  <1>5. f = [i \in 0 .. n |-> IF i = 0 THEN am ELSE ShuffleStep(pick, f[i - 1], i)]
    BY <1>4 DEF ShuffleRun
  <1>6. h = [i \in 0 .. n |-> IF i = 0 THEN am ELSE ShuffleStep(pick, h[i - 1], i)]
    <2> HIDE DEF f
    <2> QED
      BY <1>5
  <1>7. Shuffled(pick, n) = h[n]
    BY DEF Shuffled, Loop, ShuffleStep
  <1> HIDE DEF h
  <1>8. ShuffleRun(pick, h, n)
    BY <1>6 DEF ShuffleRun
  <1> QED
    BY <1>7, <1>8

(* Unserialize with the entries of the new table, *)
LEMMA NewsRuns ==
  ASSUME NEW start, NEW new, NEW sameBuckets, NEW n \in Nat
  PROVE  \E g : NewsRun(start, new, sameBuckets, g, n) /\ ReadNews(start, new, n, sameBuckets) = g[n]
  <1> DEFINE T == {k \in 0 .. n : \E g : NewsRun(start, new, sameBuckets, g, k)}
  <1>1. 0 \in T
    <2>1. NewsRun(start, new, sameBuckets, [i \in 0 .. 0 |-> start], 0)
      BY DEF NewsRun
    <2> QED
      BY <2>1
  <1>2. ASSUME NEW k \in 1 .. n, k - 1 \in T
        PROVE  k \in T
    <2>1. PICK g : NewsRun(start, new, sameBuckets, g, k - 1)
      BY <1>2
    <2>2. PICK h : h = [i \in 0 .. k |-> IF i = k THEN NewsStep(new, sameBuckets, g[k - 1], k) ELSE g[i]]
      OBVIOUS
    <2>3. NewsRun(start, new, sameBuckets, h, k)
      BY <2>1, <2>2 DEF NewsRun
    <2> QED
      BY <2>3
  <1>3. n \in T
    <2> HIDE DEF T
    <2> QED
      BY <1>1, <1>2, UpTo
  <1>4. PICK g : NewsRun(start, new, sameBuckets, g, n)
    BY <1>3
  <1> DEFINE f == [i \in 0 .. n |-> g[i]]
             h == CHOOSE h : h = [i \in 0 .. n |-> IF i = 0 THEN start ELSE NewsStep(new, sameBuckets, h[i - 1], i)]
  <1>5. f = [i \in 0 .. n |-> IF i = 0 THEN start ELSE NewsStep(new, sameBuckets, f[i - 1], i)]
    BY <1>4 DEF NewsRun
  <1>6. h = [i \in 0 .. n |-> IF i = 0 THEN start ELSE NewsStep(new, sameBuckets, h[i - 1], i)]
    <2> HIDE DEF f
    <2> QED
      BY <1>5
  <1>7. ReadNews(start, new, n, sameBuckets) = h[n]
    BY DEF ReadNews, Loop, NewsStep
  <1> HIDE DEF h
  <1>8. NewsRun(start, new, sameBuckets, h, n)
    BY <1>6 DEF NewsRun
  <1> QED
    BY <1>7, <1>8

(* with those of the tried table, *)
LEMMA TriedsRuns ==
  ASSUME NEW start, NEW tried, NEW n \in Nat
  PROVE  \E g : TriedsRun(start, tried, g, n) /\ ReadTrieds(start, tried, n) = g[n]
  <1> DEFINE T == {k \in 0 .. n : \E g : TriedsRun(start, tried, g, k)}
  <1>1. 0 \in T
    <2>1. TriedsRun(start, tried, [i \in 0 .. 0 |-> start], 0)
      BY DEF TriedsRun
    <2> QED
      BY <2>1
  <1>2. ASSUME NEW k \in 1 .. n, k - 1 \in T
        PROVE  k \in T
    <2>1. PICK g : TriedsRun(start, tried, g, k - 1)
      BY <1>2
    <2>2. PICK h : h = [i \in 0 .. k |-> IF i = k THEN TriedsStep(tried, g[k - 1], k) ELSE g[i]]
      OBVIOUS
    <2>3. TriedsRun(start, tried, h, k)
      BY <2>1, <2>2 DEF TriedsRun
    <2> QED
      BY <2>3
  <1>3. n \in T
    <2> HIDE DEF T
    <2> QED
      BY <1>1, <1>2, UpTo
  <1>4. PICK g : TriedsRun(start, tried, g, n)
    BY <1>3
  <1> DEFINE f == [i \in 0 .. n |-> g[i]]
             h == CHOOSE h : h = [i \in 0 .. n |-> IF i = 0 THEN start ELSE TriedsStep(tried, h[i - 1], i)]
  <1>5. f = [i \in 0 .. n |-> IF i = 0 THEN start ELSE TriedsStep(tried, f[i - 1], i)]
    BY <1>4 DEF TriedsRun
  <1>6. h = [i \in 0 .. n |-> IF i = 0 THEN start ELSE TriedsStep(tried, h[i - 1], i)]
    <2> HIDE DEF f
    <2> QED
      BY <1>5
  <1>7. ReadTrieds(start, tried, n) = h[n]
    BY DEF ReadTrieds, Loop, TriedsStep
  <1> HIDE DEF h
  <1>8. TriedsRun(start, tried, h, n)
    BY <1>6 DEF TriedsRun
  <1> QED
    BY <1>7, <1>8

(* and with the entries that it prunes. *)
LEMMA PruneRuns ==
  ASSUME NEW start, NEW n \in Nat
  PROVE  \E g : PruneRun(start, g, n) /\ PruneUnreferenced(start, n) = g[n]
  <1> DEFINE T == {k \in 0 .. n : \E g : PruneRun(start, g, k)}
  <1>1. 0 \in T
    <2>1. PruneRun(start, [i \in 0 .. 0 |-> start], 0)
      BY DEF PruneRun
    <2> QED
      BY <2>1
  <1>2. ASSUME NEW k \in 1 .. n, k - 1 \in T
        PROVE  k \in T
    <2>1. PICK g : PruneRun(start, g, k - 1)
      BY <1>2
    <2>2. PICK h : h = [i \in 0 .. k |-> IF i = k THEN PruneStep(g[k - 1], k) ELSE g[i]]
      OBVIOUS
    <2>3. PruneRun(start, h, k)
      BY <2>1, <2>2 DEF PruneRun
    <2> QED
      BY <2>3
  <1>3. n \in T
    <2> HIDE DEF T
    <2> QED
      BY <1>1, <1>2, UpTo
  <1>4. PICK g : PruneRun(start, g, n)
    BY <1>3
  <1> DEFINE f == [i \in 0 .. n |-> g[i]]
             h == CHOOSE h : h = [i \in 0 .. n |-> IF i = 0 THEN start ELSE PruneStep(h[i - 1], i)]
  <1>5. f = [i \in 0 .. n |-> IF i = 0 THEN start ELSE PruneStep(f[i - 1], i)]
    BY <1>4 DEF PruneRun
  <1>6. h = [i \in 0 .. n |-> IF i = 0 THEN start ELSE PruneStep(h[i - 1], i)]
    <2> HIDE DEF f
    <2> QED
      BY <1>5
  <1>7. PruneUnreferenced(start, n) = h[n]
    BY DEF PruneUnreferenced, Loop, PruneStep
  <1> HIDE DEF h
  <1>8. PruneRun(start, h, n)
    BY <1>6 DEF PruneRun
  <1> QED
    BY <1>7, <1>8

-----------------------------------------------------------------------------
(* The same manager but for its collisions *)
SameBut(m, c) ==
    /\ c.mapInfo = m.mapInfo /\ c.vvTried = m.vvTried /\ c.vvNew = m.vvNew /\ TriedIds(c) = TriedIds(m)

(* A collision is no longer waited for. *)
LEMMA ResolvedWhole ==
  ASSUME NEW m, Core(m), Loose(m) = {}, Counts(m, 0, 0), Below(m, m.nIdCount), NEW id, RealBut(m, id),
         NEW c, c = Resolved(m, id)
  PROVE  Whole(c) /\ SameBut(m, c)
  <1>1. m \in Manager
    BY DEF Core
  <1>2. /\ c.mapInfo = m.mapInfo /\ c.mapAddr = m.mapAddr /\ c.vRandom = m.vRandom /\ c.nTried = m.nTried
        /\ c.nNew = m.nNew /\ c.vvTried = m.vvTried /\ c.vvNew = m.vvNew /\ c.nIdCount = m.nIdCount
        /\ c.asserts = m.asserts /\ c.m_tried_collisions = m.m_tried_collisions \ {id}
    BY <1>1 DEF Manager, Resolved
  <1>3. c \in Manager
    BY <1>1 DEF Manager, Resolved
  <1>4. TriedIds(c) = TriedIds(m)
    BY <1>2 DEF TriedIds
  <1>5. NewIds(c) = NewIds(m)
    BY <1>2, <1>4 DEF NewIds
  <1>6. \A x : Refs(c, x) = Refs(m, x)
    BY <1>2 DEF Refs
  <1>7. RandomIndex(c) /\ HostIndex(c)
    BY <1>2 DEF Core, RandomIndex, HostIndex
  <1>8. NewTable(c)
    BY <1>2, <1>5, <1>6 DEF Core, NewTable
  <1>9. TriedTable(c)
    BY <1>2, <1>4 DEF Core, TriedTable
  <1>10. Core(c)
    BY <1>2, <1>3, <1>7, <1>8, <1>9 DEF Core
  <1>11. Loose(c) = {} /\ Counts(c, 0, 0)
    BY <1>2, <1>4, <1>5 DEF Loose, Counts
  <1>12. Below(c, c.nIdCount)
    BY <1>2 DEF Below
  <1>13. Real(c)
    BY <1>2, <1>4 DEF RealBut, Real
  <1> QED
    BY <1>2, <1>4, <1>10, <1>11, <1>12, <1>13 DEF Whole, SameBut

(* The same for a manager that is whole *)
LEMMA WholeResolved ==
  ASSUME NEW m, Whole(m), NEW id, NEW c, c = Resolved(m, id)
  PROVE  Whole(c) /\ SameBut(m, c)
  <1>1. RealBut(m, id)
    BY DEF Whole, Real, RealBut
  <1> QED
    BY <1>1, ResolvedWhole DEF Whole

(* A call that started with am has come to m: who has left the tried table *)
(* is at home, or another who has left it is.                              *)
During(m) ==
    /\ Whole(m) /\ DOMAIN m.mapInfo \subseteq DOMAIN am.mapInfo
    /\ \A x \in DOMAIN m.mapInfo :
          m.mapInfo[x].svc = am.mapInfo[x].svc /\ m.mapInfo[x].source = am.mapInfo[x].source
    /\ \A x \in TriedIds(am) \ TriedIds(m) : m.vvNew[Home(am, x)] \in TriedIds(am)

(* A round moves the entry of a collision to the tried table. *)
LEMMA RoundMoves ==
  ASSUME Whole(am), NEW m, During(m), NEW id \in am.m_tried_collisions, id \in NewIds(m),
         NEW old, old = m.vvTried[TriedSlot[m.mapInfo[id].svc]], old = Nobody \/ old \in TriedIds(am),
         NEW g, g = MakeTried(Seen(m, id), id), NEW c, c = Resolved(g, id)
  PROVE  During(c)
  <1>1. Whole(m) /\ id \in DOMAIN m.mapInfo /\ id \in DOMAIN am.mapInfo /\ am \in Manager
    BY DEF During, NewIds, Whole, Core
  <1>2. PICK s : s = Seen(m, id)
    OBVIOUS
  <1>3. Whole(s) /\ IsSeen(m, s, id)
    BY <1>1, <1>2, SeenWhole
  <1>4. /\ Core(s) /\ id \in NewIds(s) /\ id \in DOMAIN s.mapInfo /\ s.mapInfo[id].succeeded
        /\ SameEntries(m, s) /\ TriedIds(s) = TriedIds(m) /\ s.vvTried = m.vvTried /\ s.vvNew = m.vvNew
        /\ DOMAIN s.mapInfo = DOMAIN m.mapInfo /\ s.mapInfo[id].svc = m.mapInfo[id].svc
    BY <1>1, <1>3 DEF IsSeen, SameEntries
  <1>5. BecameTried(s, g, id)
    BY <1>2, <1>4, MakeTriedIs
  <1>6. Core(g) /\ Loose(g) = {} /\ Counts(g, 0, 0) /\ Below(g, g.nIdCount) /\ RealBut(g, id)
    BY <1>3, <1>4, <1>5, BecameWhole
  <1>7. Whole(c) /\ SameBut(g, c)
    BY <1>6, ResolvedWhole
  <1>8. /\ SameEntries(s, g) /\ TriedIds(g) = (TriedIds(m) \ {old}) \cup {id}
        /\ old # Nobody => g.vvNew[Home(s, old)] = old
        /\ \A p \in NewSlots : old = Nobody \/ p # Home(s, old) =>
              g.vvNew[p] = IF m.vvNew[p] = id THEN Nobody ELSE m.vvNew[p]
    BY <1>4, <1>5, ZenonT(60) DEF BecameTried
  <1>9. /\ DOMAIN g.mapInfo \subseteq DOMAIN am.mapInfo
        /\ \A x \in DOMAIN g.mapInfo :
              g.mapInfo[x].svc = am.mapInfo[x].svc /\ g.mapInfo[x].source = am.mapInfo[x].source
    BY <1>4, <1>8 DEF During, SameEntries
  <1>10. id \notin TriedIds(am)
    BY <1>1 DEF Whole, Real
  <1>11. old # Nobody => Home(s, old) = Home(am, old)
    <2> SUFFICES ASSUME old # Nobody
                 PROVE  Home(s, old) = Home(am, old)
      OBVIOUS
    <2>1. m.mapInfo[id].svc \in Services
      BY <1>1, Fields DEF Whole, Core, InfoType
    <2>2. TriedSlot[m.mapInfo[id].svc] \in TriedSlots
      BY <2>1, Places
    <2>3. old \in DOMAIN m.mapInfo
      BY <1>1, <2>2 DEF Whole, Core, TriedTable, TriedIds
    <2> QED
      BY <1>4, <2>3, ZenonT(60) DEF SameEntries, Home, During
  <1>12. ASSUME NEW x \in TriedIds(am) \ TriedIds(g)
         PROVE  g.vvNew[Home(am, x)] \in TriedIds(am)
    <2>1. x \notin TriedIds(m) \/ x = old
      BY <1>8
    <2>2. CASE old # Nobody /\ Home(am, x) = Home(am, old)
      BY <1>8, <1>11, <2>2
    <2>3. CASE old = Nobody \/ Home(am, x) # Home(am, old)
      <3>1. Home(am, x) \in NewSlots
        <4>1. am.mapInfo[x] \in InfoType
          BY <1>1, Fields DEF TriedIds
        <4> QED
          BY <4>1, Places DEF InfoType, Home
      <3>2. x \notin TriedIds(m)
        <4>1. Nobody \notin TriedIds(am)
          BY <1>1, Ids DEF Whole, Core
        <4> QED
          BY <2>1, <2>3, <4>1
      <3>3. m.vvNew[Home(am, x)] \in TriedIds(am)
        BY <3>2 DEF During
      <3> QED
        BY <1>8, <1>10, <1>11, <2>3, <3>1, <3>3
    <2> QED
      BY <2>2, <2>3
  <1> QED
    BY <1>7, <1>9, <1>12 DEF During, SameBut

(* A round that only notes success, or gives up *)
LEMMA RoundStays ==
  ASSUME NEW m, During(m), NEW id, NEW g, NEW c, c = Resolved(g, id),
         \/ g = m
         \/ id \in DOMAIN m.mapInfo /\ g = Seen(m, id)
         \/ /\ id \in NewIds(m) /\ g = Collide(Seen(m, id), id)
            /\ m.vvTried[TriedSlot[m.mapInfo[id].svc]] # Nobody
  PROVE  During(c)
  <1>1. Whole(m)
    BY DEF During
  <1>2. CASE g = m
    <2>1. Whole(c) /\ SameBut(m, c)
      BY <1>1, <1>2, WholeResolved
    <2> QED
      BY <2>1 DEF During, SameBut
  <1>3. CASE id \in DOMAIN m.mapInfo /\ g = Seen(m, id)
    <2>1. Whole(g) /\ IsSeen(m, g, id)
      BY <1>1, <1>3, SeenWhole
    <2>2. Whole(c) /\ SameBut(g, c)
      BY <2>1, WholeResolved
    <2> QED
      BY <2>1, <2>2 DEF During, SameBut, IsSeen, SameEntries
  <1>4. CASE /\ id \in NewIds(m) /\ g = Collide(Seen(m, id), id)
             /\ m.vvTried[TriedSlot[m.mapInfo[id].svc]] # Nobody
    <2>1. PICK s : s = Seen(m, id)
      OBVIOUS
    <2>2. id \in DOMAIN m.mapInfo
      BY <1>4 DEF NewIds
    <2>3. Whole(s) /\ IsSeen(m, s, id)
      BY <1>1, <2>1, <2>2, SeenWhole
    <2>4. /\ id \in NewIds(s) /\ s.vvTried[TriedSlot[s.mapInfo[id].svc]] # Nobody /\ TriedIds(s) = TriedIds(m)
          /\ s.vvNew = m.vvNew /\ s \in Manager
      BY <1>4, <2>2, <2>3 DEF IsSeen, SameEntries, Core
    <2>5. Whole(g)
      BY <1>4, <2>1, <2>3, <2>4, CollideWhole
    <2>6. g.mapInfo = s.mapInfo /\ g.vvNew = s.vvNew
      BY <1>4, <2>1, <2>4 DEF Collide, Manager
    <2>7. Whole(c) /\ SameBut(g, c)
      BY <2>5, WholeResolved
    <2>8. TriedIds(c) = TriedIds(m)
      BY <2>4, <2>6, <2>7 DEF SameBut, TriedIds
    <2>9. c.mapInfo = s.mapInfo /\ c.vvNew = m.vvNew
      BY <2>4, <2>6, <2>7 DEF SameBut
    <2> QED
      BY <2>3, <2>7, <2>8, <2>9 DEF During, IsSeen, SameEntries
  <1> QED
    BY <1>2, <1>3, <1>4

(* A round of ResolveCollisions_ *)
LEMMA RoundKeeps ==
  ASSUME Whole(am), NEW m, During(m), NEW id \in am.m_tried_collisions, NEW verdict,
         NEW c, c = ResolveCollision(m, id, verdict)
  PROVE  During(c)
  <1>1. PICK svc : svc = m.mapInfo[id].svc
    OBVIOUS
  <1>2. PICK old : old = m.vvTried[TriedSlot[svc]]
    OBVIOUS
  <1>3. PICK stays \in BOOLEAN :
          stays = (\/ id \notin DOMAIN m.mapInfo
                   \/ old # Nobody /\ (verdict = "good" \/ old # am.vvTried[TriedSlot[svc]]))
    OBVIOUS
  <1>4. c = IF stays THEN Resolved(m, id)
            ELSE IF old # Nobody /\ verdict = "wait" THEN m
            ELSE Resolved(Good(m, svc, FALSE), id)
    BY <1>1, <1>2, <1>3 DEF ResolveCollision
  <1>5. CASE stays
    BY <1>4, <1>5, RoundStays
  <1>6. CASE ~stays /\ c = m
    BY <1>6
  <1>7. CASE ~stays /\ c = Resolved(Good(m, svc, FALSE), id)
    <2>1. id \in DOMAIN m.mapInfo /\ (old = Nobody \/ old = am.vvTried[TriedSlot[svc]])
      BY <1>3, <1>7
    <2>2. Core(m) /\ Core(am) /\ m \in Manager
      BY DEF During, Whole, Core
    <2>3. svc \in Services /\ m.mapAddr[Host[svc]] = id
      BY <1>1, <2>1, <2>2, Fields DEF Core, HostIndex, InfoType
    <2>4. old = Nobody \/ old \in TriedIds(am)
      <3>1. TriedSlot[svc] \in TriedSlots
        BY <2>3, Places
      <3> QED
        BY <2>1, <2>2, <3>1 DEF Core, TriedTable
    <2>5. PICK g : g = Good(m, svc, FALSE)
      OBVIOUS
    <2>6. GoodDoes(m, g, svc, FALSE) /\ c = Resolved(g, id)
      BY <1>7, <2>2, <2>3, <2>5, GoodIs
    <2>7. \/ g = m \/ g = Seen(m, id)
          \/ g = Collide(Seen(m, id), id) /\ id \in NewIds(m) /\ old # Nobody
          \/ g = MakeTried(Seen(m, id), id) /\ id \in NewIds(m)
      BY <1>2, <2>3, <2>6 DEF GoodDoes
    <2>8. CASE g = MakeTried(Seen(m, id), id) /\ id \in NewIds(m)
      BY <1>1, <1>2, <2>4, <2>6, <2>8, RoundMoves
    <2>9. CASE \/ g = m \/ g = Seen(m, id)
               \/ g = Collide(Seen(m, id), id) /\ id \in NewIds(m) /\ old # Nobody
      BY <1>1, <1>2, <2>1, <2>6, <2>9, RoundStays
    <2> QED
      BY <2>7, <2>8, <2>9
  <1> QED
    BY <1>4, <1>5, <1>6, <1>7

(* ResolveCollisions_ *)
LEMMA ResolutionKeeps ==
  ASSUME Whole(am), NEW verdict, NEW n \in Nat, NEW c, c = Resolution(verdict, n)
  PROVE  During(c)
  <1>1. PICK g : ResolveRun(verdict, g, n) /\ c = g[n]
    BY ResolveRuns
  <1> DEFINE T == {i \in 0 .. n : During(g[i])}
  <1>2. 0 \in T
    <2>1. g[0] = am
      BY <1>1 DEF ResolveRun
    <2>2. During(am)
      BY DEF During
    <2> QED
      BY <2>1, <2>2
  <1>3. ASSUME NEW i \in 1 .. n, i - 1 \in T
        PROVE  i \in T
    <2>1. PICK m : m = g[i - 1]
      OBVIOUS
    <2>2. During(m) /\ g[i] = ResolveStep(verdict, m, i)
      BY <1>1, <1>3, <2>1 DEF ResolveRun
    <2>3. CASE i - 1 \in am.m_tried_collisions
      <3>1. g[i] = ResolveCollision(m, i - 1, verdict[i - 1])
        BY <2>2, <2>3 DEF ResolveStep
      <3>2. During(g[i])
        BY <2>2, <2>3, <3>1, RoundKeeps
      <3> QED
        BY <3>2
    <2>4. CASE i - 1 \notin am.m_tried_collisions
      <3>1. During(g[i])
        BY <2>2, <2>4 DEF ResolveStep
      <3> QED
        BY <3>1
    <2> QED
      BY <2>3, <2>4
  <1>4. n \in T
    <2> HIDE DEF T
    <2> QED
      BY <1>2, <1>3, UpTo
  <1> QED
    BY <1>1, <1>4

-----------------------------------------------------------------------------
(* A swap in vRandom keeps everything. *)
LEMMA SwapWhole ==
  ASSUME NEW m, Whole(m), NEW i \in 1 .. Len(m.vRandom), NEW j \in 1 .. Len(m.vRandom),
         NEW s, s = SwapRandom(m, i, j)
  PROVE  Whole(s) /\ TriedIds(s) = TriedIds(m) /\ Len(s.vRandom) = Len(m.vRandom)
  <1>1. Core(m) /\ m \in Manager
    BY DEF Whole, Core
  <1>2. Swapped(m, s, i, j)
    BY <1>1, SwapIs DEF Core
  <1>3. /\ s.mapAddr = m.mapAddr /\ s.nTried = m.nTried
        /\ s.nNew = m.nNew /\ s.vvTried = m.vvTried /\ s.vvNew = m.vvNew /\ s.nIdCount = m.nIdCount
        /\ s.asserts = m.asserts /\ s.m_tried_collisions = m.m_tried_collisions
    <2>1. s = [m EXCEPT !.mapInfo = s.mapInfo, !.vRandom = s.vRandom]
      BY <1>2 DEF Swapped
    <2> QED
      BY <1>1, <2>1 DEF Manager
  <1>4. /\ s \in Manager /\ RandomIndex(s) /\ DOMAIN s.mapInfo = DOMAIN m.mapInfo
        /\ Len(s.vRandom) = Len(m.vRandom)
        /\ \A id \in DOMAIN m.mapInfo : Kept(s.mapInfo[id], m.mapInfo[id])
    BY <1>2 DEF Swapped
  <1>5. TriedIds(s) = TriedIds(m)
    BY <1>4 DEF TriedIds, Kept
  <1>6. NewIds(s) = NewIds(m) /\ NewIds(m) \subseteq DOMAIN m.mapInfo /\ TriedIds(m) \subseteq DOMAIN m.mapInfo
    BY <1>4, <1>5 DEF NewIds, TriedIds
  <1>7. \A x : Refs(s, x) = Refs(m, x)
    BY <1>3 DEF Refs
  <1>8. HostIndex(s)
    BY <1>1, <1>3, <1>4 DEF Core, HostIndex, Kept
  <1>9. NewTable(s)
    BY <1>1, <1>3, <1>4, <1>6, <1>7 DEF Core, NewTable, Kept
  <1>10. TriedTable(s)
    BY <1>1, <1>3, <1>4, <1>5, <1>6 DEF Core, TriedTable, Kept
  <1>11. Core(s)
    BY <1>1, <1>3, <1>4, <1>8, <1>9, <1>10 DEF Core
  <1>12. Loose(s) = {}
    BY <1>4, <1>6 DEF Loose, Kept, Whole
  <1>13. Counts(s, 0, 0)
    BY <1>3, <1>5, <1>6 DEF Whole, Counts
  <1>14. Below(s, s.nIdCount)
    BY <1>3, <1>4 DEF Whole, Below
  <1>15. Real(s)
    BY <1>3, <1>4, <1>5 DEF Whole, Real, Kept
  <1> QED
    BY <1>4, <1>5, <1>11, <1>12, <1>13, <1>14, <1>15 DEF Whole

(* GetAddr_ *)
LEMMA GetAddrStep ==
  ASSUME Whole(am), GetAddr
  PROVE  Whole(am') /\ TriedIds(am') = TriedIds(am)
  <1>1. PICK n \in 1 .. Len(am.vRandom) : \E pick \in [1 .. n -> 1 .. Len(am.vRandom)] : am' = Shuffled(pick, n)
    BY DEF GetAddr
  <1>2. PICK pick \in [1 .. n -> 1 .. Len(am.vRandom)] : am' = Shuffled(pick, n)
    BY <1>1
  <1>3. PICK c : c = Shuffled(pick, n)
    OBVIOUS
  <1>4. Len(am.vRandom) \in Nat /\ n \in Nat
    BY Fields DEF Whole, Core
  <1>5. PICK g : ShuffleRun(pick, g, n) /\ c = g[n]
    BY <1>3, <1>4, ShuffleRuns
  <1> DEFINE Good1(m) == Whole(m) /\ TriedIds(m) = TriedIds(am) /\ Len(m.vRandom) = Len(am.vRandom)
             T == {i \in 0 .. n : Good1(g[i])}
  <1>6. 0 \in T
    BY <1>5 DEF ShuffleRun
  <1>7. ASSUME NEW i \in 1 .. n, i - 1 \in T
        PROVE  i \in T
    <2>1. PICK m : m = g[i - 1]
      OBVIOUS
    <2>2. Good1(m) /\ g[i] = SwapRandom(m, i, pick[i])
      BY <1>5, <1>7, <2>1 DEF ShuffleRun, ShuffleStep
    <2>3. i \in 1 .. Len(m.vRandom) /\ pick[i] \in 1 .. Len(m.vRandom)
      BY <1>4, <2>2
    <2>4. Good1(g[i])
      BY <2>2, <2>3, SwapWhole
    <2> HIDE DEF Good1
    <2> QED
      BY <2>4
  <1>8. n \in T
    <2> HIDE DEF T
    <2>1. \A i \in 0 .. n : i \in T
      BY <1>4, <1>6, <1>7, UpTo
    <2> QED
      BY <1>4, <2>1
  <1> QED
    BY <1>2, <1>3, <1>5, <1>8

(* SelectTriedCollision_ finds the resident to test. *)
LEMMA SelectStep ==
  ASSUME Whole(am), SelectTriedCollision
  PROVE  Whole(am') /\ TriedIds(am') = TriedIds(am)
  <1>1. PICK id \in am.m_tried_collisions :
          am' = IF id \notin DOMAIN am.mapInfo THEN Resolved(am, id)
                ELSE LET old == am.vvTried[TriedSlot[am.mapInfo[id].svc]]
                     IN  IF old \in DOMAIN am.mapInfo THEN am
                         ELSE [am EXCEPT !.mapInfo = With(@, old, Info("none", "none", -1))]
    BY DEF SelectTriedCollision
  <1>2. CASE id \notin DOMAIN am.mapInfo
    <2>1. PICK c : c = Resolved(am, id)
      OBVIOUS
    <2>2. Whole(c) /\ SameBut(am, c)
      BY <2>1, WholeResolved
    <2>3. am' = c
      BY <1>1, <1>2, <2>1
    <2> QED
      BY <2>2, <2>3 DEF SameBut
  <1>3. CASE id \in DOMAIN am.mapInfo
    <2>1. PICK slot : slot = TriedSlot[am.mapInfo[id].svc]
      OBVIOUS
    <2>2. am.mapInfo[id].svc \in Services
      BY <1>3, Fields DEF Whole, Core, InfoType
    <2>3. slot \in TriedSlots
      BY <2>1, <2>2, Places
    <2>4. am.vvTried[slot] # Nobody
      BY <1>3, <2>1 DEF Whole, Real
    <2>5. am.vvTried[slot] \in DOMAIN am.mapInfo
      BY <2>3, <2>4 DEF Whole, Core, TriedTable, TriedIds
    <2>6. am' = am
      BY <1>1, <1>3, <2>1, <2>5
    <2> QED
      BY <2>6
  <1> QED
    BY <1>2, <1>3

Fresh(new, tried) == [Empty EXCEPT !.nNew = new, !.nTried = tried]

(* The manager of an empty node, also with other counters *)
LEMMA EmptyCore ==
  ASSUME NEW new \in Int, NEW tried \in Int,
         NEW m, m = Fresh(new, tried)
  PROVE  /\ Core(m) /\ DOMAIN m.mapInfo = {} /\ DOMAIN m.mapAddr = {} /\ m.vRandom = <<>>
         /\ m.nNew = new /\ m.nTried = tried /\ m.m_tried_collisions = {} /\ m.nIdCount = 0
         /\ m.vvTried = [s \in TriedSlots |-> Nobody] /\ m.vvNew = [s \in NewSlots |-> Nobody]
  <1>1. /\ m.mapInfo = <<>> /\ m.mapAddr = <<>> /\ m.vRandom = <<>> /\ m.nNew = new /\ m.nTried = tried
        /\ m.vvTried = [s \in TriedSlots |-> Nobody] /\ m.vvNew = [s \in NewSlots |-> Nobody]
        /\ m.m_tried_collisions = {} /\ m.nIdCount = 0 /\ m.asserts = TRUE
    BY DEF Empty, Fresh
  <1>2. DOMAIN m.mapInfo = {} /\ DOMAIN m.mapAddr = {} /\ Len(m.vRandom) = 0
    BY <1>1
  <1>3. m \in Manager
    <2>1. \A f, D, R : f = <<>> => f \in Partial(D, R)
      <3> SUFFICES ASSUME NEW f, NEW D, NEW R, f = <<>>
                   PROVE  f \in Partial(D, R)
        OBVIOUS
      <3>1. f \in [{} -> R] /\ {} \in SUBSET D
        OBVIOUS
      <3> QED
        BY <3>1 DEF Partial
    <2>2. <<>> \in Partial(Nat, InfoType) /\ <<>> \in Partial(Hosts, Nat)
      BY <2>1
    <2>3. <<>> \in Seq(Nat) /\ Nobody \in Int
      BY DEF Nobody
    <2> QED
      BY <2>2, <2>3 DEF Manager, Empty, Fresh
  <1>4. TriedIds(m) = {} /\ NewIds(m) = {}
    BY <1>2 DEF TriedIds, NewIds
  <1>5. RandomIndex(m) /\ HostIndex(m)
    BY <1>2 DEF RandomIndex, HostIndex
  <1>6. NewTable(m) /\ TriedTable(m)
    BY <1>1, <1>2, <1>4 DEF NewTable, TriedTable
  <1>7. IsFiniteSet(DOMAIN m.mapInfo)
    BY <1>2, FS_EmptySet
  <1> QED
    BY <1>1, <1>2, <1>3, <1>5, <1>6, <1>7 DEF Core

(* An empty node is whole. *)
LEMMA EmptyWhole ==
  Whole(Empty)
  <1>1. PICK m : m = Fresh(0, 0)
    OBVIOUS
  <1>2. m = Empty
    BY <1>1 DEF Empty, Fresh
  <1>3. /\ Core(m) /\ DOMAIN m.mapInfo = {} /\ m.nNew = 0 /\ m.nTried = 0 /\ m.m_tried_collisions = {}
    BY <1>1, EmptyCore
  <1>4. TriedIds(m) = {} /\ NewIds(m) = {}
    BY <1>3 DEF TriedIds, NewIds
  <1>5. Cardinality({}) = 0
    BY FS_EmptySet
  <1>6. Counts(m, 0, 0)
    BY <1>3, <1>4, <1>5 DEF Counts
  <1>7. Loose(m) = {} /\ Below(m, m.nIdCount) /\ Real(m)
    BY <1>3, <1>4 DEF Loose, Below, Real
  <1>8. Whole(m)
    BY <1>3, <1>6, <1>7 DEF Whole
  <1> QED
    BY <1>2, <1>8

-----------------------------------------------------------------------------
(* The place of an entry in what Serialize writes is how many come before. *)
LEMMA BeforeIs ==
  ASSUME NEW ids \in SUBSET Nat, IsFiniteSet(ids)
  PROVE  /\ \A x \in ids : Before(ids, x) \in 0 .. Cardinality(ids) - 1
         /\ \A x, y \in ids : x < y => Before(ids, x) < Before(ids, y)
  <1> DEFINE S(x) == {i \in ids : i < x}
  <1>1. Cardinality(ids) \in Nat
    BY FS_CardinalityType
  <1>2. \A x : IsFiniteSet(S(x)) /\ Cardinality(S(x)) \in Nat /\ Before(ids, x) = Cardinality(S(x))
    <2> SUFFICES ASSUME NEW x
                 PROVE  IsFiniteSet(S(x)) /\ Cardinality(S(x)) \in Nat /\ Before(ids, x) = Cardinality(S(x))
      OBVIOUS
    <2>1. S(x) \in SUBSET ids
      OBVIOUS
    <2>2. IsFiniteSet(S(x))
      BY <2>1, FS_Subset
    <2>3. Cardinality(S(x)) \in Nat
      BY <2>2, FS_CardinalityType
    <2> QED
      BY <2>2, <2>3 DEF Before
  <1>3. ASSUME NEW x \in ids
        PROVE  Before(ids, x) \in 0 .. Cardinality(ids) - 1
    <2>1. S(x) \in SUBSET ids /\ S(x) # ids
      OBVIOUS
    <2> HIDE DEF S
    <2>2. Cardinality(S(x)) <= Cardinality(ids) /\ Cardinality(S(x)) # Cardinality(ids)
      BY <2>1, FS_Subset
    <2> QED
      BY <1>1, <1>2, <2>2
  <1>4. ASSUME NEW x \in ids, NEW y \in ids, x < y
        PROVE  Before(ids, x) < Before(ids, y)
    <2>1. S(x) \in SUBSET S(y) /\ x \in S(y) /\ x \notin S(x)
      <3>1. x \in Nat /\ y \in Nat /\ \A i \in ids : i \in Nat
        OBVIOUS
      <3>2. \A i \in ids : i < x => i < y
        BY <1>4, <3>1
      <3>3. x < y /\ ~(x < x)
        BY <1>4, <3>1
      <3> QED
        BY <3>2, <3>3
    <2> HIDE DEF S
    <2>2. S(x) # S(y)
      BY <2>1
    <2>3. Cardinality(S(x)) <= Cardinality(S(y)) /\ Cardinality(S(x)) # Cardinality(S(y))
      BY <1>2, <2>1, <2>2, FS_Subset
    <2> QED
      BY <1>2, <2>3
  <1> QED
    BY <1>3, <1>4

(* The entry at place n, of those that Serialize writes *)
Nth(ids, n) == CHOOSE id \in ids : Before(ids, id) = n - 1

(* Serialize numbers the entries without gaps. *)
LEMMA NthIs ==
  ASSUME NEW ids \in SUBSET Nat, IsFiniteSet(ids)
  PROVE  /\ Cardinality(ids) \in Nat
         /\ \A n \in 1 .. Cardinality(ids) : Nth(ids, n) \in ids /\ Before(ids, Nth(ids, n)) = n - 1
         /\ \A x \in ids : Before(ids, x) + 1 \in 1 .. Cardinality(ids) /\ Nth(ids, Before(ids, x) + 1) = x
  <1>1. PICK c \in Nat : c = Cardinality(ids)
    BY FS_CardinalityType
  <1>2. \A x \in ids : Before(ids, x) \in 0 .. c - 1
    BY <1>1, BeforeIs
  <1>3. \A x, y \in ids : Before(ids, x) = Before(ids, y) => x = y
    <2> SUFFICES ASSUME NEW x \in ids, NEW y \in ids, Before(ids, x) = Before(ids, y), x # y
                 PROVE  FALSE
      OBVIOUS
    <2>1. x < y \/ y < x
      OBVIOUS
    <2>2. Before(ids, x) < Before(ids, y) \/ Before(ids, y) < Before(ids, x)
      BY <2>1, BeforeIs
    <2> QED
      BY <1>2, <2>2
  <1>4. PICK f : f = [x \in ids |-> Before(ids, x)]
    OBVIOUS
  <1>5. f \in Injection(ids, 0 .. c - 1)
    <2>1. f \in [ids -> 0 .. c - 1]
      BY <1>2, <1>4
    <2>2. \A x, y \in ids : f[x] = f[y] => x = y
      BY <1>3, <1>4
    <2> QED
      BY <2>1, <2>2 DEF Injection, IsInjective
  <1>6. IsFiniteSet(0 .. c - 1) /\ Cardinality(0 .. c - 1) = c
    BY FS_Interval
  <1>7. f \in Surjection(ids, 0 .. c - 1)
    BY <1>1, <1>5, <1>6, FS_Injection
  <1>8. ASSUME NEW n \in 1 .. c
        PROVE  Nth(ids, n) \in ids /\ Before(ids, Nth(ids, n)) = n - 1
    <2>1. n - 1 \in 0 .. c - 1
      OBVIOUS
    <2>2. \E x \in ids : Before(ids, x) = n - 1
      BY <1>4, <1>7, <2>1 DEF Surjection
    <2> QED
      BY <2>2 DEF Nth
  <1>9. ASSUME NEW x \in ids
        PROVE  Before(ids, x) + 1 \in 1 .. c /\ Nth(ids, Before(ids, x) + 1) = x
    <2>1. PICK n : n = Before(ids, x) + 1
      OBVIOUS
    <2>2. n \in 1 .. c /\ n - 1 = Before(ids, x)
      BY <1>2, <2>1
    <2>3. Nth(ids, n) \in ids /\ Before(ids, Nth(ids, n)) = Before(ids, x)
      BY <1>8, <2>2
    <2> QED
      BY <1>3, <2>1, <2>2, <2>3
  <1> QED
    BY <1>1, <1>8, <1>9

-----------------------------------------------------------------------------
(* What Serialize writes of an entry is the same. *)
Alike(info, was) == info.svc = was.svc /\ info.source = was.source /\ info.succeeded = was.succeeded

(* A new value at the key that was added last *)
LEMMA WithAgain ==
  ASSUME NEW f, NEW k, NEW v, NEW w
  PROVE  [With(f, k, v) EXCEPT ![k] = w] = With(f, k, w)
  BY DEF With

NewRead(m, c, id, was, sameBuckets) ==
    /\ Core(c) /\ DOMAIN c.mapInfo = DOMAIN m.mapInfo \cup {id} /\ TriedIds(c) = TriedIds(m)
    /\ Alike(c.mapInfo[id], was) /\ \A x \in DOMAIN m.mapInfo : Alike(c.mapInfo[x], m.mapInfo[x])
    /\ c.vvTried = m.vvTried /\ (sameBuckets => c.vvNew = m.vvNew)
    /\ c.nNew = m.nNew /\ c.nTried = m.nTried /\ c.nIdCount = m.nIdCount
    /\ c.m_tried_collisions = m.m_tried_collisions

(* Unserialize reads an entry of the new table. *)
LEMMA ReadNewIs ==
  ASSUME NEW m, Core(m), NEW id \in Nat \ DOMAIN m.mapInfo, NEW was \in InfoType, NEW sameBuckets \in BOOLEAN,
         Host[was.svc] \notin DOMAIN m.mapAddr, NEW c, c = ReadNew(m, id, Saved(was), sameBuckets)
  PROVE  NewRead(m, c, id, was, sameBuckets)
  <1>1. m \in Manager /\ m.vRandom \in Seq(Nat) /\ m.vvNew \in [NewSlots -> Int] /\ m.nNew \in Int
    BY Fields DEF Core
  <1>2. PICK slot : slot = SlotFor(was.svc, was.source)
    OBVIOUS
  <1>3. slot \in NewSlots /\ slot \in NewSlotsOf(was.svc)
    BY <1>2, Places DEF InfoType
  <1>4. PICK fInsert \in BOOLEAN : fInsert = (~sameBuckets /\ m.vvNew[slot] = Nobody)
    OBVIOUS
  <1>5. PICK info : info = [Info(was.svc, was.source, Len(m.vRandom) + 1) EXCEPT !.succeeded = was.succeeded]
    OBVIOUS
  <1>6. /\ info \in InfoType /\ info.nRefCount = 0 /\ ~info.fInTried /\ info.nRandomPos = Len(m.vRandom) + 1
        /\ info.svc = was.svc /\ info.source = was.source /\ info.succeeded = was.succeeded
    <2>1. PICK pos \in Nat : pos = Len(m.vRandom) + 1
      BY <1>1
    <2>2. was.svc \in Services /\ was.source \in Sources /\ was.succeeded \in BOOLEAN
      BY DEF InfoType
    <2>3. info = [svc |-> was.svc, source |-> was.source, nRefCount |-> 0, fInTried |-> FALSE,
                  nRandomPos |-> pos, succeeded |-> was.succeeded]
      BY <1>5, <2>1 DEF Info
    <2>4. info \in InfoType
      BY <2>2, <2>3 DEF InfoType
    <2> QED
      BY <2>1, <2>3, <2>4
  <1>7. PICK k : k = Append1(m, id, info)
    OBVIOUS
  <1>8. Appended(m, k, id, info)
    BY <1>6, <1>7, AppendedIs
  <1>9. /\ Core(k) /\ DOMAIN k.mapInfo = DOMAIN m.mapInfo \cup {id} /\ k.mapInfo[id] = info
        /\ \A x \in DOMAIN m.mapInfo : k.mapInfo[x] = m.mapInfo[x]
        /\ NewIds(k) = NewIds(m) \cup {id} /\ TriedIds(k) = TriedIds(m)
        /\ k.vvNew = m.vvNew /\ k.vvTried = m.vvTried /\ k.nNew = m.nNew /\ k.nTried = m.nTried
        /\ k.nIdCount = m.nIdCount /\ k.m_tried_collisions = m.m_tried_collisions
    BY <1>8 DEF Appended, IsWith
  <1>10. c = [m EXCEPT !.mapInfo = With(@, id, [info EXCEPT !.nRefCount = IF fInsert THEN 1 ELSE 0]),
                       !.mapAddr = With(@, Host[info.svc], id), !.vRandom = Append(@, id),
                       !.vvNew[slot] = IF fInsert THEN id ELSE @]
    <2>1. Saved(was).svc = was.svc /\ Saved(was).source = was.source /\ Saved(was).succeeded = was.succeeded
      BY DEF Saved
    <2>2. c = [m EXCEPT !.mapInfo = With(@, id, [Info(was.svc, was.source, Len(m.vRandom) + 1) EXCEPT
                                                   !.succeeded = was.succeeded,
                                                   !.nRefCount = IF fInsert THEN 1 ELSE 0]),
                       !.mapAddr = With(@, Host[was.svc], id), !.vRandom = Append(@, id),
                       !.vvNew[slot] = IF fInsert THEN id ELSE @]
      BY <1>2, <1>4, <2>1 DEF ReadNew
    <2>3. [Info(was.svc, was.source, Len(m.vRandom) + 1) EXCEPT
               !.succeeded = was.succeeded, !.nRefCount = IF fInsert THEN 1 ELSE 0]
          = [info EXCEPT !.nRefCount = IF fInsert THEN 1 ELSE 0]
      BY <1>5 DEF Info
    <2> QED
      BY <1>6, <2>2, <2>3
  <1>11. CASE ~fInsert
    <2>1. [info EXCEPT !.nRefCount = 0] = info
      BY <1>6 DEF InfoType
    <2>2. [m.vvNew EXCEPT ![slot] = m.vvNew[slot]] = m.vvNew
      BY <1>1
    <2>3. c = [m EXCEPT !.mapInfo = With(@, id, info), !.mapAddr = With(@, Host[info.svc], id),
                        !.vRandom = Append(@, id), !.vvNew = m.vvNew]
      BY <1>10, <1>11, <2>1, <2>2
    <2>4. c = k
      BY <1>1, <1>7, <2>3 DEF Append1, Manager
    <2> QED
      BY <1>6, <1>9, <2>4 DEF NewRead, Alike
  <1>12. CASE fInsert
    <2>1. c = [m EXCEPT !.mapInfo = With(@, id, [info EXCEPT !.nRefCount = 1]),
                        !.mapAddr = With(@, Host[info.svc], id), !.vRandom = Append(@, id), !.vvNew[slot] = id]
      BY <1>10, <1>12
    <2>2. k.mapInfo = With(m.mapInfo, id, info) /\ k.asserts = TRUE /\ k \in Manager
      <3>1. k \in Manager /\ k.asserts
        BY <1>9 DEF Core
      <3> QED
        BY <1>1, <1>7, <3>1, Fields DEF Append1, Manager
    <2>3. [k.mapInfo EXCEPT ![id].nRefCount = k.mapInfo[id].nRefCount + 1]
          = With(m.mapInfo, id, [info EXCEPT !.nRefCount = 1])
      <3>1. [k.mapInfo EXCEPT ![id].nRefCount = k.mapInfo[id].nRefCount + 1]
            = [With(m.mapInfo, id, info) EXCEPT ![id] = [info EXCEPT !.nRefCount = 1]]
        BY <1>6, <1>9, <2>2
      <3> QED
        BY <3>1, WithAgain
    <2>4. c = Place(k, id, slot, k.nNew)
      <3>1. Place(k, id, slot, k.nNew) = [k EXCEPT !.mapInfo = With(m.mapInfo, id, [info EXCEPT !.nRefCount = 1]),
                                                   !.vvNew[slot] = id, !.nNew = k.nNew, !.asserts = TRUE]
        BY <2>2, <2>3 DEF Place, Manager
      <3>2. Place(k, id, slot, k.nNew) = [k EXCEPT !.mapInfo = With(m.mapInfo, id, [info EXCEPT !.nRefCount = 1]),
                                                   !.vvNew[slot] = id]
        BY <2>2, <3>1 DEF Manager
      <3> QED
        BY <1>1, <1>7, <2>1, <3>2, ZenonT(60) DEF Append1, Manager
    <2>5. Placed(k, c, id, slot, k.nNew)
      <3>1. id \in NewIds(k) /\ k.vvNew[slot] = Nobody /\ k.nNew \in Int
        BY <1>1, <1>4, <1>9, <1>12
      <3>2. slot \in NewSlotsOf(k.mapInfo[id].svc) /\ k.mapInfo[id].nRefCount < MaxRefs
        BY <1>3, <1>6, <1>9, LimitAssumption
      <3> QED
        BY <1>3, <1>9, <2>4, <3>1, <3>2, PlacedIs
    <2>6. /\ Core(c) /\ SameEntries(k, c) /\ DOMAIN c.mapInfo = DOMAIN k.mapInfo /\ TriedIds(c) = TriedIds(k)
          /\ c.vvTried = k.vvTried /\ c.nNew = k.nNew /\ c.nTried = k.nTried
          /\ \A x \in DOMAIN k.mapInfo : c.mapInfo[x].succeeded = k.mapInfo[x].succeeded
      BY <2>5 DEF Placed
    <2>7. \A x \in DOMAIN k.mapInfo : Alike(c.mapInfo[x], k.mapInfo[x])
      BY <2>6 DEF Alike, SameEntries
    <2>8. /\ Alike(c.mapInfo[id], was) /\ \A x \in DOMAIN m.mapInfo : Alike(c.mapInfo[x], m.mapInfo[x])
      BY <1>6, <1>9, <2>7 DEF Alike
    <2>9. c.nIdCount = m.nIdCount /\ c.m_tried_collisions = m.m_tried_collisions
      BY <1>9, <2>6 DEF SameEntries
    <2> QED
      BY <1>4, <1>9, <1>12, <2>6, <2>8, <2>9 DEF NewRead
  <1> QED
    BY <1>11, <1>12

-----------------------------------------------------------------------------
Written(a, file) ==
    /\ file.nNew = Cardinality(NewIds(a)) /\ file.nTried = Cardinality(TriedIds(a))
    /\ Len(file.new) = Cardinality(NewIds(a)) /\ Len(file.tried) = Cardinality(TriedIds(a))
    /\ \A n \in 1 .. Cardinality(NewIds(a)) : file.new[n] = Saved(a.mapInfo[Nth(NewIds(a), n)])
    /\ \A n \in 1 .. Cardinality(TriedIds(a)) : file.tried[n] = Saved(a.mapInfo[Nth(TriedIds(a), n)])
    /\ file.vvNew = [s \in NewSlots |-> IF a.vvNew[s] = Nobody THEN Nobody ELSE Before(NewIds(a), a.vvNew[s])]
    /\ file.asserts = TRUE

(* The entries in a list *)
LEMMA ListedIs ==
  ASSUME NEW m, NEW ids, Cardinality(ids) \in Nat, NEW list, list = Listed(m, ids)
  PROVE  /\ Len(list) = Cardinality(ids)
         /\ \A n \in 1 .. Cardinality(ids) : list[n] = Saved(m.mapInfo[Nth(ids, n)])
  <1>1. PICK c \in Nat : c = Cardinality(ids)
    OBVIOUS
  <1>2. list = [n \in 1 .. c |-> Saved(m.mapInfo[Nth(ids, n)])]
    BY <1>1 DEF Listed, Nth
  <1>3. Len(list) = c
    BY <1>2
  <1>4. \A n \in 1 .. c : list[n] = Saved(m.mapInfo[Nth(ids, n)])
    BY <1>2
  <1> QED
    BY <1>1, <1>3, <1>4

(* DumpAddresses writes every entry once, and its assertions hold. *)
LEMMA SerializeIs ==
  ASSUME NEW a, Whole(a), NEW file, file = Serialize(a)
  PROVE  Written(a, file)
  <1>1. /\ Core(a) /\ a \in Manager /\ Loose(a) = {} /\ a.nNew = Cardinality(NewIds(a))
        /\ a.nTried = Cardinality(TriedIds(a)) /\ Cardinality(NewIds(a)) \in Nat /\ Cardinality(TriedIds(a)) \in Nat
    <2>1. Core(a) /\ a \in Manager /\ IsFiniteSet(DOMAIN a.mapInfo) /\ Loose(a) = {} /\ Counts(a, 0, 0)
      BY DEF Whole, Core
    <2>2. Cardinality(NewIds(a)) \in Nat /\ Cardinality(TriedIds(a)) \in Nat
      BY <2>1, Ids
    <2> QED
      BY <2>1, <2>2 DEF Counts
  <1>2. {id \in DOMAIN a.mapInfo : a.mapInfo[id].nRefCount # 0} = NewIds(a)
    <2>1. ASSUME NEW id \in DOMAIN a.mapInfo
          PROVE  a.mapInfo[id].nRefCount # 0 <=> id \in NewIds(a)
      <3>1. CASE id \in NewIds(a)
        BY <1>1, <3>1 DEF Loose
      <3>2. CASE id \notin NewIds(a)
        <4>1. id \in TriedIds(a)
          BY <3>2 DEF NewIds
        <4> QED
          BY <1>1, <3>2, <4>1, TriedNotNew
      <3> QED
        BY <3>1, <3>2
    <2>2. NewIds(a) \subseteq DOMAIN a.mapInfo
      BY DEF NewIds
    <2> QED
      BY <2>1, <2>2
  <1>3. {id \in DOMAIN a.mapInfo : a.mapInfo[id].fInTried} = TriedIds(a)
    BY DEF TriedIds
  <1>5. PICK holds : holds = (Cardinality(NewIds(a)) <= a.nNew /\ Cardinality(TriedIds(a)) <= a.nTried)
    OBVIOUS
  <1>4. file = [nNew |-> a.nNew, nTried |-> a.nTried,
                new |-> Listed(a, NewIds(a)), tried |-> Listed(a, TriedIds(a)),
                vvNew |-> [s \in NewSlots |-> IF a.vvNew[s] = Nobody THEN Nobody
                                              ELSE Before(NewIds(a), a.vvNew[s])],
                asserts |-> holds]
    BY <1>2, <1>3, <1>5 DEF Serialize
  <1>6. file.new = Listed(a, NewIds(a)) /\ file.tried = Listed(a, TriedIds(a))
    BY <1>4
  <1>7. /\ Len(file.new) = Cardinality(NewIds(a))
        /\ \A n \in 1 .. Cardinality(NewIds(a)) : file.new[n] = Saved(a.mapInfo[Nth(NewIds(a), n)])
    BY <1>1, <1>6, ListedIs
  <1>8. /\ Len(file.tried) = Cardinality(TriedIds(a))
        /\ \A n \in 1 .. Cardinality(TriedIds(a)) : file.tried[n] = Saved(a.mapInfo[Nth(TriedIds(a), n)])
    BY <1>1, <1>6, ListedIs
  <1>9. file.nNew = Cardinality(NewIds(a)) /\ file.nTried = Cardinality(TriedIds(a))
    BY <1>1, <1>4
  <1>10. file.vvNew = [s \in NewSlots |-> IF a.vvNew[s] = Nobody THEN Nobody ELSE Before(NewIds(a), a.vvNew[s])]
    BY <1>4
  <1>11. file.asserts = TRUE
    <2>1. holds = TRUE
      <3>1. (Cardinality(NewIds(a)) <= a.nNew /\ Cardinality(TriedIds(a)) <= a.nTried) = TRUE
        BY <1>1
      <3> QED
        BY <1>5, <3>1, Zenon
    <2>2. file.asserts = holds
      BY <1>4
    <2> QED
      BY <2>1, <2>2
  <1> QED
    BY <1>7, <1>8, <1>9, <1>10, <1>11 DEF Written

(* Entries that Serialize numbers have different hosts. *)
LEMMA NumberedHosts ==
  ASSUME NEW a, Core(a), NEW ids \in SUBSET DOMAIN a.mapInfo, NEW i \in 1 .. Cardinality(ids),
         NEW j \in 1 .. Cardinality(ids), Host[a.mapInfo[Nth(ids, i)].svc] = Host[a.mapInfo[Nth(ids, j)].svc]
  PROVE  i = j
  <1>1. IsFiniteSet(DOMAIN a.mapInfo) /\ DOMAIN a.mapInfo \subseteq Nat
    BY Fields DEF Core
  <1>2. ids \in SUBSET Nat /\ IsFiniteSet(ids)
    BY <1>1, FS_Subset
  <1>3. /\ Cardinality(ids) \in Nat
        /\ Nth(ids, i) \in ids /\ Before(ids, Nth(ids, i)) = i - 1
        /\ Nth(ids, j) \in ids /\ Before(ids, Nth(ids, j)) = j - 1
    BY <1>2, NthIs
  <1>4. Nth(ids, i) = Nth(ids, j)
    BY <1>3 DEF Core, HostIndex
  <1> QED
    BY <1>3, <1>4

(* n entries of a's new table have been read. *)
NewsRead(a, m, n, sameBuckets) ==
    /\ Core(m) /\ DOMAIN m.mapInfo = 0 .. n - 1 /\ TriedIds(m) = {}
    /\ \A j \in 0 .. n - 1 : Alike(m.mapInfo[j], a.mapInfo[Nth(NewIds(a), j + 1)])
    /\ m.vvTried = [s \in TriedSlots |-> Nobody]
    /\ sameBuckets => m.vvNew = [s \in NewSlots |-> Nobody]
    /\ m.nNew = Cardinality(NewIds(a)) /\ m.nTried = Cardinality(TriedIds(a)) /\ m.nIdCount = 0
    /\ m.m_tried_collisions = {}

(* Unserialize reads the n-th entry of the new table. *)
LEMMA NewsStepIs ==
  ASSUME NEW a, Whole(a), NEW file, Written(a, file), NEW sameBuckets \in BOOLEAN,
         NEW n \in 1 .. Cardinality(NewIds(a)), NEW m, NewsRead(a, m, n - 1, sameBuckets),
         NEW c, c = NewsStep(file.new, sameBuckets, m, n)
  PROVE  NewsRead(a, c, n, sameBuckets)
  <1>1. PICK ids : ids = NewIds(a)
    OBVIOUS
  <1>2. /\ Core(a) /\ a \in Manager /\ ids \in SUBSET DOMAIN a.mapInfo /\ IsFiniteSet(ids) /\ ids \in SUBSET Nat
    BY <1>1, Ids, Fields DEF Whole, Core
  <1>3. Cardinality(ids) \in Nat /\ n \in Nat /\ n \in 1 .. Cardinality(ids) /\ Nth(ids, n) \in ids
    BY <1>1, <1>2, NthIs
  <1>4. PICK was : was = a.mapInfo[Nth(ids, n)]
    OBVIOUS
  <1>5. was \in InfoType
    BY <1>2, <1>3, <1>4, Fields
  <1>6. c = ReadNew(m, n - 1, Saved(was), sameBuckets)
    BY <1>1, <1>3, <1>4 DEF NewsStep, Written
  <1>7. /\ Core(m) /\ DOMAIN m.mapInfo = 0 .. n - 2 /\ TriedIds(m) = {}
        /\ \A j \in 0 .. n - 2 : Alike(m.mapInfo[j], a.mapInfo[Nth(ids, j + 1)])
    BY <1>1, <1>3 DEF NewsRead
  <1>8. Host[was.svc] \notin DOMAIN m.mapAddr
    <2> SUFFICES ASSUME Host[was.svc] \in DOMAIN m.mapAddr
                 PROVE  FALSE
      OBVIOUS
    <2>1. PICK j : j = m.mapAddr[Host[was.svc]]
      OBVIOUS
    <2>2. j \in DOMAIN m.mapInfo /\ Host[m.mapInfo[j].svc] = Host[was.svc]
      BY <1>7, <2>1 DEF Core, HostIndex
    <2>3. j \in 0 .. n - 2
      BY <1>7, <2>2
    <2>4. m.mapInfo[j].svc = a.mapInfo[Nth(ids, j + 1)].svc
      BY <1>7, <2>3 DEF Alike
    <2>5. j + 1 \in 1 .. Cardinality(ids) /\ j + 1 # n
      BY <1>3, <2>3
    <2> QED
      BY <1>2, <1>3, <1>4, <2>2, <2>4, <2>5, NumberedHosts
  <1>9. n - 1 \in Nat \ DOMAIN m.mapInfo
    BY <1>3, <1>7
  <1>10. NewRead(m, c, n - 1, was, sameBuckets)
    BY <1>5, <1>6, <1>7, <1>8, <1>9, ReadNewIs
  <1>11. DOMAIN c.mapInfo = 0 .. n - 1
    <2>1. DOMAIN c.mapInfo = (0 .. n - 2) \cup {n - 1}
      BY <1>7, <1>10 DEF NewRead
    <2> QED
      BY <1>3, <2>1
  <1>12. ASSUME NEW j \in 0 .. n - 1
         PROVE  Alike(c.mapInfo[j], a.mapInfo[Nth(ids, j + 1)])
    <2>1. CASE j = n - 1
      <3>1. j + 1 = n /\ Alike(c.mapInfo[j], was)
        BY <1>3, <1>10, <2>1 DEF NewRead
      <3> QED
        BY <1>4, <3>1
    <2>2. CASE j # n - 1
      <3>1. j \in 0 .. n - 2
        BY <1>3, <2>2
      <3>2. Alike(c.mapInfo[j], m.mapInfo[j]) /\ Alike(m.mapInfo[j], a.mapInfo[Nth(ids, j + 1)])
        BY <1>7, <1>10, <3>1 DEF NewRead
      <3> QED
        BY <3>2 DEF Alike
    <2> QED
      BY <2>1, <2>2
  <1>13. /\ Core(c) /\ TriedIds(c) = {} /\ c.vvTried = m.vvTried /\ (sameBuckets => c.vvNew = m.vvNew)
         /\ c.nNew = m.nNew /\ c.nTried = m.nTried /\ c.nIdCount = m.nIdCount
         /\ c.m_tried_collisions = m.m_tried_collisions
    BY <1>7, <1>10 DEF NewRead
  <1>14. /\ m.vvTried = [s \in TriedSlots |-> Nobody]
         /\ sameBuckets => m.vvNew = [s \in NewSlots |-> Nobody]
         /\ m.nNew = Cardinality(NewIds(a)) /\ m.nTried = Cardinality(TriedIds(a)) /\ m.nIdCount = 0
         /\ m.m_tried_collisions = {}
    BY DEF NewsRead
  <1> QED
    BY <1>1, <1>11, <1>12, <1>13, <1>14 DEF NewsRead

(* Unserialize reads the entries of the new table. *)
LEMMA ReadNewsIs ==
  ASSUME NEW a, Whole(a), NEW file, Written(a, file), NEW sameBuckets \in BOOLEAN,
         NEW n \in Nat, n = Cardinality(NewIds(a)),
         NEW c, c = ReadNews(Fresh(n, Cardinality(TriedIds(a))), file.new, n, sameBuckets)
  PROVE  NewsRead(a, c, n, sameBuckets)
  <1>1. PICK start : start = Fresh(n, Cardinality(TriedIds(a)))
    OBVIOUS
  <1>2. PICK g : NewsRun(start, file.new, sameBuckets, g, n) /\ c = g[n]
    BY <1>1, NewsRuns
  <1> DEFINE T == {i \in 0 .. n : NewsRead(a, g[i], i, sameBuckets)}
  <1>3. 0 \in T
    <2>1. g[0] = start
      BY <1>2 DEF NewsRun
    <2>2. Cardinality(TriedIds(a)) \in Int
      BY Ids DEF Whole, Core
    <2>3. /\ Core(start) /\ DOMAIN start.mapInfo = {} /\ start.nNew = n /\ start.nTried = Cardinality(TriedIds(a))
          /\ start.m_tried_collisions = {} /\ start.nIdCount = 0
          /\ start.vvTried = [s \in TriedSlots |-> Nobody] /\ start.vvNew = [s \in NewSlots |-> Nobody]
      BY <1>1, <2>2, EmptyCore
    <2>4. 0 .. 0 - 1 = {} /\ TriedIds(start) = {}
      BY <2>3 DEF TriedIds
    <2>5. NewsRead(a, start, 0, sameBuckets)
      BY <2>3, <2>4 DEF NewsRead
    <2> QED
      BY <2>1, <2>5
  <1>4. ASSUME NEW i \in 1 .. n, i - 1 \in T
        PROVE  i \in T
    <2>1. PICK m : m = g[i - 1]
      OBVIOUS
    <2>2. NewsRead(a, m, i - 1, sameBuckets) /\ g[i] = NewsStep(file.new, sameBuckets, m, i)
      BY <1>2, <1>4, <2>1 DEF NewsRun
    <2>3. NewsRead(a, g[i], i, sameBuckets)
      BY <2>2, NewsStepIs
    <2> QED
      BY <2>3
  <1>5. n \in T
    <2> HIDE DEF T
    <2> QED
      BY <1>3, <1>4, UpTo
  <1> QED
    BY <1>2, <1>5

-----------------------------------------------------------------------------
TriedRead(m, c, id, was) ==
    /\ Core(c) /\ DOMAIN c.mapInfo = DOMAIN m.mapInfo \cup {id} /\ TriedIds(c) = TriedIds(m) \cup {id}
    /\ Alike(c.mapInfo[id], was) /\ \A x \in DOMAIN m.mapInfo : Alike(c.mapInfo[x], m.mapInfo[x])
    /\ c.vvNew = m.vvNew /\ c.nNew = m.nNew /\ c.nTried = m.nTried /\ c.nIdCount = id + 1
    /\ c.m_tried_collisions = m.m_tried_collisions

(* Unserialize reads an entry of the tried table. *)
LEMMA ReadTriedIs ==
  ASSUME NEW m, Core(m), NEW id, id = m.nIdCount, id \notin DOMAIN m.mapInfo, NEW was \in InfoType,
         was.succeeded, Host[was.svc] \notin DOMAIN m.mapAddr, m.vvTried[TriedSlot[was.svc]] = Nobody,
         NEW c, c = ReadTried(m, Saved(was))
  PROVE  TriedRead(m, c, id, was)
  <1>1. m \in Manager /\ m.vRandom \in Seq(Nat) /\ id \in Nat /\ m.nNew \in Int /\ m.nTried \in Int
    BY Fields DEF Core
  <1>2. PICK slot : slot = TriedSlot[was.svc]
    OBVIOUS
  <1>3. PICK info : info = [Info(was.svc, was.source, Len(m.vRandom) + 1) EXCEPT !.succeeded = was.succeeded]
    OBVIOUS
  <1>4. /\ info \in InfoType /\ info.nRefCount = 0 /\ ~info.fInTried /\ info.nRandomPos = Len(m.vRandom) + 1
        /\ info.svc = was.svc /\ info.source = was.source /\ info.succeeded = was.succeeded
    <2>1. PICK pos \in Nat : pos = Len(m.vRandom) + 1
      BY <1>1
    <2>2. was.svc \in Services /\ was.source \in Sources /\ was.succeeded \in BOOLEAN
      BY DEF InfoType
    <2>3. info = [svc |-> was.svc, source |-> was.source, nRefCount |-> 0, fInTried |-> FALSE,
                  nRandomPos |-> pos, succeeded |-> was.succeeded]
      BY <1>3, <2>1 DEF Info
    <2>4. info \in InfoType
      BY <2>2, <2>3 DEF InfoType
    <2> QED
      BY <2>1, <2>3, <2>4
  <1>5. PICK k : k = Append1(m, id, info)
    OBVIOUS
  <1>6. Appended(m, k, id, info)
    BY <1>1, <1>4, <1>5, AppendedIs
  <1>7. /\ Core(k) /\ DOMAIN k.mapInfo = DOMAIN m.mapInfo \cup {id} /\ k.mapInfo[id] = info
        /\ \A x \in DOMAIN m.mapInfo : k.mapInfo[x] = m.mapInfo[x]
        /\ id \in Loose(k) /\ TriedIds(k) = TriedIds(m)
        /\ k.vvNew = m.vvNew /\ k.vvTried = m.vvTried /\ k.nNew = m.nNew /\ k.nTried = m.nTried
        /\ k.nIdCount = m.nIdCount /\ k.m_tried_collisions = m.m_tried_collisions
    BY <1>6 DEF Appended, IsWith
  <1>8. PICK t : t = Enter(k, id, slot)
    OBVIOUS
  <1>9. Entered(k, t, id, slot)
    <2>1. slot = TriedSlot[k.mapInfo[id].svc] /\ k.vvTried[slot] = Nobody /\ k.mapInfo[id].succeeded
      BY <1>2, <1>4, <1>7
    <2> QED
      BY <1>7, <1>8, <2>1, EnteredIs
  <1>10. c = SetCounters(t, m.nNew, m.nTried, id + 1)
    <2>1. PICK tried : tried = [info EXCEPT !.fInTried = TRUE]
      OBVIOUS
    <2>2. c = [m EXCEPT !.mapInfo = With(@, id, tried), !.mapAddr = With(@, Host[info.svc], id),
                        !.vRandom = Append(@, id), !.vvTried[slot] = id, !.nIdCount = id + 1]
      <3>1. Saved(was).svc = was.svc /\ Saved(was).source = was.source /\ Saved(was).succeeded = was.succeeded
        BY DEF Saved
      <3>2. c = [m EXCEPT !.mapInfo = With(@, id, [Info(was.svc, was.source, Len(m.vRandom) + 1)
                                                     EXCEPT !.fInTried = TRUE, !.succeeded = was.succeeded]),
                          !.mapAddr = With(@, Host[was.svc], id), !.vRandom = Append(@, id),
                          !.vvTried[slot] = id, !.nIdCount = @ + 1]
        BY <1>2, <3>1 DEF ReadTried
      <3>3. [Info(was.svc, was.source, Len(m.vRandom) + 1) EXCEPT !.fInTried = TRUE, !.succeeded = was.succeeded]
            = tried
        BY <1>3, <2>1 DEF Info
      <3> QED
        BY <1>1, <1>4, <3>2, <3>3
    <2>3. /\ k.mapInfo = With(m.mapInfo, id, info) /\ k \in Manager
          /\ k = [m EXCEPT !.mapInfo = With(@, id, info), !.mapAddr = With(@, Host[info.svc], id),
                           !.vRandom = Append(@, id)]
      <3>1. k \in Manager
        BY <1>7 DEF Core
      <3> QED
        BY <1>1, <1>5, <3>1 DEF Append1, Manager
    <2>4. [k.mapInfo EXCEPT ![id] = tried] = With(m.mapInfo, id, tried)
      BY <2>3, WithAgain
    <2>5. t = [k EXCEPT !.vvTried[slot] = id, !.nTried = @ + 1, !.mapInfo = [k.mapInfo EXCEPT ![id] = tried]]
      BY <1>7, <1>8, <2>1, <2>3 DEF Enter, Manager
    <2>6. t = [k EXCEPT !.vvTried[slot] = id, !.nTried = @ + 1, !.mapInfo = With(m.mapInfo, id, tried)]
      BY <2>4, <2>5
    <2>7. SetCounters(t, m.nNew, m.nTried, id + 1)
          = [k EXCEPT !.vvTried[slot] = id, !.mapInfo = With(m.mapInfo, id, tried),
                      !.nNew = m.nNew, !.nTried = m.nTried, !.nIdCount = id + 1]
      BY <2>3, <2>6, ZenonT(60) DEF SetCounters, Manager
    <2>8. [k EXCEPT !.vvTried[slot] = id, !.mapInfo = With(m.mapInfo, id, tried),
                    !.nNew = m.nNew, !.nTried = m.nTried, !.nIdCount = id + 1]
          = [m EXCEPT !.mapInfo = With(@, id, tried), !.mapAddr = With(@, Host[info.svc], id),
                      !.vRandom = Append(@, id), !.vvTried[slot] = id, !.nIdCount = id + 1]
      BY <1>1, <2>3 DEF Manager
    <2> QED
      BY <2>2, <2>7, <2>8
  <1>11. SameTables(t, c) /\ c.nNew = m.nNew /\ c.nTried = m.nTried /\ c.nIdCount = id + 1
    <2>1. Core(t) /\ id + 1 \in Nat
      BY <1>1, <1>9 DEF Entered
    <2> QED
      BY <1>1, <1>10, <2>1, CountersSet
  <1>12. \A x \in DOMAIN k.mapInfo : Alike(t.mapInfo[x], k.mapInfo[x])
    BY <1>9 DEF Entered, SameEntries, Alike
  <1>13. /\ Alike(t.mapInfo[id], was) /\ \A x \in DOMAIN m.mapInfo : Alike(t.mapInfo[x], m.mapInfo[x])
    BY <1>4, <1>7, <1>12, ZenonT(60) DEF Alike
  <1>14. /\ DOMAIN t.mapInfo = DOMAIN m.mapInfo \cup {id} /\ TriedIds(t) = TriedIds(m) \cup {id}
         /\ t.vvNew = m.vvNew /\ t.m_tried_collisions = m.m_tried_collisions
    BY <1>7, <1>9 DEF Entered, SameEntries
  <1> QED
    BY <1>11, <1>13, <1>14 DEF TriedRead, SameTables

(* After the entries of a's new table, n of its tried table have been      *)
(* read.                                                                   *)
TriedsRead(a, vvNew, m, n) ==
    LET new == Cardinality(NewIds(a))
    IN  /\ Core(m) /\ DOMAIN m.mapInfo = 0 .. new + n - 1 /\ TriedIds(m) = new .. new + n - 1
        /\ \A j \in 0 .. new - 1 : Alike(m.mapInfo[j], a.mapInfo[Nth(NewIds(a), j + 1)])
        /\ \A j \in 0 .. n - 1 : Alike(m.mapInfo[new + j], a.mapInfo[Nth(TriedIds(a), j + 1)])
        /\ m.vvNew = vvNew /\ m.nNew = new /\ m.nTried = Cardinality(TriedIds(a)) /\ m.nIdCount = new + n
        /\ m.m_tried_collisions = {}

(* Unserialize reads the n-th entry of the tried table: its position is    *)
(* free, as it was its own.                                                *)
LEMMA TriedsStepIs ==
  ASSUME NEW a, Whole(a), NEW file, Written(a, file), NEW vvNew,
         NEW n \in 1 .. Cardinality(TriedIds(a)), NEW m, TriedsRead(a, vvNew, m, n - 1),
         NEW c, c = TriedsStep(file.tried, m, n)
  PROVE  TriedsRead(a, vvNew, c, n)
  <1>1. PICK ids : ids = TriedIds(a)
    OBVIOUS
  <1>2. PICK new : new = Cardinality(NewIds(a))
    OBVIOUS
  <1>3. /\ Core(a) /\ a \in Manager /\ ids \in SUBSET DOMAIN a.mapInfo /\ IsFiniteSet(ids) /\ ids \in SUBSET Nat
        /\ new \in Nat /\ NewIds(a) \in SUBSET DOMAIN a.mapInfo /\ IsFiniteSet(NewIds(a)) /\ NewIds(a) \in SUBSET Nat
    BY <1>1, <1>2, Ids, Fields DEF Whole, Core
  <1>4. /\ Cardinality(ids) \in Nat /\ n \in Nat /\ n \in 1 .. Cardinality(ids)
        /\ Nth(ids, n) \in ids /\ Before(ids, Nth(ids, n)) = n - 1
    BY <1>1, <1>3, NthIs
  <1>5. PICK was : was = a.mapInfo[Nth(ids, n)]
    OBVIOUS
  <1>6. was \in InfoType /\ was.succeeded /\ a.vvTried[TriedSlot[was.svc]] = Nth(ids, n)
    <2>1. was \in InfoType
      BY <1>3, <1>4, <1>5, Fields
    <2>2. was.succeeded /\ a.vvTried[TriedSlot[was.svc]] = Nth(ids, n)
      BY <1>1, <1>3, <1>4, <1>5 DEF Core, TriedTable
    <2> QED
      BY <2>1, <2>2
  <1>7. c = ReadTried(m, Saved(was))
    BY <1>1, <1>4, <1>5 DEF TriedsStep, Written
  <1>8. PICK id : id = new + (n - 1)
    OBVIOUS
  <1>9. /\ Core(m) /\ DOMAIN m.mapInfo = 0 .. id - 1 /\ TriedIds(m) = new .. id - 1
        /\ \A j \in 0 .. new - 1 : Alike(m.mapInfo[j], a.mapInfo[Nth(NewIds(a), j + 1)])
        /\ \A j \in 0 .. n - 2 : Alike(m.mapInfo[new + j], a.mapInfo[Nth(ids, j + 1)])
        /\ m.nIdCount = id
    <2>1. n - 1 - 1 = n - 2 /\ new + (n - 1) - 1 = id - 1
      BY <1>3, <1>4, <1>8
    <2> QED
      BY <1>1, <1>2, <1>8, <2>1 DEF TriedsRead
  <1>10. id \in Nat /\ id \notin DOMAIN m.mapInfo
    BY <1>3, <1>4, <1>8, <1>9
  <1>11. ASSUME NEW x \in DOMAIN m.mapInfo
         PROVE  \/ /\ x \in 0 .. new - 1 /\ x + 1 \in 1 .. Cardinality(NewIds(a))
                   /\ m.mapInfo[x].svc = a.mapInfo[Nth(NewIds(a), x + 1)].svc
                \/ /\ x - new \in 0 .. n - 2 /\ x \in TriedIds(m) /\ x - new + 1 \in 1 .. Cardinality(ids)
                   /\ m.mapInfo[x].svc = a.mapInfo[Nth(ids, x - new + 1)].svc
    <2>1. x \in 0 .. id - 1
      BY <1>9
    <2>2. CASE x \in 0 .. new - 1
      <3>1. x + 1 \in 1 .. Cardinality(NewIds(a))
        BY <1>2, <1>3, <2>2
      <3>2. m.mapInfo[x].svc = a.mapInfo[Nth(NewIds(a), x + 1)].svc
        BY <1>9, <2>2 DEF Alike
      <3> QED
        BY <2>2, <3>1, <3>2
    <2>3. CASE x \notin 0 .. new - 1
      <3>1. PICK j : j = x - new
        OBVIOUS
      <3>2. j \in 0 .. n - 2 /\ x = new + j /\ x \in new .. id - 1 /\ j + 1 \in 1 .. Cardinality(ids)
        BY <1>3, <1>4, <1>8, <2>1, <2>3, <3>1
      <3>3. m.mapInfo[new + j].svc = a.mapInfo[Nth(ids, j + 1)].svc
        BY <1>9, <3>2 DEF Alike
      <3> QED
        BY <1>9, <3>1, <3>2, <3>3
    <2> QED
      BY <2>2, <2>3
  <1>12. Host[was.svc] \notin DOMAIN m.mapAddr
    <2> SUFFICES ASSUME Host[was.svc] \in DOMAIN m.mapAddr
                 PROVE  FALSE
      OBVIOUS
    <2>1. PICK x : x = m.mapAddr[Host[was.svc]]
      OBVIOUS
    <2>2. x \in DOMAIN m.mapInfo /\ Host[m.mapInfo[x].svc] = Host[was.svc]
      BY <1>9, <2>1 DEF Core, HostIndex
    <2>3. CASE /\ x \in 0 .. new - 1 /\ x + 1 \in 1 .. Cardinality(NewIds(a))
               /\ m.mapInfo[x].svc = a.mapInfo[Nth(NewIds(a), x + 1)].svc
      <3>1. PICK y : y = Nth(NewIds(a), x + 1)
        OBVIOUS
      <3>2. y \in NewIds(a)
        BY <1>3, <2>3, <3>1, NthIs
      <3>3. y # Nth(ids, n)
        BY <1>1, <1>4, <3>2 DEF NewIds
      <3>4. Host[a.mapInfo[y].svc] = Host[a.mapInfo[Nth(ids, n)].svc]
        BY <1>5, <2>2, <2>3, <3>1
      <3>5. y \in DOMAIN a.mapInfo /\ Nth(ids, n) \in DOMAIN a.mapInfo
        BY <1>3, <1>4, <3>2
      <3> QED
        BY <1>3, <3>3, <3>4, <3>5 DEF Core, HostIndex
    <2>4. CASE /\ x - new \in 0 .. n - 2 /\ x - new + 1 \in 1 .. Cardinality(ids)
               /\ m.mapInfo[x].svc = a.mapInfo[Nth(ids, x - new + 1)].svc
      <3>1. PICK j : j = x - new + 1
        OBVIOUS
      <3>2. j \in 1 .. Cardinality(ids) /\ j # n /\ Host[a.mapInfo[Nth(ids, j)].svc] = Host[a.mapInfo[Nth(ids, n)].svc]
        BY <1>4, <1>5, <2>2, <2>4, <3>1
      <3> QED
        BY <1>3, <1>4, <3>2, NumberedHosts
    <2> QED
      BY <1>11, <2>2, <2>3, <2>4
  <1>13. m.vvTried[TriedSlot[was.svc]] = Nobody
    <2> SUFFICES ASSUME m.vvTried[TriedSlot[was.svc]] # Nobody
                 PROVE  FALSE
      OBVIOUS
    <2>1. PICK slot : slot = TriedSlot[was.svc]
      OBVIOUS
    <2>2. PICK x : x = m.vvTried[slot]
      OBVIOUS
    <2>3. slot \in TriedSlots
      BY <1>6, <2>1, Places DEF InfoType
    <2>4. x \in TriedIds(m) /\ TriedSlot[m.mapInfo[x].svc] = slot
      BY <1>9, <2>1, <2>2, <2>3 DEF Core, TriedTable
    <2>5. x \in DOMAIN m.mapInfo /\ x \notin 0 .. new - 1
      <3>1. x \in new .. id - 1
        BY <1>9, <2>4
      <3> QED
        BY <1>3, <1>9, <1>10, <3>1
    <2>6. PICK j : j = x - new + 1
      OBVIOUS
    <2>7. j \in 1 .. Cardinality(ids) /\ j # n /\ m.mapInfo[x].svc = a.mapInfo[Nth(ids, j)].svc
      <3>1. /\ x - new \in 0 .. n - 2 /\ x - new + 1 \in 1 .. Cardinality(ids)
            /\ m.mapInfo[x].svc = a.mapInfo[Nth(ids, x - new + 1)].svc
        BY <1>11, <2>5
      <3> QED
        BY <1>4, <2>6, <3>1
    <2>8. Nth(ids, j) \in ids /\ Before(ids, Nth(ids, j)) = j - 1
      BY <1>3, <2>7, NthIs
    <2>9. a.vvTried[TriedSlot[a.mapInfo[Nth(ids, j)].svc]] = Nth(ids, j)
      BY <1>1, <1>3, <2>8 DEF Core, TriedTable
    <2>10. Nth(ids, j) = Nth(ids, n)
      BY <1>6, <2>1, <2>4, <2>7, <2>9
    <2> QED
      BY <1>4, <2>7, <2>8, <2>10
  <1>14. TriedRead(m, c, id, was)
    BY <1>6, <1>7, <1>9, <1>10, <1>12, <1>13, ReadTriedIs
  <1>15. DOMAIN c.mapInfo = 0 .. new + n - 1 /\ TriedIds(c) = new .. new + n - 1
    <2>1. DOMAIN c.mapInfo = (0 .. id - 1) \cup {id} /\ TriedIds(c) = (new .. id - 1) \cup {id}
      BY <1>9, <1>14 DEF TriedRead
    <2>2. new + n - 1 = id /\ (0 .. id - 1) \cup {id} = 0 .. id /\ (new .. id - 1) \cup {id} = new .. id
      BY <1>3, <1>4, <1>8, <1>10
    <2> QED
      BY <2>1, <2>2
  <1>16. ASSUME NEW j \in 0 .. new - 1
         PROVE  Alike(c.mapInfo[j], a.mapInfo[Nth(NewIds(a), j + 1)])
    <2>1. j \in DOMAIN m.mapInfo
      BY <1>3, <1>4, <1>8, <1>9
    <2>2. Alike(c.mapInfo[j], m.mapInfo[j]) /\ Alike(m.mapInfo[j], a.mapInfo[Nth(NewIds(a), j + 1)])
      BY <1>9, <1>14, <2>1 DEF TriedRead
    <2> QED
      BY <2>2 DEF Alike
  <1>17. ASSUME NEW j \in 0 .. n - 1
         PROVE  Alike(c.mapInfo[new + j], a.mapInfo[Nth(ids, j + 1)])
    <2>1. CASE j = n - 1
      <3>1. j + 1 = n /\ new + j = id
        BY <1>3, <1>4, <1>8, <2>1
      <3>2. Alike(c.mapInfo[id], was)
        BY <1>14 DEF TriedRead
      <3> QED
        BY <1>5, <3>1, <3>2
    <2>2. CASE j # n - 1
      <3>1. j \in 0 .. n - 2 /\ new + j \in DOMAIN m.mapInfo
        BY <1>3, <1>4, <1>8, <1>9, <2>2
      <3>2. Alike(c.mapInfo[new + j], m.mapInfo[new + j]) /\ Alike(m.mapInfo[new + j], a.mapInfo[Nth(ids, j + 1)])
        BY <1>9, <1>14, <3>1 DEF TriedRead
      <3> QED
        BY <3>2 DEF Alike
    <2> QED
      BY <2>1, <2>2
  <1>18. /\ Core(c) /\ c.vvNew = m.vvNew /\ c.nNew = m.nNew /\ c.nTried = m.nTried /\ c.nIdCount = id + 1
         /\ c.m_tried_collisions = m.m_tried_collisions
    BY <1>14 DEF TriedRead
  <1>19. id + 1 = new + n
    BY <1>3, <1>4, <1>8
  <1>20. m.vvNew = vvNew /\ m.nNew = new /\ m.nTried = Cardinality(TriedIds(a)) /\ m.m_tried_collisions = {}
    BY <1>2 DEF TriedsRead
  <1> QED
    BY <1>1, <1>2, <1>15, <1>16, <1>17, <1>18, <1>19, <1>20 DEF TriedsRead

(* Unserialize reads the entries of the tried table. *)
LEMMA ReadTriedsIs ==
  ASSUME NEW a, Whole(a), NEW file, Written(a, file), NEW sameBuckets \in BOOLEAN,
         NEW new \in Nat, new = Cardinality(NewIds(a)), NEW n \in Nat, n = Cardinality(TriedIds(a)),
         NEW m, NewsRead(a, m, new, sameBuckets),
         NEW c, c = ReadTrieds([m EXCEPT !.nIdCount = new], file.tried, n)
  PROVE  TriedsRead(a, m.vvNew, c, n)
  <1>1. PICK start : start = [m EXCEPT !.nIdCount = new]
    OBVIOUS
  <1>2. PICK g : TriedsRun(start, file.tried, g, n) /\ c = g[n]
    BY <1>1, TriedsRuns
  <1>3. PICK vvNew : vvNew = m.vvNew
    OBVIOUS
  <1> DEFINE T == {i \in 0 .. n : TriedsRead(a, vvNew, g[i], i)}
  <1>4. 0 \in T
    <2>1. g[0] = start
      BY <1>2 DEF TriedsRun
    <2>2. /\ Core(m) /\ m \in Manager /\ m.nNew = new /\ m.nTried = n /\ m.m_tried_collisions = {}
          /\ DOMAIN m.mapInfo = 0 .. new - 1 /\ TriedIds(m) = {}
          /\ \A j \in 0 .. new - 1 : Alike(m.mapInfo[j], a.mapInfo[Nth(NewIds(a), j + 1)])
      BY DEF NewsRead, Core
    <2>3. start = SetCounters(m, new, n, new)
      BY <1>1, <2>2 DEF SetCounters, Manager
    <2>4. SameTables(m, start) /\ start.nNew = new /\ start.nTried = n /\ start.nIdCount = new
      BY <2>2, <2>3, CountersSet
    <2>5. 0 .. 0 - 1 = {} /\ new .. new + 0 - 1 = {} /\ 0 .. new + 0 - 1 = 0 .. new - 1 /\ new + 0 = new
      OBVIOUS
    <2>6. /\ Core(start) /\ start.mapInfo = m.mapInfo /\ start.vvNew = vvNew /\ TriedIds(start) = {}
          /\ start.m_tried_collisions = {}
      BY <1>3, <2>2, <2>4 DEF SameTables
    <2>7. TriedsRead(a, vvNew, start, 0)
      BY <2>2, <2>4, <2>5, <2>6 DEF TriedsRead
    <2> QED
      BY <2>1, <2>7
  <1>5. ASSUME NEW i \in 1 .. n, i - 1 \in T
        PROVE  i \in T
    <2>1. PICK k : k = g[i - 1]
      OBVIOUS
    <2>2. TriedsRead(a, vvNew, k, i - 1) /\ g[i] = TriedsStep(file.tried, k, i)
      BY <1>2, <1>5, <2>1 DEF TriedsRun
    <2>3. TriedsRead(a, vvNew, g[i], i)
      BY <2>2, TriedsStepIs
    <2> QED
      BY <2>3
  <1>6. n \in T
    <2> HIDE DEF T
    <2> QED
      BY <1>4, <1>5, UpTo
  <1> QED
    BY <1>2, <1>3, <1>6

(* Whole but for entries of the new table that have no position *)
Readable(m) == Core(m) /\ Counts(m, 0, 0) /\ Below(m, m.nIdCount) /\ m.m_tried_collisions = {}

(* When all entries have been read, the counters of the file are right. *)
LEMMA ReadIsReadable ==
  ASSUME NEW a, Whole(a), NEW vvNew, NEW n, n = Cardinality(TriedIds(a)), NEW m, TriedsRead(a, vvNew, m, n)
  PROVE  Readable(m) /\ NewIds(m) = 0 .. Cardinality(NewIds(a)) - 1
  <1>1. PICK new \in Nat : new = Cardinality(NewIds(a))
    BY Ids DEF Whole, Core
  <1>2. n \in Nat
    BY Ids DEF Whole, Core
  <1>3. /\ Core(m) /\ DOMAIN m.mapInfo = 0 .. new + n - 1 /\ TriedIds(m) = new .. new + n - 1
        /\ m.nNew = new /\ m.nTried = n /\ m.nIdCount = new + n /\ m.m_tried_collisions = {}
    BY <1>1 DEF TriedsRead
  <1>4. NewIds(m) = 0 .. new - 1
    <2>1. NewIds(m) = (0 .. new + n - 1) \ (new .. new + n - 1)
      BY <1>3 DEF NewIds
    <2> QED
      BY <1>2, <2>1
  <1>5. Cardinality(0 .. new - 1) = new /\ Cardinality(new .. new + n - 1) = n
    <2>1. 0 \in Int /\ new \in Int /\ new - 1 \in Int /\ new + n - 1 \in Int
      BY <1>2
    <2>2. Cardinality(0 .. new - 1) = IF 0 > new - 1 THEN 0 ELSE new - 1 - 0 + 1
      BY <2>1, FS_Interval
    <2>3. PICK last \in Int : last = new + n - 1
      BY <2>1
    <2>4. Cardinality(new .. last) = IF new > last THEN 0 ELSE last - new + 1
      BY <2>1, FS_Interval
    <2>5. Cardinality(0 .. new - 1) = new
      BY <2>2
    <2>6. Cardinality(new .. last) = n
      BY <1>2, <2>3, <2>4
    <2> QED
      BY <2>3, <2>5, <2>6
  <1>6. Counts(m, 0, 0)
    BY <1>2, <1>3, <1>4, <1>5 DEF Counts
  <1>7. Below(m, m.nIdCount)
    BY <1>2, <1>3 DEF Below
  <1> QED
    BY <1>1, <1>3, <1>4, <1>6, <1>7 DEF Readable

-----------------------------------------------------------------------------
Pruned(m, n, i) == Readable(m) /\ m.nIdCount = n /\ \A id \in Loose(m) : id >= i

(* Entries of the new table that have no position are dropped. *)
LEMMA PruneIs ==
  ASSUME NEW start, Readable(start), NEW n, n = start.nIdCount, NEW c, c = PruneUnreferenced(start, n)
  PROVE  Whole(c) /\ c.nIdCount = n
  <1>1. n \in Nat
    BY Fields DEF Readable, Core
  <1>2. PICK g : PruneRun(start, g, n) /\ c = g[n]
    BY <1>1, PruneRuns
  <1>3. \A m : Readable(m) => Loose(m) \subseteq NewIds(m) /\ NewIds(m) \subseteq DOMAIN m.mapInfo /\ DOMAIN m.mapInfo \subseteq Nat
    BY Fields DEF Readable, Core, Loose, NewIds
  <1> DEFINE T == {i \in 0 .. n : Pruned(g[i], n, i)}
  <1>4. 0 \in T
    <2>1. g[0] = start
      BY <1>2 DEF PruneRun
    <2>2. \A id \in Loose(start) : id >= 0
      BY <1>3
    <2>3. Pruned(start, n, 0)
      BY <2>2 DEF Pruned
    <2> QED
      BY <1>1, <2>1, <2>3
  <1>5. ASSUME NEW i \in 1 .. n, i - 1 \in T
        PROVE  i \in T
    <2>1. PICK m : m = g[i - 1]
      OBVIOUS
    <2>2. Pruned(m, n, i - 1) /\ g[i] = PruneStep(m, i)
      BY <1>2, <1>5, <2>1 DEF PruneRun
    <2>3. PICK d : d = g[i]
      OBVIOUS
    <2>4. PICK id : id = i - 1
      OBVIOUS
    <2>5. Readable(m) /\ m.nIdCount = n /\ \A x \in Loose(m) : x >= id
      BY <2>2, <2>4 DEF Pruned
    <2>6. IsUnreferenced(m, id) <=> id \in Loose(m)
      BY DEF IsUnreferenced, Loose, NewIds, TriedIds
    <2>7. d = IF IsUnreferenced(m, id) THEN Delete(m, id) ELSE m
      BY <2>2, <2>3, <2>4 DEF PruneStep
    <2>8. \A x \in Loose(m) \ {id} : x >= i
      BY <1>3, <2>4, <2>5
    <2>9. CASE id \in Loose(m)
      <3>1. d = Delete(m, id) /\ Core(m) /\ id \in NewIds(m)
        BY <2>5, <2>6, <2>7, <2>9 DEF Readable, Loose
      <3>2. Deleted(m, d, id)
        BY <2>9, <3>1, DeleteIs
      <3>3. /\ Core(d) /\ TriedIds(d) = TriedIds(m) /\ Loose(d) = Loose(m) \ {id}
            /\ \A new, tried \in Int : Counts(m, new, tried) => Counts(d, new, tried)
        BY <2>9, <3>1, DeleteKeeps
      <3>4. /\ DOMAIN d.mapInfo \subseteq DOMAIN m.mapInfo /\ d.nIdCount = m.nIdCount
            /\ d.m_tried_collisions = m.m_tried_collisions
        BY <3>2 DEF Deleted
      <3>5. Counts(d, 0, 0)
        BY <2>5, <3>3 DEF Readable
      <3>6. Below(d, d.nIdCount)
        BY <2>5, <3>4 DEF Readable, Below
      <3>7. Readable(d)
        BY <2>5, <3>3, <3>4, <3>5, <3>6 DEF Readable
      <3>8. Pruned(d, n, i)
        BY <2>5, <2>8, <3>3, <3>4, <3>7 DEF Pruned
      <3> QED
        BY <2>3, <3>8
    <2>10. CASE id \notin Loose(m)
      <3>1. Pruned(d, n, i)
        BY <2>5, <2>6, <2>7, <2>8, <2>10 DEF Pruned
      <3> QED
        BY <2>3, <3>1
    <2> QED
      BY <2>9, <2>10
  <1>6. n \in T
    <2> HIDE DEF T
    <2> QED
      BY <1>1, <1>4, <1>5, UpTo
  <1>7. Readable(c) /\ c.nIdCount = n /\ \A id \in Loose(c) : id >= n
    BY <1>2, <1>6 DEF Pruned
  <1>8. Loose(c) = {}
    <2>1. \A id \in Loose(c) : id < n /\ id \in Nat
      BY <1>3, <1>7 DEF Readable, Below
    <2> QED
      BY <1>1, <1>7, <2>1
  <1>9. Real(c)
    BY <1>7 DEF Real, Readable
  <1> QED
    BY <1>7, <1>8, <1>9 DEF Whole, Readable

(* If all have a position, none is dropped. *)
LEMMA PruneNone ==
  ASSUME NEW start, Loose(start) = {}, NEW n \in Nat, NEW c, c = PruneUnreferenced(start, n)
  PROVE  c = start
  <1>1. PICK g : PruneRun(start, g, n) /\ c = g[n]
    BY PruneRuns
  <1>2. \A id : ~IsUnreferenced(start, id)
    BY DEF IsUnreferenced, Loose, NewIds, TriedIds
  <1> DEFINE T == {i \in 0 .. n : g[i] = start}
  <1>3. 0 \in T
    BY <1>1 DEF PruneRun
  <1>4. \A i \in 1 .. n : i - 1 \in T => i \in T
    BY <1>1, <1>2 DEF PruneRun, PruneStep
  <1>5. n \in T
    <2> HIDE DEF T
    <2> QED
      BY <1>3, <1>4, UpTo
  <1> QED
    BY <1>1, <1>5

-----------------------------------------------------------------------------
(* Two positions in one bucket that one service leads to are the same. *)
LEMMA OnePlace ==
  ASSUME NEW svc, NEW s \in NewSlots, NEW r \in NewSlots, r \in NewSlotsOf(svc), r[1] = s[1],
         NewPosition[<<svc, s[1]>>] = s[2]
  PROVE  r = s
  <1>1. PICK b \in Buckets : r = <<b, NewPosition[<<svc, b>>]>>
    BY DEF NewSlotsOf
  <1>2. PICK b2 \in Buckets, p2 \in Positions : s = <<b2, p2>>
    BY DEF NewSlots
  <1> QED
    BY <1>1, <1>2

(* A position of the new table is where its bucket and its service say. *)
LEMMA OwnPlace ==
  ASSUME NEW svc, NEW s \in NewSlots, s \in NewSlotsOf(svc)
  PROVE  NewPosition[<<svc, s[1]>>] = s[2]
  <1>1. PICK b \in Buckets : s = <<b, NewPosition[<<svc, b>>]>>
    BY DEF NewSlotsOf
  <1> QED
    BY <1>1

(* The numbers in a file stand for the entries they were written for. *)
LEMMA FiledIs ==
  ASSUME NEW a, Whole(a), NEW file, Written(a, file), NEW vvNew,
         NEW n, n = Cardinality(TriedIds(a)), NEW m, TriedsRead(a, vvNew, m, n), NEW s \in NewSlots,
         a.vvNew[s] # Nobody
  PROVE  /\ file.vvNew[s] \in NewIds(m) /\ Nth(NewIds(a), file.vvNew[s] + 1) = a.vvNew[s] /\ a.vvNew[s] \in NewIds(a)
         /\ m.mapInfo[file.vvNew[s]].svc = a.mapInfo[a.vvNew[s]].svc /\ s \in NewSlotsOf(m.mapInfo[file.vvNew[s]].svc)
  <1>1. PICK ids : ids = NewIds(a)
    OBVIOUS
  <1>2. Core(a) /\ IsFiniteSet(ids) /\ ids \in SUBSET Nat
    BY <1>1, Ids, Fields DEF Whole, Core
  <1>3. PICK id : id = a.vvNew[s]
    OBVIOUS
  <1>4. id \in ids /\ s \in NewSlotsOf(a.mapInfo[id].svc)
    BY <1>1, <1>2, <1>3 DEF Core, NewTable
  <1>5. PICK j : j = Before(ids, id)
    OBVIOUS
  <1>6. file.vvNew[s] = j
    BY <1>1, <1>3, <1>5 DEF Written
  <1>7. Cardinality(ids) \in Nat /\ j + 1 \in 1 .. Cardinality(ids) /\ Nth(ids, j + 1) = id /\ j \in 0 .. Cardinality(ids) - 1
    <2>1. Cardinality(ids) \in Nat /\ j + 1 \in 1 .. Cardinality(ids) /\ Nth(ids, j + 1) = id
      BY <1>2, <1>4, <1>5, NthIs
    <2>2. j \in 0 .. Cardinality(ids) - 1
      BY <1>2, <1>4, <1>5, BeforeIs
    <2> QED
      BY <2>1, <2>2
  <1>8. j \in NewIds(m) /\ m.mapInfo[j].svc = a.mapInfo[id].svc
    <2>1. NewIds(m) = 0 .. Cardinality(ids) - 1
      BY <1>1, ReadIsReadable
    <2>2. Alike(m.mapInfo[j], a.mapInfo[Nth(ids, j + 1)])
      BY <1>1, <1>7 DEF TriedsRead
    <2> QED
      BY <1>7, <2>1, <2>2 DEF Alike
  <1> QED
    BY <1>1, <1>3, <1>4, <1>6, <1>7, <1>8

(* The entries of a bucket in the file that lead to position s *)
Found(vvNew, m, s) ==
    {j \in {vvNew[r] : r \in {r \in NewSlots : r[1] = s[1]}} \ {Nobody} :
        NewPosition[<<m.mapInfo[j].svc, s[1]>>] = s[2]}

(* The positions that ReadPositions computes are those of the file. *)
LEMMA PositionsFound ==
  ASSUME NEW a, Whole(a), NEW file, Written(a, file), NEW vvNew,
         NEW n, n = Cardinality(TriedIds(a)), NEW m, TriedsRead(a, vvNew, m, n), NEW s \in NewSlots,
         NEW found, found = Found(file.vvNew, m, s)
  PROVE  (IF found = {} THEN Nobody ELSE CHOOSE j \in found : TRUE) = file.vvNew[s]
  <1>1. \A r \in NewSlots : file.vvNew[r] = Nobody <=> a.vvNew[r] = Nobody
    <2> SUFFICES ASSUME NEW r \in NewSlots
                 PROVE  file.vvNew[r] = Nobody <=> a.vvNew[r] = Nobody
      OBVIOUS
    <2>1. CASE a.vvNew[r] = Nobody
      BY <2>1 DEF Written
    <2>2. CASE a.vvNew[r] # Nobody
      <3>1. file.vvNew[r] \in NewIds(m) /\ Core(m)
        BY <2>2, FiledIs DEF TriedsRead
      <3>2. Nobody \notin NewIds(m)
        BY <3>1, Ids DEF Core
      <3> QED
        BY <2>2, <3>1, <3>2
    <2> QED
      BY <2>1, <2>2
  <1>2. ASSUME NEW j \in found
        PROVE  j = file.vvNew[s] /\ j # Nobody
    <2>1. PICK r \in NewSlots : r[1] = s[1] /\ j = file.vvNew[r] /\ j # Nobody
      BY DEF Found
    <2>2. NewPosition[<<m.mapInfo[j].svc, s[1]>>] = s[2]
      BY DEF Found
    <2>3. r \in NewSlotsOf(m.mapInfo[j].svc)
      BY <1>1, <2>1, FiledIs
    <2>4. r = s
      BY <2>1, <2>2, <2>3, OnePlace
    <2> QED
      BY <2>1, <2>4
  <1>3. CASE a.vvNew[s] = Nobody
    <2>1. file.vvNew[s] = Nobody
      BY <1>1, <1>3
    <2>2. found = {}
      BY <1>2, <2>1
    <2> QED
      BY <2>1, <2>2
  <1>4. CASE a.vvNew[s] # Nobody
    <2>1. file.vvNew[s] # Nobody /\ s \in NewSlotsOf(m.mapInfo[file.vvNew[s]].svc)
      BY <1>1, <1>4, FiledIs
    <2>2. NewPosition[<<m.mapInfo[file.vvNew[s]].svc, s[1]>>] = s[2]
      BY <2>1, OwnPlace
    <2>3. file.vvNew[s] \in found
      BY <2>1, <2>2 DEF Found
    <2>4. found # {} /\ (CHOOSE j \in found : TRUE) \in found
      BY <2>3
    <2> QED
      BY <1>2, <2>4
  <1> QED
    BY <1>3, <1>4

Positioned(m, c, vvNew) ==
    /\ c \in Manager /\ c.vvNew = vvNew /\ DOMAIN c.mapInfo = DOMAIN m.mapInfo
    /\ \A x \in DOMAIN m.mapInfo :
          /\ Alike(c.mapInfo[x], m.mapInfo[x]) /\ c.mapInfo[x].fInTried = m.mapInfo[x].fInTried
          /\ c.mapInfo[x].nRandomPos = m.mapInfo[x].nRandomPos
          /\ c.mapInfo[x].nRefCount = Cardinality({s \in NewSlots : vvNew[s] = x})
    /\ c.mapAddr = m.mapAddr /\ c.vRandom = m.vRandom /\ c.vvTried = m.vvTried /\ c.nNew = m.nNew
    /\ c.nTried = m.nTried /\ c.nIdCount = m.nIdCount /\ c.m_tried_collisions = m.m_tried_collisions
    /\ c.asserts = m.asserts

(* The positions of a table are put into a manager. *)
LEMMA PositionedIs ==
  ASSUME NEW m \in Manager, NEW vvNew \in [NewSlots -> Int],
         \A x \in DOMAIN m.mapInfo : Cardinality({s \in NewSlots : vvNew[s] = x}) \in Nat,
         NEW c, c = [m EXCEPT !.vvNew = vvNew,
                              !.mapInfo = [id \in DOMAIN @ |->
                                  [@[id] EXCEPT !.nRefCount = Cardinality({s \in NewSlots : vvNew[s] = id})]]]
  PROVE  Positioned(m, c, vvNew)
  <1> DEFINE count(id) == Cardinality({s \in NewSlots : vvNew[s] = id})
  <1>1. PICK infos : infos = [id \in DOMAIN m.mapInfo |-> [m.mapInfo[id] EXCEPT !.nRefCount = count(id)]]
    OBVIOUS
  <1>2. c = [m EXCEPT !.vvNew = vvNew, !.mapInfo = infos]
    BY <1>1 DEF Manager
  <1>3. /\ c.vvNew = vvNew /\ c.mapInfo = infos
        /\ c.mapAddr = m.mapAddr /\ c.vRandom = m.vRandom /\ c.vvTried = m.vvTried /\ c.nNew = m.nNew
        /\ c.nTried = m.nTried /\ c.nIdCount = m.nIdCount /\ c.m_tried_collisions = m.m_tried_collisions
        /\ c.asserts = m.asserts
    BY <1>2 DEF Manager
  <1>4. \A x \in DOMAIN m.mapInfo : count(x) \in Nat
    OBVIOUS
  <1> HIDE DEF count
  <1>5. DOMAIN infos = DOMAIN m.mapInfo /\ infos = [x \in DOMAIN infos |-> infos[x]]
    BY <1>1
  <1>6. ASSUME NEW x \in DOMAIN m.mapInfo
        PROVE  /\ infos[x] \in InfoType /\ infos[x].svc = m.mapInfo[x].svc /\ infos[x].source = m.mapInfo[x].source
               /\ infos[x].succeeded = m.mapInfo[x].succeeded /\ infos[x].fInTried = m.mapInfo[x].fInTried
               /\ infos[x].nRandomPos = m.mapInfo[x].nRandomPos /\ infos[x].nRefCount = count(x)
    <2>1. m.mapInfo[x] \in InfoType
      BY Fields
    <2>2. infos[x] = [m.mapInfo[x] EXCEPT !.nRefCount = count(x)]
      BY <1>1
    <2>3. count(x) \in Nat
      BY <1>4
    <2> QED
      BY <2>1, <2>2, <2>3 DEF InfoType
  <1>7. infos \in Partial(Nat, InfoType)
    <2>1. DOMAIN infos \subseteq Nat
      BY <1>5, Fields
    <2>2. \A x \in DOMAIN infos : infos[x] \in InfoType
      BY <1>5, <1>6
    <2> QED
      BY <1>5, <2>1, <2>2, PartialIs
  <1>8. c \in Manager
    BY <1>2, <1>7 DEF Manager
  <1> QED
    BY <1>3, <1>5, <1>6, <1>8 DEF Positioned, Alike, count

Repositioned(m, c) ==
    /\ Whole(c) /\ c.nIdCount = m.nIdCount /\ c.nNew = m.nNew /\ c.nTried = m.nTried
    /\ DOMAIN c.mapInfo = DOMAIN m.mapInfo /\ c.vvTried = m.vvTried
    /\ \A x \in DOMAIN m.mapInfo : Alike(c.mapInfo[x], m.mapInfo[x])

(* With the positions of the file, all is as it was before. *)
LEMMA ReadPositionsIs ==
  ASSUME NEW a, Whole(a), NEW file, Written(a, file), NEW vvNew,
         NEW n, n = Cardinality(TriedIds(a)), NEW m, TriedsRead(a, vvNew, m, n),
         NEW c, c = ReadPositions(m, file.vvNew)
  PROVE  Repositioned(m, c) /\ c.vvNew = file.vvNew
  <1>1. PICK table : table = file.vvNew
    OBVIOUS
  <1>2. table = [s \in NewSlots |-> IF a.vvNew[s] = Nobody THEN Nobody ELSE Before(NewIds(a), a.vvNew[s])]
    BY <1>1 DEF Written
  <1>3. Core(m) /\ m \in Manager /\ Readable(m) /\ NewIds(m) = 0 .. Cardinality(NewIds(a)) - 1
    BY ReadIsReadable DEF Readable, Core
  <1>4. Core(a) /\ a \in Manager /\ Loose(a) = {}
    BY DEF Whole, Core
  <1>5. \A s \in NewSlots : \/ a.vvNew[s] = Nobody /\ table[s] = Nobody
                            \/ /\ a.vvNew[s] \in NewIds(a) /\ table[s] \in NewIds(m)
                               /\ Nth(NewIds(a), table[s] + 1) = a.vvNew[s]
                               /\ s \in NewSlotsOf(m.mapInfo[table[s]].svc)
    <2> SUFFICES ASSUME NEW s \in NewSlots, a.vvNew[s] # Nobody
                 PROVE  /\ a.vvNew[s] \in NewIds(a) /\ table[s] \in NewIds(m)
                        /\ Nth(NewIds(a), table[s] + 1) = a.vvNew[s]
                        /\ s \in NewSlotsOf(m.mapInfo[table[s]].svc)
      BY <1>2
    <2> QED
      BY <1>1, FiledIs
  <1>6. Nobody \notin DOMAIN m.mapInfo /\ NewIds(m) \subseteq DOMAIN m.mapInfo /\ DOMAIN m.mapInfo \subseteq Nat
    BY <1>3, Ids, Fields DEF Core
  <1>7. table \in [NewSlots -> Int]
    <2>1. \A s \in NewSlots : table[s] \in Int
      BY <1>5, <1>6 DEF Nobody
    <2> QED
      BY <1>2, <2>1
  <1>8. ASSUME NEW j \in NewIds(m)
        PROVE  /\ {s \in NewSlots : table[s] = j} = Refs(a, Nth(NewIds(a), j + 1))
               /\ Nth(NewIds(a), j + 1) \in NewIds(a)
    <2>1. PICK ids : ids = NewIds(a)
      OBVIOUS
    <2>2. IsFiniteSet(ids) /\ ids \in SUBSET Nat
      BY <1>4, <2>1, Ids, Fields DEF Core
    <2>3. j \in Nat /\ j + 1 \in 1 .. Cardinality(ids)
      <3>1. Cardinality(ids) \in Nat
        BY <2>2, NthIs
      <3>2. j \in 0 .. Cardinality(ids) - 1
        BY <1>3, <2>1
      <3> QED
        BY <3>1, <3>2
    <2>4. Nth(ids, j + 1) \in ids /\ Before(ids, Nth(ids, j + 1)) = j
      <3>1. Nth(ids, j + 1) \in ids /\ Before(ids, Nth(ids, j + 1)) = j + 1 - 1
        BY <2>2, <2>3, NthIs
      <3> QED
        BY <2>3, <3>1
    <2>5. Nobody \notin ids
      BY <1>4, <2>1, Ids DEF Core
    <2>6. ASSUME NEW s \in NewSlots
          PROVE  table[s] = j <=> a.vvNew[s] = Nth(ids, j + 1)
      <3>1. CASE table[s] = j
        BY <1>5, <1>6, <2>1, <3>1
      <3>2. CASE a.vvNew[s] = Nth(ids, j + 1)
        BY <1>2, <2>1, <2>4, <2>5, <3>2
      <3> QED
        BY <3>1, <3>2
    <2>7. {s \in NewSlots : table[s] = j} = {s \in NewSlots : a.vvNew[s] = Nth(ids, j + 1)}
      BY <2>6
    <2> QED
      BY <2>1, <2>4, <2>7 DEF Refs
  <1>9. ASSUME NEW j \in TriedIds(m)
        PROVE  {s \in NewSlots : table[s] = j} = {}
    <2>1. j \in DOMAIN m.mapInfo /\ j \notin NewIds(m)
      BY DEF TriedIds, NewIds
    <2> QED
      BY <1>5, <1>6, <2>1
  <1>10. \A x \in DOMAIN m.mapInfo : x \in NewIds(m) \/ x \in TriedIds(m)
    BY DEF NewIds
  <1>11. ASSUME NEW x \in DOMAIN m.mapInfo
         PROVE  /\ IsFiniteSet({s \in NewSlots : table[s] = x})
                /\ Cardinality({s \in NewSlots : table[s] = x}) \in 0 .. MaxRefs
                /\ x \in NewIds(m) => Cardinality({s \in NewSlots : table[s] = x}) # 0
    <2>1. CASE x \in TriedIds(m)
      <3>1. {s \in NewSlots : table[s] = x} = {} /\ x \notin NewIds(m)
        BY <1>9, <2>1 DEF NewIds
      <3>2. IsFiniteSet({}) /\ Cardinality({}) = 0
        BY FS_EmptySet
      <3> QED
        BY <3>1, <3>2, LimitAssumption
    <2>2. CASE x \in NewIds(m)
      <3>1. PICK id : id = Nth(NewIds(a), x + 1)
        OBVIOUS
      <3>2. {s \in NewSlots : table[s] = x} = Refs(a, id) /\ id \in NewIds(a)
        BY <1>8, <2>2, <3>1
      <3>3. id \in DOMAIN a.mapInfo
        BY <3>2 DEF NewIds
      <3>4. /\ IsFiniteSet(Refs(a, id)) /\ a.mapInfo[id].nRefCount = Cardinality(Refs(a, id))
            /\ a.mapInfo[id].nRefCount <= MaxRefs
        BY <1>4, <3>3 DEF Core, NewTable
      <3>5. a.mapInfo[id].nRefCount # 0
        BY <1>4, <3>2 DEF Loose
      <3>6. a.mapInfo[id].nRefCount \in Nat
        BY <1>4, <3>3, Fields DEF InfoType
      <3>7. Cardinality(Refs(a, id)) \in 0 .. MaxRefs /\ Cardinality(Refs(a, id)) # 0
        BY <3>4, <3>5, <3>6, LimitAssumption
      <3> QED
        BY <3>2, <3>4, <3>7
    <2> QED
      BY <1>10, <2>1, <2>2
  <1>12. c = [m EXCEPT !.vvNew = table,
                       !.mapInfo = [id \in DOMAIN @ |->
                           [@[id] EXCEPT !.nRefCount = Cardinality({s \in NewSlots : table[s] = id})]]]
    <2> DEFINE found(s) == Found(file.vvNew, m, s)
               read == [s \in NewSlots |-> IF found(s) = {} THEN Nobody ELSE CHOOSE j \in found(s) : TRUE]
    <2>1. c = [m EXCEPT !.vvNew = read,
                        !.mapInfo = [id \in DOMAIN @ |->
                            [@[id] EXCEPT !.nRefCount = Cardinality({s \in NewSlots : read[s] = id})]]]
      BY DEF ReadPositions, Found
    <2>2. read = [s \in NewSlots |-> table[s]]
      <3>1. ASSUME NEW s \in NewSlots
            PROVE  (IF found(s) = {} THEN Nobody ELSE CHOOSE j \in found(s) : TRUE) = table[s]
        <4>1. PICK f : f = found(s)
          OBVIOUS
        <4>2. (IF f = {} THEN Nobody ELSE CHOOSE j \in f : TRUE) = file.vvNew[s]
          BY <4>1, PositionsFound
        <4> HIDE DEF found
        <4> QED
          BY <1>1, <4>1, <4>2
      <3> HIDE DEF found
      <3> QED
        BY <3>1
    <2>3. [s \in NewSlots |-> table[s]] = table
      BY <1>7
    <2> HIDE DEF read
    <2> QED
      BY <2>1, <2>2, <2>3
  <1>13. Positioned(m, c, table)
    <2>1. \A x \in DOMAIN m.mapInfo : Cardinality({s \in NewSlots : table[s] = x}) \in Nat
      BY <1>11, LimitAssumption
    <2> QED
      BY <1>3, <1>7, <1>12, <2>1, PositionedIs
  <1>14. /\ c \in Manager /\ c.vvNew = table /\ DOMAIN c.mapInfo = DOMAIN m.mapInfo
         /\ c.mapAddr = m.mapAddr /\ c.vRandom = m.vRandom /\ c.vvTried = m.vvTried /\ c.nNew = m.nNew
         /\ c.nTried = m.nTried /\ c.nIdCount = m.nIdCount /\ c.m_tried_collisions = m.m_tried_collisions
         /\ c.asserts = m.asserts
    BY <1>13 DEF Positioned
  <1>15. \A x \in DOMAIN m.mapInfo :
            /\ c.mapInfo[x].svc = m.mapInfo[x].svc /\ c.mapInfo[x].fInTried = m.mapInfo[x].fInTried
            /\ c.mapInfo[x].nRandomPos = m.mapInfo[x].nRandomPos /\ c.mapInfo[x].succeeded = m.mapInfo[x].succeeded
    BY <1>13 DEF Positioned, Alike
  <1>16. \A x \in DOMAIN m.mapInfo : c.mapInfo[x].nRefCount = Cardinality({s \in NewSlots : table[s] = x})
    BY <1>13 DEF Positioned
  <1>17. TriedIds(c) = TriedIds(m)
    BY <1>14, <1>15 DEF TriedIds
  <1>18. NewIds(c) = NewIds(m)
    BY <1>14, <1>17 DEF NewIds
  <1>19. RandomIndex(c)
    <2>1. RandomIndex(m)
      BY <1>3 DEF Core
    <2>2. \A x \in DOMAIN c.mapInfo :
             c.mapInfo[x].nRandomPos \in 1 .. Len(c.vRandom) /\ c.vRandom[c.mapInfo[x].nRandomPos] = x
      BY <1>14, <1>15, <2>1 DEF RandomIndex
    <2>3. \A p \in 1 .. Len(c.vRandom) :
             c.vRandom[p] \in DOMAIN c.mapInfo /\ c.mapInfo[c.vRandom[p]].nRandomPos = p
      BY <1>14, <1>15, <2>1 DEF RandomIndex
    <2> QED
      BY <2>2, <2>3 DEF RandomIndex
  <1>20. HostIndex(c)
    BY <1>3, <1>14, <1>15 DEF Core, HostIndex
  <1>21. TriedTable(c)
    <2>1. TriedIds(m) \subseteq DOMAIN m.mapInfo
      BY DEF TriedIds
    <2> QED
      BY <1>3, <1>14, <1>15, <1>17, <2>1 DEF Core, TriedTable
  <1>22. NewTable(c)
    <2>1. ASSUME NEW s \in NewSlots, c.vvNew[s] # Nobody
          PROVE  c.vvNew[s] \in NewIds(c) /\ s \in NewSlotsOf(c.mapInfo[c.vvNew[s]].svc)
      <3>1. c.vvNew[s] = table[s] /\ table[s] \in NewIds(m) /\ s \in NewSlotsOf(m.mapInfo[table[s]].svc)
        BY <1>5, <1>14, <2>1
      <3>2. c.mapInfo[table[s]].svc = m.mapInfo[table[s]].svc
        BY <1>6, <1>15, <3>1
      <3> QED
        BY <1>18, <3>1, <3>2
    <2>2. ASSUME NEW x \in DOMAIN c.mapInfo
          PROVE  /\ IsFiniteSet(Refs(c, x)) /\ c.mapInfo[x].nRefCount = Cardinality(Refs(c, x))
                 /\ c.mapInfo[x].nRefCount <= MaxRefs
      <3>1. x \in DOMAIN m.mapInfo
        BY <1>14
      <3>2. Refs(c, x) = {s \in NewSlots : table[s] = x}
        BY <1>14 DEF Refs
      <3>3. IsFiniteSet(Refs(c, x)) /\ Cardinality(Refs(c, x)) \in 0 .. MaxRefs
        BY <1>11, <3>1, <3>2
      <3>4. c.mapInfo[x].nRefCount = Cardinality(Refs(c, x))
        BY <1>16, <3>1, <3>2
      <3> QED
        BY <3>3, <3>4, LimitAssumption
    <2> QED
      BY <2>1, <2>2 DEF NewTable
  <1>23. Core(c)
    BY <1>3, <1>14, <1>19, <1>20, <1>21, <1>22 DEF Core
  <1>24. Loose(c) = {}
    <2>1. ASSUME NEW x \in NewIds(c)
          PROVE  c.mapInfo[x].nRefCount # 0
      <3>1. x \in NewIds(m) /\ x \in DOMAIN m.mapInfo
        BY <1>6, <1>18
      <3> QED
        BY <1>11, <1>16, <3>1
    <2> QED
      BY <2>1 DEF Loose
  <1>25. Counts(c, 0, 0) /\ Below(c, c.nIdCount) /\ Real(c)
    <2>1. Counts(m, 0, 0) /\ Below(m, m.nIdCount) /\ m.m_tried_collisions = {}
      BY <1>3 DEF Readable
    <2>2. Counts(c, 0, 0)
      BY <1>14, <1>17, <1>18, <2>1 DEF Counts
    <2>3. Below(c, c.nIdCount)
      BY <1>14, <2>1 DEF Below
    <2> QED
      BY <1>14, <2>1, <2>2, <2>3 DEF Real
  <1>26. \A x \in DOMAIN m.mapInfo : Alike(c.mapInfo[x], m.mapInfo[x])
    BY <1>13 DEF Positioned
  <1> QED
    BY <1>1, <1>14, <1>23, <1>24, <1>25, <1>26 DEF Repositioned, Whole

-----------------------------------------------------------------------------
(* u is what is read back from the file of a, with the same buckets. *)
Restored(a, file, u) ==
    /\ u.vvNew = file.vvNew
    /\ \E m, vvNew : TriedsRead(a, vvNew, m, Cardinality(TriedIds(a))) /\ Repositioned(m, u)

(* Unserialize of what Serialize has written *)
LEMMA UnserializeIs ==
  ASSUME NEW a, Whole(a), NEW file, file = Serialize(a), NEW sameBuckets \in BOOLEAN,
         NEW u, u = Unserialize(file, sameBuckets)
  PROVE  Whole(u) /\ (sameBuckets => Restored(a, file, u))
  <1>1. Written(a, file)
    BY SerializeIs
  <1>2. PICK n \in Nat : n = Cardinality(NewIds(a))
    BY Ids DEF Whole, Core
  <1>3. PICK k \in Nat : k = Cardinality(TriedIds(a))
    BY Ids DEF Whole, Core
  <1>4. file.nNew = n /\ file.nTried = k /\ Len(file.new) = n /\ Len(file.tried) = k
    BY <1>1, <1>2, <1>3 DEF Written
  <1>5. PICK new : new = ReadNews(Fresh(n, k), file.new, n, sameBuckets)
    OBVIOUS
  <1>6. PICK tried : tried = ReadTrieds([new EXCEPT !.nIdCount = n], file.tried, k)
    OBVIOUS
  <1>7. PICK read : read = IF sameBuckets THEN ReadPositions(tried, file.vvNew) ELSE tried
    OBVIOUS
  <1>8. u = PruneUnreferenced(read, read.nIdCount)
    BY <1>4, <1>5, <1>6, <1>7 DEF Unserialize, Fresh
  <1>9. NewsRead(a, new, n, sameBuckets)
    BY <1>1, <1>2, <1>3, <1>5, ReadNewsIs
  <1>10. TriedsRead(a, new.vvNew, tried, k)
    BY <1>1, <1>2, <1>3, <1>6, <1>9, ReadTriedsIs
  <1>11. CASE sameBuckets
    <2>1. read = ReadPositions(tried, file.vvNew)
      BY <1>7, <1>11
    <2>2. Repositioned(tried, read) /\ read.vvNew = file.vvNew
      BY <1>1, <1>3, <1>10, <2>1, ReadPositionsIs
    <2>3. Whole(read) /\ Loose(read) = {} /\ read.nIdCount \in Nat
      BY <2>2, Fields DEF Repositioned, Whole, Core
    <2>4. u = read
      BY <1>8, <2>3, PruneNone
    <2> QED
      BY <1>3, <1>10, <2>2, <2>3, <2>4 DEF Restored
  <1>12. CASE ~sameBuckets
    <2>1. read = tried
      BY <1>7, <1>12
    <2>2. Readable(tried)
      BY <1>3, <1>10, ReadIsReadable
    <2>3. Whole(u)
      BY <1>8, <2>1, <2>2, PruneIs
    <2> QED
      BY <1>12, <2>3
  <1> QED
    BY <1>11, <1>12

(* A restart *)
LEMMA RestartStep ==
  ASSUME Whole(am), Restart
  PROVE  Whole(am')
  <1>1. PICK sameBuckets \in BOOLEAN :
          LET file == Serialize(am)
          IN  am' = [Unserialize(file, sameBuckets) EXCEPT !.asserts = @ /\ am.asserts /\ file.asserts]
    BY DEF Restart
  <1>2. PICK file : file = Serialize(am)
    OBVIOUS
  <1>3. PICK u : u = Unserialize(file, sameBuckets)
    OBVIOUS
  <1>4. am' = [u EXCEPT !.asserts = @ /\ am.asserts /\ file.asserts]
    BY <1>1, <1>2, <1>3
  <1>5. Whole(u)
    BY <1>2, <1>3, UnserializeIs
  <1>6. u \in Manager /\ u.asserts /\ am \in Manager /\ am.asserts
    BY <1>5 DEF Whole, Core
  <1>7. file.asserts = TRUE
    BY <1>2, SerializeIs DEF Written
  <1>8. u.asserts = TRUE /\ am.asserts = TRUE
    BY <1>6, Fields
  <1>9. (u.asserts /\ am.asserts /\ file.asserts) = TRUE
    BY <1>7, <1>8, Zenon
  <1>10. PICK holds : holds = (u.asserts /\ am.asserts /\ file.asserts)
    OBVIOUS
  <1>11. holds = TRUE
    BY <1>9, <1>10, Zenon
  <1>12. am' = [u EXCEPT !.asserts = holds]
    BY <1>4, <1>10
  <1>13. [u EXCEPT !.asserts = holds] = u
    BY <1>6, <1>8, <1>11 DEF Manager
  <1> QED
    BY <1>5, <1>12, <1>13

(* A start without a readable peers.dat, when nothing was read from it *)
LEMMA UnreadableStep ==
  ASSUME Whole(am), RestartUnreadable, MaxRead = 0
  PROVE  Whole(am')
  <1>1. PICK file : file = Serialize(am)
    OBVIOUS
  <1>2. Len(file.new) \in Nat /\ Len(file.tried) \in Nat
    <2>1. Written(am, file)
      BY <1>1, SerializeIs
    <2>2. Cardinality(NewIds(am)) \in Nat /\ Cardinality(TriedIds(am)) \in Nat
      BY Ids DEF Whole, Core
    <2> QED
      BY <2>1, <2>2 DEF Written
  <1>3. PICK n \in 0 .. Len(file.new), k \in 0 .. Len(file.tried) :
          LET new == ReadNews(Empty, file.new, n, TRUE)
              read == ReadTrieds([new EXCEPT !.nIdCount = n], file.tried, k)
          IN  /\ n + k <= MaxRead
              /\ am' = [Cleared(read) EXCEPT !.asserts = Serialize(Cleared(read)).asserts]
    BY <1>1 DEF RestartUnreadable
  <1>4. n + k <= MaxRead
    BY <1>3
  <1>5. n = 0 /\ k = 0
    BY <1>2, <1>4
  <1>6. ReadNews(Empty, file.new, 0, TRUE) = Empty
    <2>1. PICK same : same = TRUE
      OBVIOUS
    <2>2. PICK g : NewsRun(Empty, file.new, same, g, 0) /\ ReadNews(Empty, file.new, 0, same) = g[0]
      BY NewsRuns
    <2>3. ReadNews(Empty, file.new, 0, same) = Empty
      BY <2>2 DEF NewsRun
    <2> QED
      BY <2>1, <2>3
  <1>7. ReadTrieds(Empty, file.tried, 0) = Empty
    <2>1. PICK g : TriedsRun(Empty, file.tried, g, 0) /\ ReadTrieds(Empty, file.tried, 0) = g[0]
      BY TriedsRuns
    <2> QED
      BY <2>1 DEF TriedsRun
  <1>8. [Empty EXCEPT !.nIdCount = 0] = Empty /\ Cleared(Empty) = Empty
    <2>1. PICK e : e = Empty
      OBVIOUS
    <2>2. e \in Manager /\ e.nIdCount = 0
      <3>1. e \in Manager
        BY <2>1, EmptyWhole DEF Whole, Core
      <3> QED
        BY <2>1, <3>1 DEF Empty
    <2>3. [e EXCEPT !.nIdCount = 0] = e
      BY <2>2 DEF Manager
    <2>4. Cleared(e) = [e EXCEPT !.mapInfo = e.mapInfo, !.mapAddr = e.mapAddr,
                                 !.m_tried_collisions = e.m_tried_collisions, !.asserts = e.asserts]
      BY <2>1 DEF Cleared
    <2>5. Cleared(e) = e
      BY <2>2, <2>4 DEF Manager
    <2> QED
      BY <2>1, <2>3, <2>5
  <1>9. am' = [Empty EXCEPT !.asserts = Serialize(Empty).asserts]
    BY <1>3, <1>5, <1>6, <1>7, <1>8
  <1>10. PICK written : written = Serialize(Empty)
    OBVIOUS
  <1>11. written.asserts = TRUE
    BY <1>10, EmptyWhole, SerializeIs DEF Written
  <1>12. am' = [Empty EXCEPT !.asserts = TRUE]
    BY <1>9, <1>10, <1>11
  <1>13. [Empty EXCEPT !.asserts = TRUE] = Empty
    <2>1. PICK e : e = Empty
      OBVIOUS
    <2>2. e \in Manager /\ e.asserts
      BY <2>1, EmptyWhole DEF Whole, Core
    <2>3. e.asserts = TRUE
      BY <2>2, Fields
    <2>4. [e EXCEPT !.asserts = TRUE] = e
      BY <2>2, <2>3 DEF Manager
    <2> QED
      BY <2>1, <2>4
  <1> QED
    BY <1>12, <1>13, EmptyWhole

(* A table read back holds the same at every position. *)
LEMMA RestoredAt ==
  ASSUME NEW a, Whole(a), NEW file, file = Serialize(a), NEW u, Whole(u), Restored(a, file, u)
  PROVE  /\ \A s \in TriedSlots : At(a, a.vvTried, s) = At(u, u.vvTried, s)
         /\ \A s \in NewSlots : At(a, a.vvNew, s) = At(u, u.vvNew, s)
         /\ u.nNew = a.nNew /\ u.nTried = a.nTried
  <1>1. PICK n : n = Cardinality(TriedIds(a))
    OBVIOUS
  <1>2. PICK m, vvNew : TriedsRead(a, vvNew, m, n) /\ Repositioned(m, u)
    BY <1>1 DEF Restored
  <1>3. Written(a, file) /\ u.vvNew = file.vvNew
    BY SerializeIs DEF Restored
  <1>4. PICK new : new = Cardinality(NewIds(a))
    OBVIOUS
  <1>5. PICK tried : tried = TriedIds(a)
    OBVIOUS
  <1>6. /\ Core(a) /\ a \in Manager /\ Counts(a, 0, 0) /\ n \in Nat /\ new \in Nat /\ n = Cardinality(tried)
        /\ IsFiniteSet(tried) /\ tried \in SUBSET Nat /\ NewIds(a) \in SUBSET Nat /\ IsFiniteSet(NewIds(a))
    BY <1>1, <1>4, <1>5, Ids, Fields DEF Whole, Core
  <1>7. /\ Core(m) /\ TriedIds(m) = new .. new + n - 1 /\ m.nNew = new /\ m.nTried = n
        /\ \A j \in 0 .. new - 1 : Alike(m.mapInfo[j], a.mapInfo[Nth(NewIds(a), j + 1)])
        /\ \A j \in 0 .. n - 1 : Alike(m.mapInfo[new + j], a.mapInfo[Nth(tried, j + 1)])
    BY <1>1, <1>2, <1>4, <1>5 DEF TriedsRead
  <1>8. /\ u.nNew = m.nNew /\ u.nTried = m.nTried /\ DOMAIN u.mapInfo = DOMAIN m.mapInfo /\ u.vvTried = m.vvTried
        /\ \A x \in DOMAIN m.mapInfo : Alike(u.mapInfo[x], m.mapInfo[x])
    BY <1>2 DEF Repositioned
  <1>9. u.nNew = a.nNew /\ u.nTried = a.nTried
    BY <1>1, <1>4, <1>6, <1>7, <1>8 DEF Counts
  <1>10. ASSUME NEW j \in 0 .. n - 1
         PROVE  /\ new + j \in TriedIds(m) /\ Alike(u.mapInfo[new + j], a.mapInfo[Nth(tried, j + 1)])
                /\ m.mapInfo[new + j].svc = a.mapInfo[Nth(tried, j + 1)].svc
    <2>1. new + j \in TriedIds(m)
      BY <1>6, <1>7
    <2>2. new + j \in DOMAIN m.mapInfo
      BY <2>1 DEF TriedIds
    <2>3. Alike(u.mapInfo[new + j], m.mapInfo[new + j]) /\ Alike(m.mapInfo[new + j], a.mapInfo[Nth(tried, j + 1)])
      BY <1>7, <1>8, <2>2
    <2> QED
      BY <2>1, <2>3 DEF Alike
  <1>11. ASSUME NEW s \in TriedSlots
         PROVE  At(a, a.vvTried, s) = At(u, u.vvTried, s)
    <2>1. PICK y : y = a.vvTried[s]
      OBVIOUS
    <2>2. PICK x : x = u.vvTried[s]
      OBVIOUS
    <2>3. CASE y = Nobody
      <3>1. x = Nobody
        <4> SUFFICES ASSUME x # Nobody
                     PROVE  FALSE
          OBVIOUS
        <4>1. x \in TriedIds(m) /\ TriedSlot[m.mapInfo[x].svc] = s
          BY <1>7, <1>8, <2>2 DEF Core, TriedTable
        <4>2. PICK j : j = x - new
          OBVIOUS
        <4>3. j \in 0 .. n - 1 /\ x = new + j /\ j + 1 \in 1 .. Cardinality(tried)
          BY <1>6, <1>7, <4>1, <4>2
        <4>4. TriedSlot[a.mapInfo[Nth(tried, j + 1)].svc] = s
          BY <1>10, <4>1, <4>3
        <4>5. Nth(tried, j + 1) \in tried
          BY <1>6, <4>3, NthIs
        <4>6. a.vvTried[s] = Nth(tried, j + 1)
          BY <1>5, <1>6, <4>4, <4>5 DEF Core, TriedTable
        <4>7. Nobody \notin tried
          BY <1>5, <1>6, Ids DEF Core
        <4> QED
          BY <2>1, <2>3, <4>5, <4>6, <4>7
      <3> QED
        BY <2>1, <2>2, <2>3, <3>1 DEF At
    <2>4. CASE y # Nobody
      <3>1. y \in tried /\ TriedSlot[a.mapInfo[y].svc] = s
        BY <1>5, <1>6, <2>1, <2>4 DEF Core, TriedTable
      <3>2. PICK j : j = Before(tried, y)
        OBVIOUS
      <3>3. j \in 0 .. n - 1 /\ Nth(tried, j + 1) = y
        BY <1>6, <3>1, <3>2, NthIs, BeforeIs
      <3>4. new + j \in TriedIds(m) /\ Alike(u.mapInfo[new + j], a.mapInfo[y]) /\ m.mapInfo[new + j].svc = a.mapInfo[y].svc
        BY <1>10, <3>3
      <3>5. m.vvTried[s] = new + j
        BY <1>7, <3>1, <3>4 DEF Core, TriedTable
      <3>6. x = new + j /\ x # Nobody
        <4>1. Nobody \notin TriedIds(m)
          BY <1>7, Ids DEF Core
        <4> QED
          BY <1>8, <2>2, <3>4, <3>5, <4>1
      <3>7. Saved(u.mapInfo[x]) = Saved(a.mapInfo[y])
        BY <3>4, <3>6 DEF Alike, Saved
      <3>8. At(a, a.vvTried, s) = {Saved(a.mapInfo[y])} /\ At(u, u.vvTried, s) = {Saved(u.mapInfo[x])}
        BY <2>1, <2>2, <2>4, <3>6 DEF At
      <3> QED
        BY <3>7, <3>8
    <2> QED
      BY <2>3, <2>4
  <1>12. ASSUME NEW s \in NewSlots
         PROVE  At(a, a.vvNew, s) = At(u, u.vvNew, s)
    <2>1. PICK y : y = a.vvNew[s]
      OBVIOUS
    <2>2. PICK x : x = u.vvNew[s]
      OBVIOUS
    <2>3. CASE y = Nobody
      <3>1. x = Nobody
        BY <1>3, <2>1, <2>2, <2>3, ZenonT(60) DEF Written
      <3> QED
        BY <2>1, <2>2, <2>3, <3>1 DEF At
    <2>4. CASE y # Nobody
      <3>1. x \in NewIds(m) /\ Nth(NewIds(a), x + 1) = y
        BY <1>1, <1>2, <1>3, <2>1, <2>2, <2>4, FiledIs
      <3>2. NewIds(m) = 0 .. new - 1
        BY <1>1, <1>2, <1>4, ReadIsReadable
      <3>3. x \in DOMAIN m.mapInfo /\ x # Nobody
        <4>1. Nobody \notin NewIds(m)
          BY <1>7, Ids DEF Core
        <4> QED
          BY <3>1, <4>1 DEF NewIds
      <3>4. Alike(u.mapInfo[x], m.mapInfo[x]) /\ Alike(m.mapInfo[x], a.mapInfo[y])
        BY <1>7, <1>8, <3>1, <3>2, <3>3
      <3>5. Saved(u.mapInfo[x]) = Saved(a.mapInfo[y])
        BY <3>4 DEF Alike, Saved
      <3>6. At(a, a.vvNew, s) = {Saved(a.mapInfo[y])} /\ At(u, u.vvNew, s) = {Saved(u.mapInfo[x])}
        BY <2>1, <2>2, <2>4, <3>3 DEF At
      <3> QED
        BY <3>5, <3>6
    <2> QED
      BY <2>3, <2>4
  <1> QED
    BY <1>9, <1>11, <1>12

(* What is dumped is read back. *)
LEMMA WholeRestores ==
  ASSUME Whole(am)
  PROVE  DumpRestores
  <1>1. PICK file : file = Serialize(am)
    OBVIOUS
  <1>2. PICK same \in BOOLEAN : same = TRUE
    OBVIOUS
  <1>3. PICK u : u = Unserialize(file, same)
    OBVIOUS
  <1>4. Whole(u) /\ (same => Restored(am, file, u))
    BY <1>1, <1>3, UnserializeIs
  <1>5. /\ \A s \in TriedSlots : At(am, am.vvTried, s) = At(u, u.vvTried, s)
        /\ \A s \in NewSlots : At(am, am.vvNew, s) = At(u, u.vvNew, s)
        /\ u.nNew = am.nNew /\ u.nTried = am.nTried
    BY <1>1, <1>2, <1>4, RestoredAt
  <1>6. Unserialize(Serialize(am), TRUE) = u
    BY <1>1, <1>2, <1>3
  <1> QED
    BY <1>5, <1>6 DEF DumpRestores

-----------------------------------------------------------------------------
(* The indexes have as many entries as mapInfo. *)
LEMMA IndexSizes ==
  ASSUME NEW m, Core(m)
  PROVE  /\ Cardinality(DOMAIN m.mapAddr) = Cardinality(DOMAIN m.mapInfo)
         /\ Len(m.vRandom) = Cardinality(DOMAIN m.mapInfo)
  <1>1. IsFiniteSet(DOMAIN m.mapInfo) /\ m \in Manager /\ m.vRandom \in Seq(Nat) /\ Len(m.vRandom) \in Nat
    BY Fields DEF Core
  <1>2. Cardinality(DOMAIN m.mapAddr) = Cardinality(DOMAIN m.mapInfo)
    <2>1. PICK f : f = [id \in DOMAIN m.mapInfo |-> Host[m.mapInfo[id].svc]]
      OBVIOUS
    <2>2. f \in [DOMAIN m.mapInfo -> DOMAIN m.mapAddr]
      BY <2>1 DEF Core, HostIndex
    <2>3. \A x, y \in DOMAIN m.mapInfo : f[x] = f[y] => x = y
      BY <2>1 DEF Core, HostIndex
    <2>4. \A h \in DOMAIN m.mapAddr : \E id \in DOMAIN m.mapInfo : f[id] = h
      BY <2>1 DEF Core, HostIndex
    <2>5. f \in Bijection(DOMAIN m.mapInfo, DOMAIN m.mapAddr)
      BY <2>2, <2>3, <2>4 DEF Bijection, Injection, IsInjective, Surjection
    <2>6. ExistsBijection(DOMAIN m.mapInfo, DOMAIN m.mapAddr)
      BY <2>5 DEF ExistsBijection
    <2> QED
      BY <1>1, <2>6, FS_Bijection
  <1>3. Len(m.vRandom) = Cardinality(DOMAIN m.mapInfo)
    <2>1. PICK n \in Nat : n = Len(m.vRandom)
      BY <1>1
    <2>2. PICK f : f = [p \in 1 .. n |-> m.vRandom[p]]
      OBVIOUS
    <2>3. f \in [1 .. n -> DOMAIN m.mapInfo]
      BY <2>1, <2>2 DEF Core, RandomIndex
    <2>4. \A p, q \in 1 .. n : f[p] = f[q] => p = q
      BY <2>1, <2>2 DEF Core, RandomIndex
    <2>5. \A id \in DOMAIN m.mapInfo : \E p \in 1 .. n : f[p] = id
      BY <2>1, <2>2 DEF Core, RandomIndex
    <2>6. f \in Bijection(1 .. n, DOMAIN m.mapInfo)
      BY <2>3, <2>4, <2>5 DEF Bijection, Injection, IsInjective, Surjection
    <2>7. ExistsBijection(1 .. n, DOMAIN m.mapInfo)
      BY <2>6 DEF ExistsBijection
    <2> QED
      BY <2>1, <2>7, FS_CountingElements
  <1> QED
    BY <1>2, <1>3

(* The tables of a manager that is whole are exact. *)
LEMMA WholeExact ==
  ASSUME Whole(am)
  PROVE  TablesExact
  <1>1. Core(am) /\ am \in Manager /\ Loose(am) = {} /\ Counts(am, 0, 0)
    BY DEF Whole, Core
  <1>2. /\ IsFiniteSet(DOMAIN am.mapInfo) /\ RandomIndex(am) /\ HostIndex(am) /\ NewTable(am) /\ TriedTable(am)
        /\ DOMAIN am.vvTried = TriedSlots /\ DOMAIN am.vvNew = NewSlots /\ am.vRandom \in Seq(Nat)
    BY <1>1, Fields DEF Core
  <1>3. am.nTried = Cardinality(TriedIds(am)) /\ am.nNew = Cardinality(NewIds(am))
    <2>1. Cardinality(TriedIds(am)) \in Nat /\ Cardinality(NewIds(am)) \in Nat
      BY <1>1, <1>2, Ids
    <2> QED
      BY <1>1, <2>1 DEF Counts
  <1>4. ASSUME NEW id \in DOMAIN am.mapInfo
        PROVE  LET info == am.mapInfo[id]
                   refs == {s \in NewSlots : am.vvNew[s] = id}
               IN  /\ info.nRefCount = Cardinality(refs) /\ refs \subseteq NewSlotsOf(info.svc)
                   /\ IF info.fInTried
                      THEN info.succeeded /\ refs = {} /\ am.vvTried[TriedSlot[info.svc]] = id
                      ELSE info.nRefCount \in 1 .. MaxRefs
                   /\ Host[info.svc] \in DOMAIN am.mapAddr /\ am.mapAddr[Host[info.svc]] = id
    <2>1. PICK info : info = am.mapInfo[id]
      OBVIOUS
    <2>2. PICK refs : refs = {s \in NewSlots : am.vvNew[s] = id}
      OBVIOUS
    <2>3. info \in InfoType /\ id # Nobody /\ (info.fInTried <=> id \in TriedIds(am)) /\ (~info.fInTried <=> id \in NewIds(am))
      BY <1>1, <1>2, <2>1, Fields, Ids
    <2>4. refs = Refs(am, id)
      BY <2>2 DEF Refs
    <2>5. info.nRefCount = Cardinality(refs) /\ info.nRefCount <= MaxRefs
      BY <1>2, <2>1, <2>4 DEF NewTable
    <2>6. refs \subseteq NewSlotsOf(info.svc)
      BY <1>2, <2>1, <2>2, <2>3 DEF NewTable
    <2>7. CASE info.fInTried
      <3>1. id \in TriedIds(am)
        BY <2>3, <2>7
      <3>2. info.succeeded /\ am.vvTried[TriedSlot[info.svc]] = id
        BY <1>2, <2>1, <3>1 DEF TriedTable
      <3>3. \A s \in NewSlots : am.vvNew[s] # id
        BY <1>1, <3>1, TriedNotNew
      <3>4. refs = {}
        BY <2>2, <3>3
      <3> QED
        BY <1>2, <2>1, <2>2, <2>5, <2>6, <2>7, <3>2, <3>4 DEF HostIndex
    <2>8. CASE ~info.fInTried
      <3>1. info.nRefCount # 0
        BY <1>1, <2>1, <2>3, <2>8 DEF Loose
      <3>2. info.nRefCount \in 1 .. MaxRefs
        BY <2>3, <2>5, <3>1, LimitAssumption DEF InfoType
      <3> QED
        BY <1>2, <2>1, <2>2, <2>5, <2>6, <2>8, <3>2 DEF HostIndex
    <2> QED
      BY <2>7, <2>8
  <1>5. Entries(am.vvTried) \subseteq TriedIds(am) \cup {Nobody}
    BY <1>2 DEF Entries, TriedTable
  <1>6. Entries(am.vvNew) \subseteq NewIds(am) \cup {Nobody}
    BY <1>2 DEF Entries, NewTable
  <1>7. Cardinality(DOMAIN am.mapAddr) = Cardinality(DOMAIN am.mapInfo)
    BY <1>1, IndexSizes
  <1>8. RandomExact
    <2>1. Len(am.vRandom) = Cardinality(DOMAIN am.mapInfo)
      BY <1>1, IndexSizes
    <2>2. DOMAIN am.vRandom = 1 .. Len(am.vRandom)
      BY <1>2
    <2> QED
      BY <1>2, <2>1, <2>2 DEF RandomExact, RandomIndex
  <1> QED
    BY <1>3, <1>4, <1>5, <1>6, <1>7, <1>8 DEF TablesExact

(* Every call keeps the manager whole. *)
LEMMA WholeStep ==
  ASSUME MaxRead = 0, Whole(am), [Next]_vars
  PROVE  Whole(am')
  <1>1. CASE \E svc \in Services, src \in Sources : Add(svc, src)
    BY <1>1, AddStep
  <1>2. CASE \E svc \in Services : MarkGood(svc)
    <2>1. PICK svc \in Services : MarkGood(svc)
      BY <1>2
    <2>2. am' = Good(am, svc, TRUE)
      BY <2>1 DEF MarkGood
    <2> QED
      BY <2>2, GoodWhole
  <1>3. CASE ResolveCollisions
    <2>1. PICK verdict \in [am.m_tried_collisions -> {"good", "bad", "wait"}] :
            am' = Resolution(verdict, am.nIdCount + MaxRead)
      BY <1>3 DEF ResolveCollisions
    <2>2. am.nIdCount + MaxRead \in Nat
      BY Fields, LimitAssumption DEF Whole, Core
    <2>3. PICK c : c = Resolution(verdict, am.nIdCount + MaxRead)
      OBVIOUS
    <2>4. During(c)
      BY <2>2, <2>3, ResolutionKeeps
    <2> QED
      BY <2>1, <2>3, <2>4 DEF During
  <1>4. CASE SelectTriedCollision
    BY <1>4, SelectStep
  <1>5. CASE GetAddr
    BY <1>5, GetAddrStep
  <1>6. CASE Restart
    BY <1>6, RestartStep
  <1>7. CASE RestartUnreadable
    BY <1>7, UnreadableStep
  <1>8. CASE UNCHANGED vars
    BY <1>8 DEF vars
  <1> QED
    BY <1>1, <1>2, <1>3, <1>4, <1>5, <1>6, <1>7, <1>8 DEF Next

(* Whole is inductive, as long as no restart takes entries from a          *)
(* peers.dat that it then finds unreadable.                                *)
LEMMA StaysWhole ==
  ASSUME MaxRead = 0
  PROVE  Spec => []Whole(am)
  <1>1. Init => Whole(am)
    BY EmptyWhole DEF Init
  <1>2. Whole(am) /\ [Next]_vars => Whole(am)'
    BY WholeStep
  <1> QED
    BY <1>1, <1>2, PTL DEF Spec

(* The tables, the indexes and the counters of the address manager agree   *)
(* after every call, all that Check_ tests: for every number of services,  *)
(* buckets and references, and whatever the hashes are.                    *)
THEOREM AlwaysExact ==
  ASSUME MaxRead = 0
  PROVE  Spec => []TablesExact
  <1>1. Whole(am) => TablesExact
    BY WholeExact
  <1> QED
    BY <1>1, StaysWhole, PTL

(* No assertion of Delete, ClearNew, MakeTried or Serialize fails.         *)
THEOREM NoAssertionFails ==
  ASSUME MaxRead = 0
  PROVE  Spec => []AssertionsHold
  <1>1. Whole(am) => AssertionsHold
    BY DEF Whole, Core, AssertionsHold
  <1> QED
    BY <1>1, StaysWhole, PTL

(* Every waiting collision has a resident of the tried table to test, and  *)
(* its own entry is still in the new one.                                  *)
THEOREM AlwaysReal ==
  ASSUME MaxRead = 0
  PROVE  Spec => []CollisionsAreReal
  <1>1. Whole(am) => CollisionsAreReal
    BY DEF Whole, Real, CollisionsAreReal, TriedIds
  <1> QED
    BY <1>1, StaysWhole, PTL

(* peers.dat holds the address manager: a node that dumps and reads it     *)
(* back has the same services at the same positions of both tables.        *)
THEOREM AlwaysRestores ==
  ASSUME MaxRead = 0
  PROVE  Spec => []DumpRestores
  <1>1. Whole(am) => DumpRestores
    BY WholeRestores
  <1> QED
    BY <1>1, StaysWhole, PTL

(* Who leaves the tried table in a call of a running node is at home in    *)
(* the new table after it, or gave way to another who left it.             *)
LEMMA HomeStep ==
  ASSUME MaxRead = 0, Whole(am), [Next]_vars
  PROVE  \/ \A id \in TriedIds(am) \ TriedIds(am') :
               am'.vvNew[SlotFor(am.mapInfo[id].svc, am.mapInfo[id].source)] \in TriedIds(am)
         \/ Restart \/ RestartUnreadable
  <1>1. CASE TriedIds(am) \subseteq TriedIds(am')
    BY <1>1
  <1>2. CASE \E svc \in Services, src \in Sources : Add(svc, src)
    BY <1>1, <1>2, AddStep
  <1>3. CASE \E svc \in Services : MarkGood(svc)
    <2>1. PICK svc \in Services : MarkGood(svc)
      BY <1>3
    <2>2. am' = Good(am, svc, TRUE)
      BY <2>1 DEF MarkGood
    <2> QED
      BY <1>1, <2>2, GoodWhole
  <1>4. CASE ResolveCollisions
    <2>1. PICK verdict \in [am.m_tried_collisions -> {"good", "bad", "wait"}] :
            am' = Resolution(verdict, am.nIdCount + MaxRead)
      BY <1>4 DEF ResolveCollisions
    <2>2. am.nIdCount + MaxRead \in Nat
      BY Fields, LimitAssumption DEF Whole, Core
    <2>3. PICK c : c = Resolution(verdict, am.nIdCount + MaxRead)
      OBVIOUS
    <2>4. During(c)
      BY <2>2, <2>3, ResolutionKeeps
    <2>5. \A x \in TriedIds(am) \ TriedIds(c) : c.vvNew[Home(am, x)] \in TriedIds(am)
      BY <2>4 DEF During
    <2> QED
      BY <2>1, <2>3, <2>5 DEF Home
  <1>5. CASE SelectTriedCollision
    BY <1>1, <1>5, SelectStep
  <1>6. CASE GetAddr
    BY <1>1, <1>6, GetAddrStep
  <1>7. CASE UNCHANGED vars
    BY <1>1, <1>7 DEF vars
  <1> QED
    BY <1>2, <1>3, <1>4, <1>5, <1>6, <1>7 DEF Next

(* An eviction from the tried table sends the entry home, and no entry     *)
(* that was tried with success makes way for one that was not.             *)
THEOREM EvictedAlwaysGoHome ==
  ASSUME MaxRead = 0
  PROVE  Spec => EvictedGoHome
  <1>1. Whole(am) /\ [Next]_vars =>
          [\/ \A id \in TriedIds(am) \ TriedIds(am') :
                 am'.vvNew[SlotFor(am.mapInfo[id].svc, am.mapInfo[id].source)] \in TriedIds(am)
           \/ Restart \/ RestartUnreadable]_vars
    BY HomeStep
  <1> QED
    BY <1>1, StaysWhole, PTL DEF Spec, EvictedGoHome
=============================================================================
