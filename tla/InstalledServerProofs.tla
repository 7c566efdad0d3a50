------------------------ MODULE InstalledServerProofs ------------------------
(***************************************************************************)
(* Proofs about ComServer, for any number of objects, references, locks    *)
(* and workers: g_cRefDll counts everyone who needs the DLL, the DLL is    *)
(* mapped as long as anybody does, and the enumerators keep their place.   *)
(* About Registration, for any copies and categories: what is listed can   *)
(* be loaded at every instant, and a run of regsvr32 does all or nothing.  *)
(* Then the two together: what is proved of each holds of both, for every  *)
(* step of InstalledServer is one of theirs.                               *)
(***************************************************************************)
EXTENDS InstalledServer, FiniteSetTheorems, SequenceTheorems, TLAPS

----------------------------------------------------------------------------
\* The COM server.

Names == {"input", "converting"}

Types ==
  /\ kind \in [Objects -> Kinds \cup {"none"}] /\ count \in [Objects -> Int]
  /\ index \in [Objects -> Nat] /\ seen \in [Objects -> Seq(Names)]
  /\ locks \in Nat /\ workers \in Nat /\ refs \in Int /\ loaded \in BOOLEAN

\* An image that is not mapped has no users, and one that is counts them.
Counted == /\ ~loaded => Users = 0
           /\ RefsCountTheUsers

HostInv == Types /\ Counted

\* An enumerator stands between the first attribute and the end of the list.
Placed == \A e \in Is("enumerator") : index[e] \in 0..Len(Attributes)

----------------------------------------------------------------------------
USE ObjectsAssumption, BoundsAssumption DEF objects, Kinds

LEMMA LiveIsFinite == IsFiniteSet(Live) /\ Cardinality(Live) \in Nat
<1>1. Live \in SUBSET Objects
  BY DEF Live
<1>2. QED BY <1>1, FS_Subset, FS_CardinalityType

LEMMA LiveIsFiniteNext == IsFiniteSet(Live') /\ Cardinality(Live)' \in Nat
<1>1. Live' \in SUBSET Objects
  BY DEF Live
<1>2. QED BY <1>1, FS_Subset, FS_CardinalityType

\* Somebody there needs the DLL: it is mapped.
LEMMA UsersNeedIt ==
  ASSUME HostInv
  PROVE  /\ Users \in Nat
         /\ (Live # {} \/ locks > 0 \/ workers > 0) => loaded
<1>1. Live # {} => Cardinality(Live) > 0
  BY LiveIsFinite, FS_EmptySet
<1>2. QED BY <1>1, LiveIsFinite DEF HostInv, Types, Counted, Users

LEMMA KindIsLive == \A k \in Kinds : Is(k) \subseteq Live
BY DEF Is, Live

LEMMA AttributesProperties == Attributes \in Seq(Names) /\ Len(Attributes) = 2
BY DEF Attributes, Names

LEMMA AttributesPart ==
  ASSUME NEW from \in Int, NEW to \in Int, from >= 1, to <= Len(Attributes)
  PROVE  SubSeq(Attributes, from, to) \in Seq(Names)
<1>1. \A i \in from..to : Attributes[i] \in Names
  BY AttributesProperties
<1>2. QED BY <1>1, SubSeqProperties

LEMMA SeenGrows ==
  ASSUME Types, NEW e \in Objects, NEW part \in Seq(Names),
         seen' = [seen EXCEPT ![e] = @ \o part]
  PROVE  seen' \in [Objects -> Seq(Names)]
<1>1. seen[e] \o part \in Seq(Names)
  BY ConcatProperties DEF Types
<1>2. QED BY <1>1 DEF Types

\* What a new object adds.
LEMMA NewCounts ==
  ASSUME HostInv, NEW o \in Objects, NEW k \in Kinds, NEW from \in Nat, NEW past \in Seq(Names),
         New(o, k, from, past)
  PROVE  Types' /\ refs' = refs + 1 /\ Users' = Users + 1 /\ UNCHANGED loaded
<1>1. Types'
  BY DEF New, HostInv, Types
<1>2. Live' = Live \cup {o} /\ o \notin Live
  BY DEF New, HostInv, Types, Live, Free, Is
<1>3. Cardinality(Live') = Cardinality(Live) + 1
  BY <1>2, LiveIsFinite, FS_AddElement
<1>4. refs' = refs + 1 /\ UNCHANGED <<locks, workers, loaded>>
  BY DEF New
<1>5. locks \in Nat /\ workers \in Nat
  BY DEF HostInv, Types
<1>6. QED BY <1>1, <1>3, <1>4, <1>5, LiveIsFinite DEF Users

\* What the last reference to an object takes with it.
LEMMA ReleaseCounts ==
  ASSUME HostInv, NEW o \in Objects, Release(o)
  PROVE  Types' /\ refs' - refs = Users' - Users /\ UNCHANGED loaded
<1>1. Types'
  <2>1. <<>> \in Seq(Names)
    OBVIOUS
  <2>2. CASE count[o] > 1
    BY <2>2 DEF Release, HostInv, Types
  <2>3. CASE ~(count[o] > 1)
    <3>1. /\ kind' = [kind EXCEPT ![o] = "none"] /\ count' = [count EXCEPT ![o] = 0]
          /\ index' = [index EXCEPT ![o] = 0] /\ seen' = [seen EXCEPT ![o] = <<>>]
          /\ refs' = refs - 1 /\ UNCHANGED <<locks, workers, loaded>>
      BY <2>3 DEF Release
    <3>2. seen' \in [Objects -> Seq(Names)]
      BY <2>1, <3>1 DEF HostInv, Types
    <3>3. QED BY <3>1, <3>2 DEF HostInv, Types
  <2>4. QED BY <2>2, <2>3
<1>2. CASE count[o] > 1
  <2>1. UNCHANGED <<kind, refs, locks, workers, loaded>>
    BY <1>2 DEF Release
  <2>2. UNCHANGED Users
    BY <2>1 DEF Users, Live
  <2>3. QED BY <1>1, <2>1, <2>2, UsersNeedIt DEF HostInv, Types
<1>3. CASE ~(count[o] > 1)
  <2>1. Live' = Live \ {o} /\ o \in Live
    BY <1>3 DEF Release, HostInv, Types, Live
  <2>2. Cardinality(Live') = Cardinality(Live) - 1
    BY <2>1, LiveIsFinite, FS_RemoveElement
  <2>3. QED BY <1>1, <1>3, <2>2, LiveIsFinite DEF Release, Users, HostInv, Types
<1>4. QED BY <1>2, <1>3

\* The infos that one Next makes.
LEMMA NextCounts ==
  ASSUME HostInv, NEW e \in Objects, NextInfos(e)
  PROVE  Types' /\ refs' - refs = Users' - Users /\ UNCHANGED loaded
<1>1. PICK new \in SUBSET Free :
        /\ Cardinality(new) \in 1..(Len(Attributes) - index[e])
        /\ \E item \in Bijection(new, (index[e] + 1)..(index[e] + Cardinality(new))) :
             /\ kind' = [o \in Objects |-> IF o \in new THEN "info" ELSE kind[o]]
             /\ count' = [o \in Objects |-> IF o \in new THEN 1 ELSE count[o]]
             /\ index' = [o \in Objects |-> IF o \in new THEN item[o]
                                            ELSE IF o = e THEN index[e] + Cardinality(new)
                                            ELSE index[o]]
        /\ seen' = [seen EXCEPT ![e] = @ \o SubSeq(Attributes, index[e] + 1,
                                                   index[e] + Cardinality(new))]
        /\ refs' = refs + Cardinality(new)
  BY DEF NextInfos
<1>2. PICK item \in Bijection(new, (index[e] + 1)..(index[e] + Cardinality(new))) :
        /\ kind' = [o \in Objects |-> IF o \in new THEN "info" ELSE kind[o]]
        /\ count' = [o \in Objects |-> IF o \in new THEN 1 ELSE count[o]]
        /\ index' = [o \in Objects |-> IF o \in new THEN item[o]
                                       ELSE IF o = e THEN index[e] + Cardinality(new)
                                       ELSE index[o]]
  BY <1>1
<1>3. UNCHANGED <<locks, workers, loaded>>
  BY DEF NextInfos
<1>4. new \subseteq Objects /\ IsFiniteSet(new) /\ Cardinality(new) \in Nat
  <2>1. new \in SUBSET Objects
    BY DEF Free, Is
  <2>2. QED BY <2>1, FS_Subset, FS_CardinalityType
<1>5. Types'
  <2>1. \A o \in new : item[o] \in Nat
    BY <1>4 DEF Bijection, Injection, HostInv, Types
  <2>2. index' \in [Objects -> Nat]
    BY <1>2, <1>4, <2>1 DEF HostInv, Types
  <2>3. seen' \in [Objects -> Seq(Names)]
    <3>1. SubSeq(Attributes, index[e] + 1, index[e] + Cardinality(new)) \in Seq(Names)
      <4>1. index[e] \in Nat /\ index[e] + Cardinality(new) <= Len(Attributes)
        BY <1>1, <1>4, AttributesProperties DEF HostInv, Types
      <4>2. QED BY <4>1, <1>4, AttributesPart
    <3>2. QED BY <1>1, <3>1, SeenGrows DEF HostInv
  <2>4. kind' \in [Objects -> Kinds \cup {"none"}] /\ count' \in [Objects -> Int]
    BY <1>2, <1>4 DEF HostInv, Types
  <2>5. refs' \in Int
    BY <1>1, <1>4 DEF HostInv, Types
  <2>6. QED BY <1>3, <2>2, <2>3, <2>4, <2>5 DEF HostInv, Types
<1>6. Cardinality(Live') = Cardinality(Live) + Cardinality(new)
  <2>1. Live' = Live \cup new /\ Live \cap new = {}
    BY <1>2, <1>4 DEF Live, Free, Is, HostInv, Types
  <2>2. Cardinality(Live \cup new)
          = Cardinality(Live) + Cardinality(new) - Cardinality(Live \cap new)
    BY <1>4, LiveIsFinite, FS_Union
  <2>3. Cardinality(Live \cap new) = 0
    BY <2>1, FS_EmptySet
  <2>4. QED BY <1>4, <2>1, <2>2, <2>3, LiveIsFinite
<1>7. locks \in Nat /\ workers \in Nat /\ refs \in Int
  BY DEF HostInv, Types
<1>8. QED BY <1>1, <1>3, <1>4, <1>5, <1>6, <1>7, LiveIsFinite DEF Users

\* Where a step neither makes nor ends an object.
LEMMA SameObjects ==
  ASSUME UNCHANGED kind
  PROVE  UNCHANGED Cardinality(Live)
BY DEF Live

LEMMA SkipCounts ==
  ASSUME HostInv, NEW e \in Objects, NEW n \in Nat, Skip(e, n)
  PROVE  Types' /\ UNCHANGED <<refs, Users, loaded>>
<1> DEFINE to == IF n >= Len(Attributes) - index[e] THEN Len(Attributes) ELSE index[e] + n
<1>1. /\ index' = [index EXCEPT ![e] = to]
      /\ seen' = [seen EXCEPT ![e] = @ \o SubSeq(Attributes, index[e] + 1, to)]
      /\ UNCHANGED <<kind, count, locks, workers, refs, loaded>>
  BY DEF Skip
<1>2. to \in Nat /\ to <= Len(Attributes)
  BY DEF HostInv, Types, Attributes
<1> HIDE DEF to
<1>3. Types'
  <2>1. SubSeq(Attributes, index[e] + 1, to) \in Seq(Names)
    <3>1. index[e] + 1 \in Int /\ index[e] + 1 >= 1
      BY DEF HostInv, Types
    <3>2. QED BY <1>2, <3>1, AttributesPart
  <2>2. seen' \in [Objects -> Seq(Names)]
    BY <1>1, <2>1, SeenGrows DEF HostInv
  <2>3. QED BY <1>1, <1>2, <2>2 DEF HostInv, Types
<1>4. QED BY <1>1, <1>3, SameObjects DEF Users

----------------------------------------------------------------------------
\* A user that comes or goes is counted, and only while the DLL is mapped.
Counts == /\ loaded /\ UNCHANGED loaded
          /\ refs' - refs = Users' - Users

LEMMA ServeCounts ==
  ASSUME HostInv, Serve
  PROVE  Types' /\ Counts
<1> USE DEF Counts
<1>1. \A k \in Kinds : Is(k) # {} => loaded
  BY KindIsLive, UsersNeedIt
<1>2. \A o \in Live : loaded
  BY UsersNeedIt
<1>3. <<>> \in Seq(Names) /\ Users \in Nat /\ refs \in Int
  BY UsersNeedIt DEF HostInv, Types
<1>4. ASSUME NEW o \in Objects, NEW k \in Kinds, NEW from \in Nat, NEW past \in Seq(Names),
             New(o, k, from, past)
      PROVE  Types' /\ refs' - refs = Users' - Users /\ UNCHANGED loaded
  BY <1>3, <1>4, NewCounts
<1>5. CASE CreateInstance \/ EnumDisplayAttributeInfo
  BY <1>5, <1>1, <1>3, <1>4 DEF CreateInstance, EnumDisplayAttributeInfo
<1>6. CASE GetDisplayAttributeInfo
  <2>1. DOMAIN Attributes \subseteq Nat
    BY AttributesProperties
  <2>2. QED BY <1>6, <1>1, <1>3, <1>4, <2>1 DEF GetDisplayAttributeInfo
<1>7. ASSUME NEW lock \in BOOLEAN, LockServer(lock) PROVE Types' /\ Counts
  <2>1. loaded
    BY <1>7, <1>1 DEF LockServer
  <2>2. UNCHANGED objects
    BY <1>7 DEF LockServer
  <2>3. UNCHANGED Cardinality(Live)
    BY <2>2, SameObjects
  <2>4. UNCHANGED <<workers, loaded>> /\ locks' \in Nat /\ refs' - refs = locks' - locks
        /\ refs' \in Int
    BY <1>7 DEF LockServer, HostInv, Types
  <2>5. QED BY <2>1, <2>2, <2>3, <2>4, LiveIsFinite DEF Users, HostInv, Types
<1>8. CASE Dispatch \/ WorkerEnds
  <2>1. loaded
    BY <1>8, <1>1, UsersNeedIt DEF Dispatch, WorkerEnds
  <2>2. UNCHANGED objects
    BY <1>8 DEF Dispatch, WorkerEnds
  <2>3. UNCHANGED Cardinality(Live)
    BY <2>2, SameObjects
  <2>4. UNCHANGED <<locks, loaded>> /\ workers' \in Nat /\ refs' - refs = workers' - workers
        /\ refs' \in Int
    BY <1>8 DEF Dispatch, WorkerEnds, HostInv, Types
  <2>5. QED BY <2>1, <2>2, <2>3, <2>4, LiveIsFinite DEF Users, HostInv, Types
<1>9. ASSUME NEW o \in Objects, AddRef(o) PROVE Types' /\ Counts
  <2>1. /\ o \in Live /\ count' = [count EXCEPT ![o] = @ + 1]
        /\ UNCHANGED <<kind, index, seen, locks, workers, refs, loaded>>
    BY <1>9 DEF AddRef
  <2>2. UNCHANGED Users
    BY <2>1, SameObjects DEF Users
  <2>3. QED BY <1>2, <1>3, <2>1, <2>2 DEF HostInv, Types
<1>10. ASSUME NEW o \in Objects, Release(o) PROVE Types' /\ Counts
  <2>1. loaded
    BY <1>10, <1>2 DEF Release
  <2>2. QED BY <1>10, <2>1, ReleaseCounts
<1>11. ASSUME NEW e \in Objects, Enumerate(e) PROVE Types' /\ Counts
  <2>1. loaded
    BY <1>11, <1>1 DEF Enumerate, Clone, NextInfos, Reset, Skip
  <2>2. CASE Clone(e)
    <3>1. index[e] \in Nat /\ seen[e] \in Seq(Names)
      BY DEF HostInv, Types
    <3>2. QED BY <2>1, <2>2, <1>4, <3>1 DEF Clone
  <2>3. CASE NextInfos(e)
    BY <2>1, <2>3, NextCounts
  <2>4. CASE Reset(e)
    <3>1. /\ index' = [index EXCEPT ![e] = 0] /\ seen' = [seen EXCEPT ![e] = <<>>]
          /\ UNCHANGED <<kind, count, locks, workers, refs, loaded>>
      BY <2>4 DEF Reset
    <3>2. UNCHANGED Users
      BY <3>1, SameObjects DEF Users
    <3>3. QED BY <1>3, <2>1, <3>1, <3>2 DEF HostInv, Types
  <2>5. ASSUME NEW n \in 1..(Len(Attributes) + 1), Skip(e, n) PROVE Types' /\ Counts
    <3>1. n \in Nat
      BY AttributesProperties
    <3>2. Types' /\ UNCHANGED <<refs, Users, loaded>>
      BY <2>5, <3>1, SkipCounts
    <3>3. QED BY <1>3, <2>1, <3>2
  <2>6. QED BY <1>11, <2>2, <2>3, <2>4, <2>5 DEF Enumerate
<1>12. QED BY <1>5, <1>6, <1>7, <1>8, <1>9, <1>10, <1>11 DEF Serve

LEMMA HostInitEstablishes == HostInit => HostInv /\ Users = 0
<1> SUFFICES ASSUME HostInit PROVE HostInv /\ Users = 0
  OBVIOUS
<1>1. Live = {}
  BY DEF HostInit, Live
<1>2. Users = 0
  BY <1>1, FS_EmptySet DEF HostInit, Users
<1>3. <<>> \in Seq(Names)
  OBVIOUS
<1>4. Types
  <2>1. seen \in [Objects -> Seq(Names)]
    BY <1>3 DEF HostInit
  <2>2. /\ kind \in [Objects -> Kinds \cup {"none"}] /\ count \in [Objects -> Int]
        /\ index \in [Objects -> Nat]
    <3>1. /\ kind = [o \in Objects |-> "none"] /\ count = [o \in Objects |-> 0]
          /\ index = [o \in Objects |-> 0]
      BY DEF HostInit
    <3>2. QED BY <3>1
  <2>3. locks \in Nat /\ workers \in Nat /\ refs \in Int /\ loaded \in BOOLEAN
    <3>1. locks = 0 /\ workers = 0 /\ refs = 0
      BY DEF HostInit
    <3>2. loaded \in BOOLEAN
      BY DEF HostInit
    <3>3. QED BY <3>1, <3>2
  <2>4. QED BY <2>1, <2>2, <2>3 DEF Types
<1>5. ~loaded
  BY DEF HostInit
<1>6. QED BY <1>2, <1>4, <1>5 DEF HostInv, Counted, RefsCountTheUsers

\* Every step keeps the count, and is one of PinnedDll's.
LEMMA HostStepPreserves ==
  ASSUME HostInv, [HostNext]_process
  PROVE  HostInv' /\ [Pinned!Next]_<<loaded, Users>>
<1> USE DEF Pinned!Next, Pinned!Map, Pinned!Use, Pinned!Unmap
<1>1. Users \in Nat /\ refs \in Int /\ loaded \in BOOLEAN
  BY UsersNeedIt DEF HostInv, Types
<1>2. ASSUME Types', Counts PROVE HostInv' /\ Pinned!Use
  <2>1. Users' \in Nat /\ refs' \in Int
    BY <1>2, LiveIsFiniteNext DEF Users, Types
  <2>2. loaded /\ loaded' = loaded /\ refs = Users /\ refs' - refs = Users' - Users
    BY <1>2 DEF Counts, HostInv, Counted, RefsCountTheUsers
  <2>3. refs' = Users'
    BY <1>1, <2>1, <2>2
  <2>4. QED BY <1>2, <2>1, <2>2, <2>3 DEF HostInv, Counted, RefsCountTheUsers
<1>3. CASE Load
  <2>1. UNCHANGED Users
    BY <1>3, SameObjects DEF Load, Users
  <2>2. /\ ~loaded /\ loaded' = TRUE /\ refs' = 0
        /\ UNCHANGED <<objects, locks, workers>>
    BY <1>3 DEF Load
  <2>3. Types'
    BY <2>2 DEF HostInv, Types
  <2>4. Users = 0
    BY <2>2 DEF HostInv, Counted
  <2>5. QED BY <2>1, <2>2, <2>3, <2>4 DEF HostInv, Counted, RefsCountTheUsers
<1>4. CASE DllGetClassObject
  <2>1. <<>> \in Seq(Names)
    OBVIOUS
  <2>2. Types' /\ Counts
    <3>1. PICK o \in Objects : New(o, "factory", 0, <<>>)
      BY <1>4 DEF DllGetClassObject
    <3>2. Types' /\ refs' = refs + 1 /\ Users' = Users + 1 /\ UNCHANGED loaded
      BY <2>1, <3>1, NewCounts
    <3>3. loaded
      BY <1>4 DEF DllGetClassObject
    <3>4. QED BY <1>1, <3>2, <3>3 DEF Counts
  <2>3. QED BY <1>2, <2>2
<1>5. CASE Serve
  BY <1>2, <1>5, ServeCounts
<1>6. CASE Unload
  <2>1. UNCHANGED Users
    BY <1>6, SameObjects DEF Unload, Users
  <2>2. /\ loaded /\ refs <= 0 /\ loaded' = FALSE
        /\ UNCHANGED <<objects, locks, workers, refs>>
    BY <1>6 DEF Unload
  <2>3. Types'
    BY <2>2 DEF HostInv, Types
  <2>4. Users = 0
    BY <1>1, <2>2 DEF HostInv, Counted, RefsCountTheUsers
  <2>5. QED BY <2>1, <2>2, <2>3, <2>4 DEF HostInv, Counted, RefsCountTheUsers
<1>7. CASE UNCHANGED process
  <2>1. UNCHANGED Users
    BY <1>7, SameObjects DEF process, Users
  <2>2. QED BY <1>7, <2>1 DEF process, HostInv, Types, Counted, RefsCountTheUsers
<1>8. QED BY <1>3, <1>4, <1>5, <1>6, <1>7 DEF HostNext

\* g_cRefDll is the number of objects, locks and workers that need the DLL, at
\* every instant the DLL is mapped (DisplayAttribute.cpp:87, ClassFactory.cpp:7).
THEOREM RefsAreUsers == HostSpec => []RefsCountTheUsers
<1>1. HostInv => RefsCountTheUsers
  BY DEF HostInv, Counted
<1>2. QED BY <1>1, HostInitEstablishes, HostStepPreserves, PTL DEF HostSpec

\* The DLL is mapped as long as anything in it is used, and unmapped only when
\* nobody uses it.
THEOREM DllStaysWhileUsed == HostSpec => ImplementsPinnedDll
<1>1. HostInit => Pinned!Init
  BY HostInitEstablishes DEF HostInit, Pinned!Init
<1>2. QED BY <1>1, HostInitEstablishes, HostStepPreserves, PTL
          DEF HostSpec, ImplementsPinnedDll, Pinned!Spec

----------------------------------------------------------------------------
\* What an enumerator that stands at i has handed out or skipped.
Upto(i) == SubSeq(Attributes, 1, i)

InPlace == Placed /\ EnumeratorsMissNothing

LEMMA UptoStart == Upto(0) = <<>>
BY SubSeqEmpty DEF Upto

LEMMA UptoFollows ==
  ASSUME NEW i \in Nat, NEW j \in Nat, i <= j, j <= Len(Attributes)
  PROVE  Upto(i) \o SubSeq(Attributes, i + 1, j) = Upto(j)
<1>1. /\ 1 \in 1..(Len(Attributes) + 1) /\ i \in (1 - 1)..Len(Attributes)
      /\ j \in i..Len(Attributes)
  BY AttributesProperties
<1>2. QED BY <1>1, AttributesProperties, ConcatAdjacentSubSeq DEF Upto

\* A new object that is no enumerator, or one that stands where it says.
LEMMA NewInPlace ==
  ASSUME Types, InPlace, NEW o \in Objects, NEW k \in Kinds, NEW from, NEW past,
         New(o, k, from, past),
         k = "enumerator" => from \in 0..Len(Attributes) /\ past = Upto(from)
  PROVE  InPlace'
<1>1. /\ kind' = [kind EXCEPT ![o] = k]
      /\ index' = [index EXCEPT ![o] = from] /\ seen' = [seen EXCEPT ![o] = past]
  BY DEF New
<1>2. QED BY <1>1 DEF Types, InPlace, Placed, EnumeratorsMissNothing, Is, Upto

\* An enumerator that moves on to j hands out or skips what lies between.
LEMMA MoveInPlace ==
  ASSUME Types, InPlace, NEW e \in Is("enumerator"), NEW j \in Nat,
         index[e] <= j, j <= Len(Attributes),
         \A o \in Objects : kind'[o] = "enumerator" => /\ kind[o] = "enumerator"
                                                       /\ o # e => index'[o] = index[o],
         index'[e] = j,
         seen' = [seen EXCEPT ![e] = @ \o SubSeq(Attributes, index[e] + 1, j)]
  PROVE  InPlace'
<1>1. e \in Objects /\ index[e] \in Nat /\ seen[e] = Upto(index[e])
  BY DEF Types, InPlace, Placed, EnumeratorsMissNothing, Is, Upto
<1>2. seen'[e] = Upto(j)
  BY <1>1, UptoFollows DEF Types
<1>3. \A o \in Objects : o # e => seen'[o] = seen[o]
  BY <1>1 DEF Types
<1>4. ASSUME NEW o \in Objects, kind'[o] = "enumerator"
      PROVE  index'[o] \in 0..Len(Attributes) /\ seen'[o] = Upto(index'[o])
  <2>1. CASE o = e
    <3>1. j \in 0..Len(Attributes)
      BY AttributesProperties
    <3>2. QED BY <1>2, <2>1, <3>1
  <2>2. CASE o # e
    <3>1. o \in Is("enumerator") /\ index'[o] = index[o] /\ seen'[o] = seen[o]
      BY <1>3, <1>4, <2>2 DEF Is
    <3>2. QED BY <3>1 DEF InPlace, Placed, EnumeratorsMissNothing, Upto
  <2>3. QED BY <2>1, <2>2
<1>5. QED BY <1>4 DEF InPlace, Placed, EnumeratorsMissNothing, Is, Upto

LEMMA EnumerateInPlace ==
  ASSUME Types, InPlace, NEW e \in Objects, Enumerate(e)
  PROVE  InPlace'
<1>1. e \in Is("enumerator") /\ index[e] \in 0..Len(Attributes) /\ seen[e] = Upto(index[e])
  BY DEF Enumerate, Clone, NextInfos, Reset, Skip, InPlace, Placed,
         EnumeratorsMissNothing, Upto
<1>2. CASE Clone(e)
  BY <1>1, <1>2, NewInPlace DEF Clone
<1>3. CASE NextInfos(e)
  <2>1. PICK new \in SUBSET Free :
          /\ Cardinality(new) \in 1..(Len(Attributes) - index[e])
          /\ kind' = [o \in Objects |-> IF o \in new THEN "info" ELSE kind[o]]
          /\ \A o \in Objects \ new :
               index'[o] = IF o = e THEN index[e] + Cardinality(new) ELSE index[o]
          /\ seen' = [seen EXCEPT ![e] = @ \o SubSeq(Attributes, index[e] + 1,
                                                     index[e] + Cardinality(new))]
    BY <1>3 DEF NextInfos
  <2> DEFINE j == index[e] + Cardinality(new)
  <2>2. j \in Nat /\ index[e] <= j /\ j <= Len(Attributes)
    <3>1. /\ Cardinality(new) \in Nat /\ index[e] \in Nat /\ Len(Attributes) \in Nat
          /\ Cardinality(new) <= Len(Attributes) - index[e]
      BY <1>1, <2>1, AttributesProperties
    <3>2. QED BY <3>1
  <2>3. e \notin new
    BY <1>1, <2>1 DEF Free, Is
  <2>4. \A o \in Objects : kind'[o] = "enumerator" => /\ kind[o] = "enumerator"
                                                      /\ o # e => index'[o] = index[o]
    BY <2>1
  <2>5. index'[e] = j
    BY <2>1, <2>3
  <2> HIDE DEF j
  <2>6. seen' = [seen EXCEPT ![e] = @ \o SubSeq(Attributes, index[e] + 1, j)]
    BY <2>1 DEF j
  <2>7. QED BY <1>1, <2>2, <2>4, <2>5, <2>6, MoveInPlace
<1>4. CASE Reset(e)
  <2>1. /\ index' = [index EXCEPT ![e] = 0] /\ seen' = [seen EXCEPT ![e] = <<>>]
        /\ UNCHANGED kind
    BY <1>4 DEF Reset
  <2>2. 0 \in 0..Len(Attributes)
    BY AttributesProperties
  <2>3. QED BY <2>1, <2>2, UptoStart DEF Types, InPlace, Placed, EnumeratorsMissNothing,
              Is, Upto
<1>5. ASSUME NEW n \in 1..(Len(Attributes) + 1), Skip(e, n) PROVE InPlace'
  <2> DEFINE j == IF n >= Len(Attributes) - index[e] THEN Len(Attributes) ELSE index[e] + n
  <2>1. /\ index' = [index EXCEPT ![e] = j]
        /\ seen' = [seen EXCEPT ![e] = @ \o SubSeq(Attributes, index[e] + 1, j)]
        /\ UNCHANGED kind
    BY <1>5 DEF Skip
  <2>2. j \in Nat /\ index[e] <= j /\ j <= Len(Attributes)
    BY <1>1, AttributesProperties
  <2> HIDE DEF j
  <2>3. index'[e] = j /\ \A o \in Objects : o # e => index'[o] = index[o]
    BY <2>1 DEF Types
  <2>4. QED BY <1>1, <2>1, <2>2, <2>3, MoveInPlace
<1>6. QED BY <1>2, <1>3, <1>4, <1>5 DEF Enumerate

LEMMA StepInPlace ==
  ASSUME Types, InPlace, [HostNext]_process
  PROVE  InPlace'
<1>1. 0 \in 0..Len(Attributes)
  BY AttributesProperties
<1>2. CASE DllGetClassObject
  BY <1>2, NewInPlace DEF DllGetClassObject
<1>3. CASE CreateInstance
  BY <1>3, NewInPlace DEF CreateInstance
<1>4. CASE EnumDisplayAttributeInfo
  BY <1>4, <1>1, UptoStart, NewInPlace DEF EnumDisplayAttributeInfo
<1>5. CASE GetDisplayAttributeInfo
  BY <1>5, NewInPlace DEF GetDisplayAttributeInfo
<1>6. ASSUME NEW o \in Objects, AddRef(o) PROVE InPlace'
  BY <1>6 DEF AddRef, InPlace, Placed, EnumeratorsMissNothing, Is
<1>7. ASSUME NEW o \in Objects, Release(o) PROVE InPlace'
  BY <1>7 DEF Release, Types, InPlace, Placed, EnumeratorsMissNothing, Is
<1>8. ASSUME NEW e \in Objects, Enumerate(e) PROVE InPlace'
  BY <1>8, EnumerateInPlace
<1>9. CASE UNCHANGED objects
  BY <1>9 DEF InPlace, Placed, EnumeratorsMissNothing, Is
<1>10. CASE Serve
  <2>1. ASSUME NEW lock \in BOOLEAN, LockServer(lock) PROVE UNCHANGED objects
    BY <2>1 DEF LockServer
  <2>2. Dispatch \/ WorkerEnds => UNCHANGED objects
    BY DEF Dispatch, WorkerEnds
  <2>3. QED BY <1>3, <1>4, <1>5, <1>6, <1>7, <1>8, <1>9, <1>10, <2>1, <2>2 DEF Serve
<1>11. Load \/ Unload \/ UNCHANGED process => UNCHANGED objects
  BY DEF Load, Unload, process
<1>12. QED BY <1>2, <1>9, <1>10, <1>11 DEF HostNext

\* An enumerator hands out each attribute once and in order between two resets,
\* however many it is asked for and wherever memory runs out, and so does its
\* clone (DisplayAttribute.cpp:118 and 130).
THEOREM EnumeratorsKeepTheirPlace == HostSpec => []EnumeratorsMissNothing
<1>1. HostInit => InPlace
  BY DEF HostInit, InPlace, Placed, EnumeratorsMissNothing, Is
<1>2. HostInv /\ InPlace /\ [HostNext]_process => InPlace'
  BY StepInPlace DEF HostInv
<1>3. InPlace => EnumeratorsMissNothing
  BY DEF InPlace
<1>4. QED BY <1>1, <1>2, <1>3, HostInitEstablishes, HostStepPreserves, PTL DEF HostSpec

----------------------------------------------------------------------------
\* The registration.

Registering   == {"key", "inproc", "path", "model", "tip", "profile", "manager", "categories"}
Unregistering == {"uncategories", "unprofile", "uninproc", "unkey"}

\* What a registration has done so far is there.
Done ==
  /\ at \in {"idle"} \cup Registering \cup Unregistering
  /\ at \in Registering => dll \in Copies /\ outcome = "running"
  /\ at \in Registering \ {"key"} => key
  /\ at \in Registering \ {"key", "inproc"} => inproc
  /\ at \in Registering \ {"key", "inproc", "path"} => path = dll
  /\ at \in {"tip", "profile", "manager", "categories"} => model
  /\ at \in {"profile", "manager", "categories"} => tip
  /\ at \in {"manager", "categories"} => listed

\* What an unregistration has undone so far is gone.
Undone ==
  /\ at \in Unregistering => outcome \in {"failed", "unregistered"}
  /\ at \in {"uninproc", "unkey"} => ~tip /\ ~listed
  /\ at = "unkey" => ~inproc

\* A profile has its server.
Served == listed => key /\ inproc /\ path \in Copies /\ model

\* The loops over the categories, as far as they have come.
Loops ==
  /\ categories \subseteq Categories
  /\ at = "categories" /\ ~refused => Categories \subseteq categories \cup todo
  /\ at = "uncategories" => categories \subseteq todo
  /\ at \in {"unprofile", "uninproc", "unkey"} => categories = {}

RegistryInv == Done /\ Undone /\ Served

----------------------------------------------------------------------------
USE DEF Go, Fails, Granted, server, profile, run, loop, RollBack, Registering, Unregistering

LEMMA RegistryInitEstablishes == RegistryInit => RegistryInv /\ Loops /\ AllOrNothing
BY DEF RegistryInit, RegistryInv, Done, Undone, Served, Loops, AllOrNothing, Unheard, Unserved

\* The steps that choose between success and failure, where they cannot fail.
LEMMA ValuesAreWritten ==
  ASSUME "noValue" \notin Faults
  PROVE  /\ SetPath  => \/ /\ Go("path", "model") /\ path' = dll
                            /\ UNCHANGED <<key, inproc, model, profile, categories, run, loop>>
                         \/ RollBack("path")
         /\ SetModel => /\ Go("model", "tip") /\ model'
                         /\ UNCHANGED <<key, inproc, path, profile, categories, run, loop>>
<1>1. Granted("noValue") = {TRUE}
  OBVIOUS
<1> HIDE DEF Granted
<1>2. QED BY <1>1 DEF SetPath, SetModel

LEMMA ProfilesAreTakenBack ==
  ASSUME "keepsProfile" \notin Faults
  PROVE  UnregisterProfiles => /\ Go("unprofile", "uninproc") /\ ~tip' /\ ~listed'
                               /\ UNCHANGED <<server, categories, run, loop>>
<1>1. Granted("keepsProfile") = {TRUE}
  OBVIOUS
<1> HIDE DEF Granted
<1>2. QED BY <1>1 DEF UnregisterProfiles

LEMMA CategoriesAreTakenBack ==
  ASSUME "keepsCategories" \notin Faults
  PROVE  \A category : UnregisterCategory(category) =>
           /\ at = "uncategories" /\ todo' = todo \ {category}
           /\ categories' = categories \ {category}
           /\ UNCHANGED <<server, profile, at, run, refused>>
<1>1. Granted("keepsCategories") = {TRUE}
  OBVIOUS
<1> HIDE DEF Granted
<1>2. QED BY <1>1 DEF UnregisterCategory

\* Every action, where values can be written and profiles taken back.
LEMMA RegistryStepPreserves ==
  ASSUME "noValue" \notin Faults, "keepsProfile" \notin Faults, RegistryInv, [RegistryNext]_registry
  PROVE  RegistryInv'
<1> USE DEF RegistryInv, Done, Undone, Served
<1>1. ASSUME NEW copy \in Copies, Register(copy) PROVE RegistryInv'
  BY <1>1 DEF Register
<1>2. CASE Unregister
  BY <1>2 DEF Unregister
<1>3. CASE CreateKey \/ CreateInProc
  BY <1>3 DEF CreateKey, CreateInProc
<1>4. CASE SetPath \/ SetModel
  <2>1. CASE RollBack("path")
    BY <2>1
  <2>2. CASE /\ Go("path", "model") /\ path' = dll
             /\ UNCHANGED <<key, inproc, model, profile, categories, run, loop>>
    BY <2>2
  <2>3. CASE SetModel
    BY <2>3, ValuesAreWritten
  <2>4. QED BY <1>4, <2>1, <2>2, <2>3, ValuesAreWritten
<1>5. CASE RegisterTip \/ AddLanguageProfile
  BY <1>5 DEF RegisterTip, AddLanguageProfile
<1>6. CASE CreateCategoryMgr \/ Registered
  BY <1>6 DEF CreateCategoryMgr, Registered
<1>7. ASSUME NEW category \in Categories,
             RegisterCategory(category) \/ UnregisterCategory(category)
      PROVE  RegistryInv'
  <2>1. UNCHANGED <<server, profile, at, run>>
    BY <1>7 DEF RegisterCategory, UnregisterCategory
  <2>2. QED BY <2>1
<1>8. CASE CategoriesGone \/ UnregisterProfiles
  BY <1>8, ProfilesAreTakenBack DEF CategoriesGone
<1>9. CASE DeleteInProc \/ DeleteKey
  <2>1. at' # "unkey" \/ ~inproc'
    BY <1>9 DEF DeleteInProc, DeleteKey, Stay
  <2>2. ~listed'
    BY <1>9 DEF DeleteInProc, DeleteKey, Stay
  <2>3. at' \in {"idle", "unkey"} /\ UNCHANGED outcome
    BY <1>9 DEF DeleteInProc, DeleteKey, Stay
  <2>4. outcome \in {"failed", "unregistered"}
    BY <1>9 DEF DeleteInProc, DeleteKey, Stay
  <2>5. ~tip'
    <3>1. at \in {"uninproc", "unkey"} /\ UNCHANGED tip
      BY <1>9 DEF DeleteInProc, DeleteKey, Stay
    <3>2. QED BY <3>1
  <2>6. QED BY <2>1, <2>2, <2>3, <2>4, <2>5
<1>10. CASE Kill
  BY <1>10 DEF Kill
<1>11. CASE UNCHANGED registry
  BY <1>11 DEF registry
<1>12. QED BY <1>1, <1>2, <1>3, <1>4, <1>5, <1>6, <1>7, <1>8, <1>9, <1>10, <1>11 DEF RegistryNext

\* What is offered can be had, at every instant (dllmain.cpp:37 and 44), where
\* values can be written and profiles taken back.
THEOREM OfferedCanBeHad ==
  ASSUME "noValue" \notin Faults, "keepsProfile" \notin Faults
  PROVE  RegistrySpec => []ListedIsLoadable
<1>1. RegistryInv => ListedIsLoadable
  BY DEF RegistryInv, Served, ListedIsLoadable, Whole
<1>2. QED BY <1>1, RegistryInitEstablishes, RegistryStepPreserves, PTL DEF RegistrySpec

----------------------------------------------------------------------------
Whence == RegistryInv /\ Loops /\ AllOrNothing

\* The loops and the end of a run, where categories can be taken back as well.
LEMMA StepIsAllOrNothing ==
  ASSUME "noValue" \notin Faults, "keepsProfile" \notin Faults,
         "keepsCategories" \notin Faults, Whence, [RegistryNext]_registry
  PROVE  Whence'
<1>0. RegistryInv'
  BY RegistryStepPreserves DEF Whence
<1> SUFFICES Loops' /\ AllOrNothing'
  BY <1>0 DEF Whence
<1> USE DEF Whence, RegistryInv, Done, Undone, Loops, AllOrNothing, Whole, Unheard, Unserved
<1>1. ASSUME NEW copy \in Copies, Register(copy) PROVE Loops' /\ AllOrNothing'
  BY <1>1 DEF Register
<1>2. CASE Unregister
  BY <1>2 DEF Unregister
<1>3. CASE CreateKey \/ CreateInProc
  BY <1>3 DEF CreateKey, CreateInProc
<1>4. CASE SetPath \/ SetModel
  BY <1>4, ValuesAreWritten
<1>5. CASE RegisterTip \/ AddLanguageProfile
  BY <1>5 DEF RegisterTip, AddLanguageProfile
<1>6. CASE CreateCategoryMgr
  BY <1>6 DEF CreateCategoryMgr
<1>7. CASE Registered
  BY <1>7 DEF Registered
<1>8. ASSUME NEW category \in Categories, RegisterCategory(category)
      PROVE  Loops' /\ AllOrNothing'
  BY <1>8 DEF RegisterCategory
<1>9. ASSUME NEW category \in Categories, UnregisterCategory(category)
      PROVE  Loops' /\ AllOrNothing'
  BY <1>9, CategoriesAreTakenBack
<1>10. CASE CategoriesGone \/ UnregisterProfiles
  BY <1>10, ProfilesAreTakenBack DEF CategoriesGone
<1>11. CASE DeleteInProc \/ DeleteKey
  <2>1. ASSUME NEW from \in {"uninproc", "unkey"}, Stay(from) PROVE Loops' /\ AllOrNothing'
    <3>1. /\ at = from /\ at' = "idle" /\ kept'
          /\ UNCHANGED <<profile, categories, outcome, loop>>
      BY <2>1 DEF Stay
    <3>2. outcome' \in {"failed", "unregistered"} /\ Unheard'
      BY <3>1
    <3>3. QED BY <3>1, <3>2
  <2>2. \/ Stay("uninproc") \/ Stay("unkey")
        \/ Go("uninproc", "unkey") /\ UNCHANGED <<categories, run, loop>>
        \/ Go("unkey", "idle") /\ ~key' /\ UNCHANGED <<inproc, profile, categories, run, loop>>
    BY <1>11 DEF DeleteInProc, DeleteKey
  <2>3. CASE Go("uninproc", "unkey") /\ UNCHANGED <<categories, run, loop>>
    BY <2>3
  <2>4. CASE Go("unkey", "idle") /\ ~key' /\ UNCHANGED <<inproc, profile, categories, run, loop>>
    <3>1. outcome' \in {"failed", "unregistered"} /\ Unheard' /\ Unserved'
      BY <2>4
    <3>2. QED BY <2>4, <3>1
  <2>5. QED BY <2>1, <2>2, <2>3, <2>4
<1>12. CASE Kill
  BY <1>12 DEF Kill
<1>13. CASE UNCHANGED registry
  BY <1>13 DEF registry
<1>14. QED BY <1>1, <1>2, <1>3, <1>4, <1>5, <1>6, <1>7, <1>8, <1>9, <1>10, <1>11,
              <1>12, <1>13 DEF RegistryNext

\* A registration that reports success is whole; one that reports failure, and
\* an unregistration, leave nothing but keys their own deletion broke off at
\* (dllmain.cpp:36, Register.cpp:58-63).  Assumed: values can be written, and the
\* profile and the categories taken back.
THEOREM WholeOrUndone ==
  ASSUME "noValue" \notin Faults, "keepsProfile" \notin Faults,
         "keepsCategories" \notin Faults
  PROVE  RegistrySpec => []AllOrNothing
<1>1. RegistryInit => Whence
  BY RegistryInitEstablishes DEF Whence
<1>2. Whence => AllOrNothing
  BY DEF Whence
<1>3. QED BY <1>1, <1>2, StepIsAllOrNothing, PTL DEF RegistrySpec

----------------------------------------------------------------------------
\* The registration and the COM server together.

\* A step of the whole, as the host's process and as the registry see it.
LEMMA StepsAreTheirs ==
  ASSUME [Next]_vars
  PROVE  [HostNext]_process /\ [RegistryNext]_registry
<1>1. CASE LoadListed
  BY <1>1 DEF LoadListed, HostNext
<1>2. CASE Connect
  BY <1>2 DEF Connect, HostNext
<1>3. CASE Use
  BY <1>3 DEF Use, HostNext
<1>4. CASE Setup
  BY <1>4 DEF Setup
<1>5. CASE UNCHANGED vars
  BY <1>5 DEF vars
<1>6. QED BY <1>1, <1>2, <1>3, <1>4, <1>5 DEF Next

LEMMA BothRun == Spec => HostSpec /\ RegistrySpec
<1>1. Init => HostInit /\ RegistryInit
  BY DEF Init
<1>2. QED BY <1>1, StepsAreTheirs, PTL DEF Spec, HostSpec, RegistrySpec

\* While regsvr32 changes the installation under it, a process that uses the
\* DLL keeps it mapped, and its enumerators keep their place.
THEOREM HostIsSafe ==
  Spec => /\ ImplementsPinnedDll
          /\ [](RefsCountTheUsers /\ EnumeratorsMissNothing)
BY BothRun, DllStaysWhileUsed, RefsAreUsers, EnumeratorsKeepTheirPlace, PTL

\* While processes load and use the DLL, what is offered can be had and a run
\* of regsvr32 does all or nothing, but for keys it could not delete; with the
\* same assumptions as for regsvr32 alone.
THEOREM InstallationIsSafe ==
  ASSUME "noValue" \notin Faults, "keepsProfile" \notin Faults,
         "keepsCategories" \notin Faults
  PROVE  Spec => [](ListedIsLoadable /\ AllOrNothing)
<1>1. RegistrySpec => []ListedIsLoadable /\ []AllOrNothing
  BY OfferedCanBeHad, WholeOrUndone
<1>2. QED BY <1>1, BothRun, PTL
=============================================================================
