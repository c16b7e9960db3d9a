-------------------------- MODULE OperatorsProofs ---------------------------
(***************************************************************************)
(* Proofs about Operators: no module or operator is deleted while a thread *)
(* uses it, the use counts are the numbers of users, and every unit of a   *)
(* limit comes back.                                                       *)
(*                                                                         *)
(* The counts and the lists need each other: a count is right for a new    *)
(* object only if nobody used the object that had its place, and an object *)
(* is kept only if its count is right.  ModulesInv states both for the     *)
(* modules, OperatorsInv for the operators.  The routing needs one more    *)
(* fact, RegistryInv: the default module, which stands in for any that is  *)
(* missing or being unloaded, is itself loaded.  With these, one lemma on  *)
(* counting (Counted) settles each step of a thread.                       *)
(*                                                                         *)
(* The limits need none of that: RouteInv says that a worker which has     *)
(* taken a unit has the codename and the operator that give it back.       *)
(***************************************************************************)
EXTENDS Operators, FiniteSetTheorems, SequenceTheorems, WellFoundedInduction, TLAPS

\* What an administrator has to leave alone: "libnull.so", the default module.
DefaultStays ==
  /\ NullSo \notin Unloadable
  /\ \A dir \in Dirs : \E i \in 1 .. Len(SelectSeq(dir, LoadFunc)) : SelectSeq(dir, LoadFunc)[i] = NullSo

\* The operator objects.
Objects == Lists \X Ids

\* The registry; the default module is in it and stays.
RegistryInv ==
  /\ modules_list \in Seq(Slots) /\ DOMAIN short_name = Slots
  /\ unloaded \in [Slots -> BOOLEAN] /\ use_count \in [Slots -> Nat]
  /\ null_pay_sys \in Loaded /\ short_name[null_pay_sys] = NullSo /\ ~unloaded[null_pay_sys]

\* The route of a worker's pay; who has taken a unit gives it back by its codename.
RouteInv ==
  /\ stage \in [Workers -> {"idle", "given", "run"}] /\ operat \in [Workers -> Objects \cup {NULL}]
  /\ took \in [Workers -> DOMAIN Limits \cup {NULL}] /\ DOMAIN codename = Workers
  /\ \A w \in Workers :
       /\ stage[w] = "idle" => operat[w] = NULL /\ took[w] = NULL
       /\ took[w] # NULL => codename[w] = took[w] /\ operat[w] # NULL

\* What a worker has in each stage.
WorkerInv ==
  /\ RouteInv
  /\ given \in [Workers -> Slots \cup {NULL}] /\ kept \in [Workers -> Slots \cup {NULL}]
  /\ validator \in [Workers -> Slots \cup {NULL}]
  /\ \A w \in Workers :
       /\ stage[w] = "idle" <=> given[w] = NULL
       /\ stage[w] # "run" => validator[w] = NULL

\* Two lists of operators at most, with a count for each operator; the limits.
ListInv ==
  /\ operators_list \in Lists /\ old_operators_list \in Lists \cup {NULL}
  /\ operators_list # old_operators_list
  /\ op_use \in [Objects -> Nat]
  /\ limits \in [DOMAIN Limits -> Int]

\* The shape of the state.
TypeInv == RegistryInv /\ WorkerInv /\ ListInv

\* How many workers have x.
Count(f, x) == Cardinality({w \in Workers : f[w] = x})

\* The lists that exist.
Current == {operators_list, old_operators_list}

\* The uses of a module.
ModuleCount(s) ==
  /\ use_count[s] >= Count(given, s) + Count(kept, s) + Count(validator, s)
  /\ kills = 0 => use_count[s] = Count(given, s) + Count(kept, s) + Count(validator, s)

\* Modules in use are loaded and the counts of the loaded ones are right.
ModulesInv ==
  /\ \A w \in Workers : {given[w], kept[w], validator[w]} \ {NULL} \subseteq Loaded
  /\ \A s \in Loaded : ModuleCount(s)

\* The same for the operators.
OperatorsInv ==
  /\ \A w \in Workers : operat[w] # NULL => operat[w][1] \in Current
  /\ \A o \in Objects : o[1] \in Current =>
       op_use[o] >= Count(operat, o) /\ (kills = 0 => op_use[o] = Count(operat, o))

-----------------------------------------------------------------------------

\* Only w has another value in g than in f.
OneChanged(f, g, w) == \A u \in Workers : u # w => g[u] = f[u]

\* How many workers have x changes by the one worker that is given another value.
LEMMA Counted ==
  ASSUME NEW f, NEW g, NEW w \in Workers, NEW x, OneChanged(f, g, w)
  PROVE  /\ Count(f, x) \in Nat
         /\ (f[w] = x <=> g[w] = x) => Count(g, x) = Count(f, x)
         /\ f[w] # x /\ g[w] = x => Count(g, x) = Count(f, x) + 1
         /\ f[w] = x /\ g[w] # x => Count(g, x) = Count(f, x) - 1
<1> DEFINE A == {u \in Workers : f[u] = x}
           B == {u \in Workers : g[u] = x}
<1>1. IsFiniteSet(A) /\ Cardinality(A) \in Nat
  BY RoutingConstants, FS_Subset, FS_CardinalityType
<1>2. B = IF g[w] = x THEN A \cup {w} ELSE A \ {w}
  BY DEF OneChanged
<1>3. w \in A <=> f[w] = x
  OBVIOUS
<1> HIDE DEF A, B
<1>4. Cardinality(A \cup {w}) = IF w \in A THEN Cardinality(A) ELSE Cardinality(A) + 1
  BY <1>1, FS_AddElement
<1>5. Cardinality(A \ {w}) = IF w \in A THEN Cardinality(A) - 1 ELSE Cardinality(A)
  BY <1>1, FS_RemoveElement
<1>6. /\ (f[w] = x <=> g[w] = x) => Cardinality(B) = Cardinality(A)
      /\ f[w] # x /\ g[w] = x => Cardinality(B) = Cardinality(A) + 1
      /\ f[w] = x /\ g[w] # x => Cardinality(B) = Cardinality(A) - 1
  BY <1>1, <1>2, <1>3, <1>4, <1>5
<1> QED BY <1>1, <1>6 DEF Count, A, B

\* A value that somebody has.
LEMMA CountPositive ==
  ASSUME NEW f, NEW x
  PROVE  Count(f, x) \in Nat /\ ((\E w \in Workers : f[w] = x) => Count(f, x) > 0)
                             /\ ((\A w \in Workers : f[w] # x) => Count(f, x) = 0)
<1> DEFINE A == {u \in Workers : f[u] = x}
<1>1. IsFiniteSet(A) /\ Cardinality(A) \in Nat
  BY RoutingConstants, FS_Subset, FS_CardinalityType
<1>2. A = {} <=> Cardinality(A) = 0
  BY <1>1, FS_EmptySet
<1>3. (\E w \in Workers : f[w] = x) => A # {}
  OBVIOUS
<1>4. (\A w \in Workers : f[w] # x) => A = {}
  OBVIOUS
<1> HIDE DEF A
<1> QED BY <1>1, <1>2, <1>3, <1>4 DEF Count, A

\* A set of positions has a first one.
LEMMA MinProperties ==
  ASSUME NEW I \in SUBSET Nat, I # {}
  PROVE  Min(I) \in I
<1>1. PICK x \in I : \A y \in I : ~(<<y, x>> \in OpToRel(<, Nat))
  BY NatLessThanWellFounded, WFMin
<1>2. ASSUME NEW y \in I, y < x PROVE FALSE
  <2>1. <<y, x>> \in Nat \X Nat /\ <<y, x>>[1] < <<y, x>>[2]
    BY <1>2
  <2>2. OpToRel(<, Nat) = {z \in Nat \X Nat : z[1] < z[2]}
    BY DEF OpToRel
  <2> QED BY <1>1, <2>1, <2>2
<1>3. \A y \in I : x =< y
  BY <1>2
<1> QED BY <1>3 DEF Min

\* GetPaySysBySoName finds a module that is loaded.
LEMMA FoundLoaded ==
  ASSUME RegistryInv, NEW n
  PROVE  GetPaySysBySoName(n) \in Loaded
<1> DEFINE I == {i \in 1 .. Len(modules_list) : short_name[modules_list[i]] = n /\ ~unloaded[modules_list[i]]}
           i == IF I # {} THEN Min(I) ELSE 0
<1>1. GetPaySysBySoName(n) = IF i = 0 THEN null_pay_sys ELSE modules_list[i]
  BY DEF GetPaySysBySoName, SelectInSeq
<1>2. i = 0 \/ i \in 1 .. Len(modules_list)
  <2>1. I \in SUBSET Nat /\ I \subseteq 1 .. Len(modules_list)
    OBVIOUS
  <2> HIDE DEF I
  <2> QED BY <2>1, MinProperties
<1> HIDE DEF i
<1>3. DOMAIN modules_list = 1 .. Len(modules_list)
  BY DEF RegistryInv
<1> QED BY <1>1, <1>2, <1>3 DEF RegistryInv, Loaded, ToSet

\* AtPositions has the chosen elements and no others.
LEMMA AtPositionsProperties ==
  ASSUME NEW S, NEW list \in Seq(S), NEW I \in SUBSET DOMAIN list
  PROVE  /\ AtPositions(list, I) \in Seq(S)
         /\ ToSet(AtPositions(list, I)) = {list[i] : i \in I}
<1> DEFINE n == Cardinality(I)
           Upto(i) == {h \in I : h <= i}
           rank == [i \in I |-> Cardinality(Upto(i))]
           at(j) == CHOOSE i \in I : Cardinality(Upto(i)) = j
<1>1. Len(list) \in Nat /\ DOMAIN list = 1 .. Len(list) /\ \A i \in I : i \in Nat /\ list[i] \in S
  BY ElementOfSeq
<1>2. IsFiniteSet(I) /\ n \in Nat
  <2>1. IsFiniteSet(1 .. Len(list))
    BY <1>1, FS_Interval
  <2> QED BY <1>1, <2>1, FS_Subset, FS_CardinalityType
<1>3. ASSUME NEW i \in I
      PROVE  IsFiniteSet(Upto(i)) /\ Cardinality(Upto(i)) \in 1 .. n
  <2>1. Upto(i) \in SUBSET I /\ i \in Upto(i)
    BY <1>1
  <2> HIDE DEF Upto
  <2>2. IsFiniteSet(Upto(i)) /\ Cardinality(Upto(i)) <= n
    BY <1>2, <2>1, FS_Subset
  <2>3. Cardinality(Upto(i)) \in Nat /\ Cardinality(Upto(i)) # 0
    BY <2>1, <2>2, FS_CardinalityType, FS_EmptySet
  <2> HIDE DEF n
  <2> QED BY <1>2, <2>2, <2>3
<1>4. ASSUME NEW i \in I, NEW j \in I, i < j PROVE Cardinality(Upto(i)) # Cardinality(Upto(j))
  <2>1. Upto(i) \in SUBSET Upto(j) /\ Upto(i) # Upto(j)
    <3>1. j \in Upto(j) /\ j \notin Upto(i) /\ Upto(i) \subseteq Upto(j)
      BY <1>1, <1>4
    <3> QED BY <3>1
  <2> HIDE DEF Upto
  <2> QED BY <1>3, <2>1, FS_Subset
<1>5. rank \in [I -> 1 .. n] /\ \A i, j \in I : rank[i] = rank[j] => i = j
  <2>1. rank \in [I -> 1 .. n]
    BY <1>3
  <2>2. ASSUME NEW i \in I, NEW j \in I, rank[i] = rank[j] PROVE i = j
    <3>1. Cardinality(Upto(i)) = Cardinality(Upto(j))
      BY <2>2
    <3>2. ~(i < j) /\ ~(j < i)
      <4> HIDE DEF Upto
      <4> QED BY <1>4, <3>1
    <3> QED BY <1>1, <3>2
  <2> QED BY <2>1, <2>2
<1>6. \A j \in 1 .. n : \E i \in I : Cardinality(Upto(i)) = j
  <2> HIDE DEF Upto
  <2>1. IsFiniteSet(1 .. n) /\ Cardinality(1 .. n) = n
    <3> HIDE DEF n
    <3> QED BY <1>2, FS_Interval
  <2>2. rank \in Injection(I, 1 .. n)
    <3> HIDE DEF rank
    <3> QED BY <1>5 DEF Injection, IsInjective
  <2>3. rank \in Surjection(I, 1 .. n)
    <3> HIDE DEF rank
    <3> QED BY <2>1, <2>2, FS_Injection DEF n
  <2>4. \A j \in 1 .. n : \E i \in I : rank[i] = j
    <3> HIDE DEF rank
    <3> QED BY <2>3 DEF Surjection
  <2> QED BY <2>4
<1>7. \A j \in 1 .. n : at(j) \in I /\ Cardinality(Upto(at(j))) = j
  <2> HIDE DEF Upto, n
  <2> QED BY <1>6
<1>8. AtPositions(list, I) = [j \in 1 .. n |-> list[at(j)]]
  BY DEF AtPositions
<1>9. \A i \in I : \E j \in 1 .. n : at(j) = i
  <2> SUFFICES ASSUME NEW i \in I PROVE \E j \in 1 .. n : at(j) = i
    OBVIOUS
  <2>1. Cardinality(Upto(i)) \in 1 .. n
    BY <1>3
  <2> HIDE DEF n
  <2>2. at(Cardinality(Upto(i))) \in I
    BY <1>7, <2>1
  <2>3. rank[at(Cardinality(Upto(i)))] = rank[i]
    BY <1>7, <2>1
  <2>4. at(Cardinality(Upto(i))) = i
    <3> HIDE DEF rank, at
    <3> QED BY <1>5, <2>2, <2>3
  <2> QED BY <2>1, <2>4
<1> HIDE DEF at, n, Upto, rank
<1>10. AtPositions(list, I) \in Seq(S)
  <2>1. AtPositions(list, I) \in [1 .. n -> S]
    BY <1>1, <1>7, <1>8
  <2> QED BY <1>2, <2>1
<1>11. ToSet(AtPositions(list, I)) = {list[at(j)] : j \in 1 .. n}
  BY <1>8 DEF ToSet
<1> QED BY <1>7, <1>9, <1>10, <1>11

\* A choice of slots is a sequence without repetition.
LEMMA Permuted ==
  ASSUME NEW slots \in SetToAllKPermutations(Slots)
  PROVE  /\ slots \in Seq(Slots)
         /\ \A i, j \in 1 .. Len(slots) : slots[i] = slots[j] => i = j
<1>1. PICK S \in SUBSET Slots : slots \in SetToSeqs(S)
  BY DEF SetToAllKPermutations
<1>2. IsFiniteSet(S) /\ Cardinality(S) \in Nat
  BY RegistryConstants, FS_Subset, FS_CardinalityType
<1>3. /\ slots \in [1 .. Cardinality(S) -> S]
      /\ \A i, j \in 1 .. Cardinality(S) : i # j => slots[i] # slots[j]
  BY <1>1 DEF SetToSeqs
<1>4. slots \in Seq(S) /\ Len(slots) = Cardinality(S)
  BY <1>2, <1>3
<1>5. slots \in Seq(Slots)
  <2>1. slots \in [1 .. Cardinality(S) -> Slots]
    BY <1>3
  <2> QED BY <1>2, <2>1
<1> QED BY <1>3, <1>4, <1>5

\* WorkInit with a directory that has the default module.
LEMMA LoadedAfresh ==
  ASSUME DefaultStays, NEW dir \in Dirs, NEW slots \in SetToAllKPermutations(Slots),
         LoadModules(dir, slots)
  PROVE  RegistryInv'
<1> DEFINE good == SelectSeq(dir, LoadFunc)
           null == {i \in 1 .. Len(good) : good[i] = NullSo}
           c == CHOOSE i \in null : TRUE
<1>1. null # {}
  BY DEF DefaultStays
<1>2. c \in null
  BY <1>1
<1>3. /\ Len(slots) = Len(good) /\ modules_list' = slots
      /\ short_name' = [s \in Slots |-> IF \E i \in 1..Len(slots) : slots[i] = s
                          THEN good[CHOOSE i \in 1..Len(slots) : slots[i] = s] ELSE NullSo]
      /\ unloaded' = [s \in Slots |-> FALSE] /\ use_count' = [s \in Slots |-> 0]
      /\ null_pay_sys' = slots[c]
  BY <1>1 DEF LoadModules
<1>4. c \in 1 .. Len(slots) /\ good[c] = NullSo
  BY <1>2, <1>3
<1> HIDE DEF c, good
<1>5. slots \in Seq(Slots) /\ \A i, j \in 1 .. Len(slots) : slots[i] = slots[j] => i = j
  BY Permuted
<1>6. slots[c] \in Slots /\ slots[c] \in ToSet(slots)
  BY <1>4, <1>5 DEF ToSet
<1>7. (CHOOSE i \in 1..Len(slots) : slots[i] = slots[c]) = c
  BY <1>4, <1>5
<1>8. short_name'[slots[c]] = NullSo
  BY <1>3, <1>4, <1>6, <1>7
<1> QED BY <1>3, <1>5, <1>6, <1>8 DEF RegistryInv, Loaded

\* Modules are in slots.
LEMMA LoadedSlots == ASSUME RegistryInv PROVE Loaded \subseteq Slots
BY ElementOfSeq DEF RegistryInv, Loaded, ToSet

\* A module that is missing or being unloaded is replaced by one that is loaded.
LEMMA RuledLoaded ==
  ASSUME RegistryInv, NEW c
  PROVE  OrDefault(RuledPaySys(c)) \in Loaded
<1>1. null_pay_sys \in Loaded
  BY DEF RegistryInv
<1>2. RuledPaySys(c) \in Loaded \cup {NULL}
  BY <1>1, FoundLoaded DEF RuledPaySys
<1> QED BY <1>1, <1>2 DEF OrDefault, GetPaySysDefault

\* GetValidPaySys names the limit that it has taken from.
LEMMA UnitNamed ==
  ASSUME NEW p, NEW conf, NEW asked
  PROVE  LET r == GetValidPaySys(p, conf, asked)
         IN r.unit \in DOMAIN Limits \cup {NULL} /\ (r.unit # NULL => r.code = r.unit)
<1> DEFINE Named(r) == r.unit \in DOMAIN Limits \cup {NULL} /\ (r.unit # NULL => r.code = r.unit)
<1>1. \A s, c : Named(Route(s, c, NULL))
  BY DEF Route
<1>2. \A s : \A c \in DOMAIN Limits : Named(Route(s, c, c))
  BY DEF Route
<1> HIDE DEF Named
<1>3. \A c : Named(EngineRoute(c, asked))
  BY <1>1, <1>2 DEF EngineRoute
<1>4. \A list : Named(EngineSearch(p, list, asked))
  BY <1>1, <1>3 DEF EngineSearch
<1>5. Named(GetValidPaySys(p, conf, asked))
  BY <1>1, <1>4 DEF GetValidPaySys
<1> QED BY <1>5 DEF Named

\* GetValidPaySys returns a module that is loaded.
LEMMA Routed ==
  ASSUME RegistryInv, NEW p, NEW conf, NEW asked
  PROVE  GetValidPaySys(p, conf, asked).paysys \in Loaded
<1> DEFINE Good(r) == r.paysys \in Loaded
<1>1. \A s \in Loaded : \A c, t : Good(Route(s, c, t))
  BY DEF Route
<1> HIDE DEF Good
<1>2. GetPaySysDefault \in Loaded /\ GetPaySysEngineLimit \in Loaded
  BY FoundLoaded DEF RegistryInv, GetPaySysDefault, GetPaySysEngineLimit
<1>3. \A c : OrDefault(RuledPaySys(c)) \in Loaded
  BY RuledLoaded
<1>4. \A c : Good(EngineRoute(c, asked))
  BY <1>1, <1>2, <1>3 DEF EngineRoute
<1>5. \A list : Good(EngineSearch(p, list, asked))
  BY <1>1, <1>2, <1>4 DEF EngineSearch
<1>6. Good(GetValidPaySys(p, conf, asked))
  BY <1>1, <1>2, <1>3, <1>5 DEF GetValidPaySys
<1> QED BY <1>6 DEF Good

\* Worker w is given a pay: module m, codename c, operator o and a unit of limit t.
GivenAs(w, m, c, o, t) ==
  /\ stage[w] = "idle" /\ stage' = [stage EXCEPT ![w] = "given"]
  /\ given' = [given EXCEPT ![w] = m] /\ operat' = [operat EXCEPT ![w] = o]
  /\ codename' = [codename EXCEPT ![w] = c] /\ took' = [took EXCEPT ![w] = t]
  /\ use_count' = Use(use_count, m) /\ op_use' = Use(op_use, o)
  /\ limits' = IF t = NULL THEN limits ELSE [limits EXCEPT ![t] = @ - 1]
  /\ RegistryInv => m \in Loaded
  /\ o # NULL => o[1] = operators_list
  /\ t # NULL => c = t /\ o # NULL
  /\ UNCHANGED <<modules_list, short_name, unloaded, null_pay_sys, operators_list,
                 old_operators_list, kept, validator, kills>>

\* What InitFreeWorker gives a worker, unless it crashes over missing engines.
LEMMA GivenPay ==
  ASSUME ListInv, NEW w \in Workers, NEW p \in Pays, NEW asked, InitFreeWorker(w, p, asked)
  PROVE  \/ UNCHANGED <<registryVars, operVars, threadVars, kills>>
         \/ \E m, c : \E o \in Objects \cup {NULL}, t \in DOMAIN Limits \cup {NULL} : GivenAs(w, m, c, o, t)
<1> DEFINE id == OperOf[p]
           known == id \in Ids
           r == IF known THEN GetValidPaySys(p, OpConf[id], asked)
                ELSE Route(null_pay_sys, NULL, NULL)
           o == IF known THEN <<operators_list, id>> ELSE NULL
<1>1. CASE UNCHANGED <<registryVars, operVars, threadVars, kills>>
  BY <1>1
<1>2. CASE /\ stage[w] = "idle" /\ stage' = [stage EXCEPT ![w] = "given"]
           /\ given' = [given EXCEPT ![w] = r.paysys] /\ operat' = [operat EXCEPT ![w] = o]
           /\ codename' = [codename EXCEPT ![w] = r.code] /\ took' = [took EXCEPT ![w] = r.unit]
           /\ use_count' = Use(use_count, r.paysys) /\ op_use' = Use(op_use, o)
           /\ limits' = IF r.unit = NULL THEN limits ELSE [limits EXCEPT ![r.unit] = @ - 1]
           /\ UNCHANGED <<modules_list, short_name, unloaded, null_pay_sys, operators_list,
                          old_operators_list, kept, validator, kills>>
  <2>1. /\ r.unit \in DOMAIN Limits \cup {NULL} /\ (r.unit # NULL => r.code = r.unit /\ o # NULL)
        /\ RegistryInv => r.paysys \in Loaded
    <3>1. CASE known
      <4>1. o # NULL
        BY <3>1, RoutingConstants DEF ListInv
      <4>2. r = GetValidPaySys(p, OpConf[id], asked)
        BY <3>1
      <4> HIDE DEF o, r, id, known
      <4> QED BY <4>1, <4>2, UnitNamed, Routed
    <3>2. CASE ~known
      BY <3>2 DEF Route, RegistryInv
    <3> QED BY <3>1, <3>2
  <2>2. o \in Objects \cup {NULL} /\ (o # NULL => o[1] = operators_list)
    BY DEF Objects, ListInv
  <2> HIDE DEF r, o
  <2>3. GivenAs(w, r.paysys, r.code, o, r.unit)
    BY <1>2, <2>1, <2>2 DEF GivenAs
  <2> QED BY <2>1, <2>2, <2>3
<1> HIDE DEF r, o
<1> QED BY <1>1, <1>2 DEF InitFreeWorker, r, o

\* The elements after Append.
LEMMA AppendedSet ==
  ASSUME NEW S, NEW list \in Seq(S), NEW e \in S
  PROVE  Append(list, e) \in Seq(S) /\ ToSet(Append(list, e)) = ToSet(list) \cup {e}
<1> DEFINE a == Append(list, e)
<1>1. /\ a \in Seq(S) /\ Len(a) = Len(list) + 1 /\ a[Len(list) + 1] = e
      /\ \A i \in 1 .. Len(list) : a[i] = list[i]
  BY AppendProperties
<1> HIDE DEF a
<1>2. DOMAIN a = 1 .. Len(list) + 1 /\ DOMAIN list = 1 .. Len(list) /\ Len(list) \in Nat
  BY <1>1
<1>3. \A i \in DOMAIN a : i = Len(list) + 1 \/ i \in DOMAIN list
  BY <1>2
<1>4. \A i \in DOMAIN list : i \in DOMAIN a /\ a[i] = list[i]
  BY <1>1, <1>2
<1>5. Len(list) + 1 \in DOMAIN a
  BY <1>2
<1>6. {a[i] : i \in DOMAIN a} = {list[i] : i \in DOMAIN list} \cup {e}
  BY <1>1, <1>3, <1>4, <1>5
<1> QED BY <1>1, <1>6 DEF ToSet, a

\* P_CMD_UNLOAD marks a module of the given name.
LEMMA MarkedNamed ==
  ASSUME RegistryInv, NEW n, UnLoadPaySys(n)
  PROVE  \E s \in Slots : short_name[s] = n /\ unloaded' = [unloaded EXCEPT ![s] = TRUE]
<1> DEFINE I == {i \in 1 .. Len(modules_list) : short_name[modules_list[i]] = n}
<1>1. I # {} /\ unloaded' = [unloaded EXCEPT ![modules_list[Min(I)]] = TRUE]
  BY DEF UnLoadPaySys, SelectInSeq
<1>2. Min(I) \in I
  <2>1. I \in SUBSET Nat
    OBVIOUS
  <2> HIDE DEF I
  <2> QED BY <1>1, <2>1, MinProperties
<1>3. modules_list[Min(I)] \in Slots /\ short_name[modules_list[Min(I)]] = n
  BY <1>2, ElementOfSeq DEF RegistryInv
<1> HIDE DEF I
<1> QED BY <1>1, <1>3

\* RemoveUnloadedModules removes only modules without users; the others stay as they are.
LEMMA Removed ==
  ASSUME RegistryInv, RemoveUnloadedModules
  PROVE  /\ modules_list' \in Seq(Slots) /\ Loaded' \subseteq Loaded
         /\ \A s \in Loaded : ~Removable(s) => s \in Loaded'
         /\ \A s \in Loaded' : /\ short_name'[s] = short_name[s] /\ unloaded'[s] = unloaded[s]
                               /\ use_count'[s] = use_count[s]
<1> DEFINE I == {i \in DOMAIN modules_list : i > Visited \/ ~Removable(modules_list[i])}
<1>1. modules_list' = AtPositions(modules_list, I)
  BY DEF RemoveUnloadedModules
<1>2. modules_list \in Seq(Slots) /\ I \in SUBSET DOMAIN modules_list
  BY DEF RegistryInv
<1>3. \A i \in DOMAIN modules_list : ~Removable(modules_list[i]) => i \in I
  OBVIOUS
<1> HIDE DEF I
<1>4. modules_list' \in Seq(Slots) /\ Loaded' = {modules_list[i] : i \in I}
  BY <1>1, <1>2, AtPositionsProperties DEF Loaded
<1>5. Loaded' \subseteq Loaded /\ \A s \in Loaded : ~Removable(s) => s \in Loaded'
  BY <1>2, <1>3, <1>4 DEF Loaded, ToSet
<1>6. Loaded \subseteq Slots
  BY LoadedSlots
<1>7. ASSUME NEW s \in Loaded'
      PROVE  /\ short_name'[s] = short_name[s] /\ unloaded'[s] = unloaded[s]
             /\ use_count'[s] = use_count[s]
  <2>1. s \in Slots /\ s \notin Loaded \ Loaded'
    BY <1>5, <1>6
  <2>2. Loaded' = ToSet(modules_list')
    BY DEF Loaded
  <2>3. short_name'[s] = short_name[s] /\ use_count'[s] = use_count[s]
    BY <2>1, <2>2 DEF RemoveUnloadedModules
  <2>4. unloaded'[s] = (s \notin (Loaded \ Loaded') /\ unloaded[s])
    BY <2>1, <2>2 DEF RemoveUnloadedModules
  <2>5. unloaded[s] \in BOOLEAN
    BY <2>1 DEF RegistryInv
  <2> QED BY <2>1, <2>3, <2>4, <2>5
<1> QED BY <1>4, <1>5, <1>7

\* The registry keeps its default module.
LEMMA RegistryStep == DefaultStays /\ TypeInv /\ [Next]_vars => RegistryInv'
<1> SUFFICES ASSUME DefaultStays, TypeInv, [Next]_vars PROVE RegistryInv'
  OBVIOUS
<1>0. RegistryInv /\ WorkerInv /\ ListInv
  BY DEF TypeInv
<1>a. ASSUME UNCHANGED registryVars PROVE RegistryInv'
  BY <1>0, <1>a DEF RegistryInv, Loaded, registryVars
<1>b. ASSUME UNCHANGED <<modules_list, short_name, unloaded, null_pay_sys>>, use_count' \in [Slots -> Nat]
      PROVE  RegistryInv'
  BY <1>0, <1>b DEF RegistryInv, Loaded
<1>c. \A s \in Slots \cup {NULL}, count \in [Slots -> Nat] :
        Use(count, s) \in [Slots -> Nat] /\ UnUse(count, s) \in [Slots -> Nat]
  BY DEF Use, UnUse
<1>d. Loaded \subseteq Slots
  BY <1>0, LoadedSlots
<1>e. use_count \in [Slots -> Nat]
  BY <1>0 DEF RegistryInv
<1>1. ASSUME NEW w \in Workers, NEW p \in Pays, NEW asked, InitFreeWorker(w, p, asked)
      PROVE  RegistryInv'
  <2>1. CASE UNCHANGED registryVars
    BY <1>a, <2>1
  <2>2. ASSUME NEW m \in Loaded, use_count' = Use(use_count, m),
               UNCHANGED <<modules_list, short_name, unloaded, null_pay_sys>>
        PROVE  RegistryInv'
    <3>1. m \in Slots
      BY <1>d
    <3>2. use_count' \in [Slots -> Nat]
      BY <1>c, <1>e, <2>2, <3>1
    <3> QED BY <1>b, <2>2, <3>2
  <2> QED BY <1>0, <1>1, <2>1, <2>2, GivenPay DEF GivenAs
<1>2. ASSUME NEW w \in Workers, Start(w)
      PROVE  RegistryInv'
  <2>1. given[w] \in Slots \cup {NULL} /\ kept[w] \in Slots \cup {NULL}
    BY <1>0 DEF WorkerInv, RouteInv
  <2>2. GetPaySysBySoName(ValidatorSo) \in Slots
    BY <1>0, <1>d, FoundLoaded
  <2>3. /\ UnUse(use_count, kept[w]) \in [Slots -> Nat]
        /\ Use(UnUse(use_count, kept[w]), given[w]) \in [Slots -> Nat]
    BY <1>c, <1>e, <2>1
  <2>4. use_count' \in [Slots -> Nat]
    BY <1>2, <1>c, <1>e, <2>2, <2>3 DEF Start
  <2> QED BY <1>2, <1>b, <2>4 DEF Start
<1>3. ASSUME NEW w \in Workers, Finish(w)
      PROVE  RegistryInv'
  <2>1. given[w] \in Slots \cup {NULL} /\ validator[w] \in Slots \cup {NULL}
    BY <1>0 DEF WorkerInv, RouteInv
  <2>2. use_count' \in [Slots -> Nat]
    BY <1>3, <1>c, <1>e, <2>1 DEF Finish
  <2> QED BY <1>3, <1>b, <2>2 DEF Finish
<1>4. ASSUME NEW w \in Workers, ThreadExit(w)
      PROVE  RegistryInv'
  <2>1. kept[w] \in Slots \cup {NULL}
    BY <1>0 DEF WorkerInv, RouteInv
  <2>2. use_count' \in [Slots -> Nat]
    BY <1>4, <1>c, <1>e, <2>1 DEF ThreadExit
  <2> QED BY <1>4, <1>b, <2>2 DEF ThreadExit
<1>5. ASSUME NEW w \in Workers, Kill(w)
      PROVE  RegistryInv'
  BY <1>5, <1>a DEF Kill
<1>6. ASSUME NEW n \in Loadable, NEW s \in Slots, LoadPaySys(n, s), UNCHANGED <<operVars, threadVars, kills>>
      PROVE  RegistryInv'
  <2>1. s \notin Loaded /\ s # null_pay_sys
    BY <1>0, <1>6 DEF LoadPaySys, RegistryInv
  <2>2. modules_list' \in Seq(Slots) /\ Loaded' = Loaded \cup {s}
    BY <1>0, <1>6, AppendedSet DEF LoadPaySys, RegistryInv, Loaded
  <2>3. /\ short_name' = [short_name EXCEPT ![s] = n] /\ unloaded' = [unloaded EXCEPT ![s] = FALSE]
        /\ use_count' = [use_count EXCEPT ![s] = 0] /\ UNCHANGED null_pay_sys
    BY <1>6 DEF LoadPaySys
  <2> QED BY <1>0, <2>1, <2>2, <2>3 DEF RegistryInv
<1>7. ASSUME NEW n \in Unloadable, UnLoadPaySys(n), UNCHANGED <<operVars, threadVars, kills>>
      PROVE  RegistryInv'
  <2>1. PICK s \in Slots : short_name[s] = n /\ unloaded' = [unloaded EXCEPT ![s] = TRUE]
    BY <1>0, <1>7, MarkedNamed
  <2>2. n # NullSo
    BY DEF DefaultStays
  <2>3. UNCHANGED <<modules_list, short_name, use_count, null_pay_sys>>
    BY <1>7 DEF UnLoadPaySys
  <2> QED BY <1>0, <2>1, <2>2, <2>3 DEF RegistryInv, Loaded
<1>8. ASSUME RemoveUnloadedModules, UNCHANGED <<operVars, threadVars, kills>>
      PROVE  RegistryInv'
  <2>1. null_pay_sys \in Loaded' /\ modules_list' \in Seq(Slots)
    BY <1>0, <1>8, Removed DEF Removable, RegistryInv
  <2>2. /\ DOMAIN short_name' = Slots /\ unloaded' \in [Slots -> BOOLEAN] /\ use_count' \in [Slots -> Nat]
        /\ UNCHANGED null_pay_sys
    BY <1>0, <1>8 DEF RemoveUnloadedModules, RegistryInv
  <2>3. null_pay_sys \in Slots
    BY <1>0, <1>d DEF RegistryInv
  <2>4. short_name'[null_pay_sys] = short_name[null_pay_sys] /\ unloaded'[null_pay_sys] = unloaded[null_pay_sys]
    BY <1>0, <1>8, <2>1, Removed
  <2> QED BY <1>0, <2>1, <2>2, <2>4 DEF RegistryInv
<1>9. ASSUME NEW g \in Lists, NEW r, NEW e, NEW c, ReloadOperators(g, r, e, c)
      PROVE  RegistryInv'
  BY <1>9, <1>a DEF ReloadOperators
<1>10. ASSUME NEW g \in Lists, NEW dir \in Dirs, NEW slots \in SetToAllKPermutations(Slots), Reboot(dir, slots, g)
       PROVE  RegistryInv'
  BY <1>10, LoadedAfresh DEF Reboot
<1>11. CASE UNCHANGED vars
  BY <1>a, <1>11 DEF vars
<1> QED BY <1>1, <1>2, <1>3, <1>4, <1>5, <1>6, <1>7, <1>8, <1>9, <1>10, <1>11
       DEF Next, Registry, Down

\* A unit is taken together with the codename that gives it back.
LEMMA RouteStep == ListInv /\ RouteInv /\ [Next]_vars => RouteInv'
<1> SUFFICES ASSUME ListInv, RouteInv, [Next]_vars PROVE RouteInv'
  OBVIOUS
<1>s. ASSUME UNCHANGED <<stage, operat, took, codename>> PROVE RouteInv'
  BY <1>s DEF RouteInv
<1>1. ASSUME NEW w \in Workers, NEW p \in Pays, NEW asked, InitFreeWorker(w, p, asked)
      PROVE  RouteInv'
  <2>1. CASE UNCHANGED <<registryVars, operVars, threadVars, kills>>
    BY <2>1, <1>s DEF threadVars
  <2>2. CASE ~UNCHANGED <<registryVars, operVars, threadVars, kills>>
    <3>1. PICK m, c : \E o \in Objects \cup {NULL}, t \in DOMAIN Limits \cup {NULL} : GivenAs(w, m, c, o, t)
      BY <1>1, <2>2, GivenPay
    <3>2. PICK o \in Objects \cup {NULL}, t \in DOMAIN Limits \cup {NULL} : GivenAs(w, m, c, o, t)
      BY <3>1
    <3> QED BY <3>2 DEF GivenAs, RouteInv
  <2> QED BY <2>1, <2>2
<1>2. ASSUME NEW w \in Workers, Start(w)
      PROVE  RouteInv'
  BY <1>2 DEF Start, RouteInv
<1>3. ASSUME NEW w \in Workers, Finish(w)
      PROVE  RouteInv'
  BY <1>3 DEF Finish, RouteInv
<1>4. ASSUME NEW w \in Workers, ThreadExit(w)
      PROVE  RouteInv'
  BY <1>4, <1>s DEF ThreadExit
<1>5. ASSUME NEW w \in Workers, Kill(w)
      PROVE  RouteInv'
  BY <1>5 DEF Kill, RouteInv, Busy
<1>6. ASSUME NEW n \in Loadable, NEW s \in Slots, LoadPaySys(n, s), UNCHANGED <<operVars, threadVars, kills>>
      PROVE  RouteInv'
  BY <1>6, <1>s DEF threadVars
<1>7. ASSUME NEW n \in Unloadable, UnLoadPaySys(n), UNCHANGED <<operVars, threadVars, kills>>
      PROVE  RouteInv'
  BY <1>7, <1>s DEF threadVars
<1>8. ASSUME RemoveUnloadedModules, UNCHANGED <<operVars, threadVars, kills>>
      PROVE  RouteInv'
  BY <1>8, <1>s DEF threadVars
<1>9. ASSUME NEW g \in Lists, NEW r, NEW e, NEW c, ReloadOperators(g, r, e, c)
      PROVE  RouteInv'
  BY <1>9, <1>s DEF ReloadOperators, threadVars
<1>10. ASSUME NEW g \in Lists, NEW dir \in Dirs, NEW slots \in SetToAllKPermutations(Slots), Reboot(dir, slots, g)
       PROVE  RouteInv'
  BY <1>10, <1>s DEF Reboot, threadVars
<1>11. CASE UNCHANGED vars
  BY <1>11, <1>s DEF vars, threadVars
<1> QED BY <1>1, <1>2, <1>3, <1>4, <1>5, <1>6, <1>7, <1>8, <1>9, <1>10, <1>11
       DEF Next, Registry, Down

\* There are two lists of operators at most, with a count for each operator.
LEMMA ListStep == ListInv /\ RouteInv /\ [Next]_vars => ListInv'
<1> SUFFICES ASSUME ListInv, RouteInv, [Next]_vars PROVE ListInv'
  OBVIOUS
<1>s. ASSUME UNCHANGED <<operators_list, old_operators_list, op_use, limits>> PROVE ListInv'
  BY <1>s DEF ListInv
<1>1. ASSUME NEW w \in Workers, NEW p \in Pays, NEW asked, InitFreeWorker(w, p, asked)
      PROVE  ListInv'
  <2>1. CASE UNCHANGED operVars
    BY <2>1, <1>s DEF operVars
  <2>2. CASE ~UNCHANGED operVars
    <3>1. PICK o \in Objects \cup {NULL}, t \in DOMAIN Limits \cup {NULL} :
            /\ op_use' = Use(op_use, o)
            /\ limits' = IF t = NULL THEN limits ELSE [limits EXCEPT ![t] = @ - 1]
            /\ UNCHANGED <<operators_list, old_operators_list>>
      BY <1>1, <2>2, GivenPay DEF GivenAs
    <3>2. op_use' \in [Objects -> Nat]
      BY <3>1 DEF ListInv, Use
    <3>3. limits' \in [DOMAIN Limits -> Int]
      BY <3>1 DEF ListInv
    <3> QED BY <3>1, <3>2, <3>3 DEF ListInv
  <2> QED BY <2>1, <2>2
<1>2. ASSUME NEW w \in Workers, Start(w)
      PROVE  ListInv'
  BY <1>2, <1>s DEF Start, operVars
<1>3. ASSUME NEW w \in Workers, Finish(w)
      PROVE  ListInv'
  <2>1. operat[w] \in Objects \cup {NULL}
    BY DEF RouteInv
  <2>2. op_use' \in [Objects -> Nat]
    BY <1>3, <2>1 DEF ListInv, Finish, UnUse
  <2>3. limits' \in [DOMAIN Limits -> Int]
    BY <1>3 DEF ListInv, Finish, GiveBack
  <2> QED BY <1>3, <2>2, <2>3 DEF ListInv, Finish
<1>4. ASSUME NEW w \in Workers, ThreadExit(w)
      PROVE  ListInv'
  BY <1>4, <1>s DEF ThreadExit, operVars
<1>5. ASSUME NEW w \in Workers, Kill(w)
      PROVE  ListInv'
  BY <1>5, <1>s DEF Kill, operVars
<1>6. ASSUME NEW n \in Loadable, NEW s \in Slots, LoadPaySys(n, s), UNCHANGED <<operVars, threadVars, kills>>
      PROVE  ListInv'
  BY <1>6, <1>s DEF operVars
<1>7. ASSUME NEW n \in Unloadable, UnLoadPaySys(n), UNCHANGED <<operVars, threadVars, kills>>
      PROVE  ListInv'
  BY <1>7, <1>s DEF operVars
<1>8. ASSUME RemoveUnloadedModules, UNCHANGED <<operVars, threadVars, kills>>
      PROVE  ListInv'
  BY <1>8, <1>s DEF operVars
<1>9. ASSUME NEW g \in Lists, NEW r, NEW e, NEW c, ReloadOperators(g, r, e, c)
      PROVE  ListInv'
  <2>1. op_use' \in [Objects -> Nat]
    BY <1>9 DEF ListInv, ReloadOperators, Objects
  <2> QED BY <1>9, <2>1 DEF ListInv, ReloadOperators
<1>10. ASSUME NEW g \in Lists, NEW dir \in Dirs, NEW slots \in SetToAllKPermutations(Slots), Reboot(dir, slots, g)
       PROVE  ListInv'
  <2>1. op_use' \in [Objects -> Nat]
    BY <1>10 DEF ListInv, Reboot, Objects
  <2>2. Limits \in [DOMAIN Limits -> Int]
    BY RoutingConstants
  <2> QED BY <1>10, <2>1, <2>2 DEF ListInv, Reboot
<1>11. CASE UNCHANGED vars
  BY <1>11, <1>s DEF vars, operVars
<1> QED BY <1>1, <1>2, <1>3, <1>4, <1>5, <1>6, <1>7, <1>8, <1>9, <1>10, <1>11
       DEF Next, Registry, Down

\* Every worker has what its stage needs.
LEMMA WorkerStep == TypeInv /\ [Next]_vars => WorkerInv'
<1> SUFFICES ASSUME TypeInv, [Next]_vars PROVE WorkerInv'
  OBVIOUS
<1>0. RegistryInv /\ WorkerInv /\ ListInv
  BY DEF TypeInv
<1>r. RouteInv'
  BY <1>0, RouteStep DEF WorkerInv
<1>s. ASSUME UNCHANGED <<stage, given, kept, validator>> PROVE WorkerInv'
  BY <1>0, <1>r, <1>s DEF WorkerInv
<1>1. ASSUME NEW w \in Workers, NEW p \in Pays, NEW asked, InitFreeWorker(w, p, asked)
      PROVE  WorkerInv'
  <2>1. CASE UNCHANGED threadVars
    BY <2>1, <1>s DEF threadVars
  <2>2. CASE ~UNCHANGED threadVars
    <3>1. PICK m \in Loaded :
            /\ stage[w] = "idle" /\ stage' = [stage EXCEPT ![w] = "given"]
            /\ given' = [given EXCEPT ![w] = m] /\ UNCHANGED <<kept, validator>>
      BY <1>0, <1>1, <2>2, GivenPay DEF GivenAs
    <3>2. m \in Slots /\ m # NULL
      BY <1>0, LoadedSlots, RegistryConstants
    <3> QED BY <1>0, <1>r, <3>1, <3>2 DEF WorkerInv, RouteInv
  <2> QED BY <2>1, <2>2
<1>2. ASSUME NEW w \in Workers, Start(w)
      PROVE  WorkerInv'
  <2>1. GetPaySysBySoName(ValidatorSo) \in Slots
    BY <1>0, LoadedSlots, FoundLoaded
  <2> QED BY <1>2, <1>0, <1>r, <2>1 DEF Start, WorkerInv, RouteInv
<1>3. ASSUME NEW w \in Workers, Finish(w)
      PROVE  WorkerInv'
  BY <1>3, <1>0, <1>r DEF Finish, WorkerInv, RouteInv
<1>4. ASSUME NEW w \in Workers, ThreadExit(w)
      PROVE  WorkerInv'
  BY <1>4, <1>0, <1>r DEF ThreadExit, WorkerInv, RouteInv
<1>5. ASSUME NEW w \in Workers, Kill(w)
      PROVE  WorkerInv'
  BY <1>5, <1>0, <1>r DEF Kill, WorkerInv, RouteInv, Busy
<1>6. ASSUME NEW n \in Loadable, NEW s \in Slots, LoadPaySys(n, s), UNCHANGED <<operVars, threadVars, kills>>
      PROVE  WorkerInv'
  BY <1>6, <1>s DEF threadVars
<1>7. ASSUME NEW n \in Unloadable, UnLoadPaySys(n), UNCHANGED <<operVars, threadVars, kills>>
      PROVE  WorkerInv'
  BY <1>7, <1>s DEF threadVars
<1>8. ASSUME RemoveUnloadedModules, UNCHANGED <<operVars, threadVars, kills>>
      PROVE  WorkerInv'
  BY <1>8, <1>s DEF threadVars
<1>9. ASSUME NEW g \in Lists, NEW r, NEW e, NEW c, ReloadOperators(g, r, e, c)
      PROVE  WorkerInv'
  BY <1>9, <1>s DEF ReloadOperators, threadVars
<1>10. ASSUME NEW g \in Lists, NEW dir \in Dirs, NEW slots \in SetToAllKPermutations(Slots), Reboot(dir, slots, g)
       PROVE  WorkerInv'
  BY <1>10, <1>s DEF Reboot, threadVars
<1>11. CASE UNCHANGED vars
  BY <1>11, <1>s DEF vars, threadVars
<1> QED BY <1>1, <1>2, <1>3, <1>4, <1>5, <1>6, <1>7, <1>8, <1>9, <1>10, <1>11
       DEF Next, Registry, Down

\* Use and UnUse at one module; a count that is not 0 goes down by one.
LEMMA UsedAt ==
  ASSUME NEW count \in [Slots -> Nat], NEW x \in Slots \cup {NULL}, NEW s \in Slots
  PROVE  /\ Use(count, x) \in [Slots -> Nat] /\ UnUse(count, x) \in [Slots -> Nat]
         /\ Use(count, x)[s] = count[s] + (IF x = s THEN 1 ELSE 0)
         /\ (x = s => count[s] > 0) => UnUse(count, x)[s] = count[s] - (IF x = s THEN 1 ELSE 0)
BY RegistryConstants DEF Use, UnUse

\* Start moves the thread's own use from its last module to the new one.
LEMMA StartCounts ==
  ASSUME TypeInv, ModulesInv, NEW w \in Workers, Start(w), NEW s \in Loaded
  PROVE  ModuleCount(s)'
<1> DEFINE v == GetPaySysBySoName(ValidatorSo)
           moved == IF kept[w] = given[w] THEN use_count ELSE Use(UnUse(use_count, kept[w]), given[w])
           is(x) == IF x = s THEN 1 ELSE 0
<1>1. s \in Slots /\ v \in Slots
  BY LoadedSlots, FoundLoaded DEF TypeInv
<1>2. /\ given \in [Workers -> Slots \cup {NULL}] /\ kept \in [Workers -> Slots \cup {NULL}]
      /\ validator \in [Workers -> Slots \cup {NULL}] /\ use_count \in [Slots -> Nat] /\ validator[w] = NULL
  BY DEF TypeInv, WorkerInv, RouteInv, RegistryInv, Start
<1>3. /\ kept' = [kept EXCEPT ![w] = given[w]] /\ validator' = [validator EXCEPT ![w] = v]
      /\ use_count' = Use(moved, v) /\ UNCHANGED <<given, kills>>
  BY DEF Start
<1>4. Count(given, s) \in Nat /\ Count(kept, s) \in Nat /\ Count(validator, s) \in Nat
  BY CountPositive
<1> HIDE DEF v
<1>5. Count(kept', s) = Count(kept, s) - is(kept[w]) + is(given[w])
  <2>1. kept'[w] = given[w] /\ OneChanged(kept, kept', w)
    BY <1>2, <1>3 DEF OneChanged
  <2> QED BY <1>4, <2>1, Counted
<1>6. Count(validator', s) = Count(validator, s) + is(v)
  <2>1. validator'[w] = v /\ OneChanged(validator, validator', w)
    BY <1>2, <1>3 DEF OneChanged
  <2>2. validator[w] # s
    BY <1>1, <1>2, RegistryConstants
  <2>3. /\ validator'[w] = s => Count(validator', s) = Count(validator, s) + 1
        /\ validator'[w] # s => Count(validator', s) = Count(validator, s)
    BY <2>1, <2>2, Counted
  <2> QED BY <1>4, <2>1, <2>3
<1>7. Count(given', s) = Count(given, s)
  BY <1>3
<1>8. kept[w] = s => Count(kept, s) > 0
  BY CountPositive
<1>9. ModuleCount(s)
  BY DEF ModulesInv
<1>10. moved \in [Slots -> Nat] /\ moved[s] = use_count[s] - is(kept[w]) + is(given[w])
  <2> DEFINE a == UnUse(use_count, kept[w])
  <2>1. kept[w] \in Slots \cup {NULL} /\ given[w] \in Slots \cup {NULL} /\ use_count[s] \in Nat
    BY <1>1, <1>2
  <2>2. kept[w] = s => use_count[s] > 0
    BY <1>4, <1>8, <1>9, <2>1 DEF ModuleCount
  <2>3. a \in [Slots -> Nat] /\ a[s] = use_count[s] - is(kept[w])
    BY <1>1, <1>2, <2>1, <2>2, UsedAt
  <2> HIDE DEF a
  <2>4. Use(a, given[w]) \in [Slots -> Nat] /\ Use(a, given[w])[s] = a[s] + is(given[w])
    BY <1>1, <2>1, <2>3, UsedAt
  <2>5. CASE kept[w] = given[w]
    <3>1. moved = use_count
      BY <2>5
    <3> QED BY <1>2, <2>1, <2>5, <3>1
  <2>6. CASE kept[w] # given[w]
    <3>1. moved = Use(a, given[w])
      BY <2>6 DEF a
    <3> QED BY <2>1, <2>3, <2>4, <3>1
  <2> QED BY <2>5, <2>6
<1> HIDE DEF moved
<1>11. use_count'[s] = moved[s] + is(v)
  BY <1>1, <1>3, <1>10, UsedAt
<1>12. use_count[s] \in Nat
  BY <1>1, <1>2
<1>13. Count(given, s)' = Count(given', s) /\ Count(kept, s)' = Count(kept', s)
       /\ Count(validator, s)' = Count(validator', s) /\ (use_count[s])' = use_count'[s]
  BY DEF Count
<1>14. kills' = kills
  BY <1>3
<1> QED BY <1>4, <1>5, <1>6, <1>7, <1>9, <1>10, <1>11, <1>12, <1>13, <1>14 DEF ModuleCount

\* The pay's uses of its module and of the validator end with it.
LEMMA FinishCounts ==
  ASSUME TypeInv, ModulesInv, NEW w \in Workers, Finish(w), NEW s \in Loaded
  PROVE  ModuleCount(s)'
<1> DEFINE a == UnUse(use_count, validator[w])
           is(x) == IF x = s THEN 1 ELSE 0
<1>1. s \in Slots /\ s # NULL
  BY LoadedSlots, RegistryConstants DEF TypeInv
<1>2. /\ given \in [Workers -> Slots \cup {NULL}] /\ validator \in [Workers -> Slots \cup {NULL}]
      /\ use_count \in [Slots -> Nat]
  BY DEF TypeInv, WorkerInv, RouteInv, RegistryInv
<1>3. /\ given' = [given EXCEPT ![w] = NULL] /\ validator' = [validator EXCEPT ![w] = NULL]
      /\ use_count' = UnUse(a, given[w]) /\ UNCHANGED <<kept, kills>>
  BY DEF Finish
<1>4. Count(given, s) \in Nat /\ Count(kept, s) \in Nat /\ Count(validator, s) \in Nat
  BY CountPositive
<1>5. Count(given', s) = Count(given, s) - is(given[w])
  <2>1. given'[w] = NULL /\ OneChanged(given, given', w)
    BY <1>2, <1>3 DEF OneChanged
  <2> QED BY <1>1, <1>4, <2>1, Counted
<1>6. Count(validator', s) = Count(validator, s) - is(validator[w])
  <2>1. validator'[w] = NULL /\ OneChanged(validator, validator', w)
    BY <1>2, <1>3 DEF OneChanged
  <2> QED BY <1>1, <1>4, <2>1, Counted
<1>7. Count(kept', s) = Count(kept, s) /\ kills' = kills
  BY <1>3
<1>8. (given[w] = s => Count(given, s) > 0) /\ (validator[w] = s => Count(validator, s) > 0)
  BY CountPositive
<1>9. ModuleCount(s)
  BY DEF ModulesInv
<1>10. use_count[s] \in Nat /\ given[w] \in Slots \cup {NULL} /\ validator[w] \in Slots \cup {NULL}
  BY <1>1, <1>2
<1>11. validator[w] = s => use_count[s] > 0
  BY <1>4, <1>8, <1>9, <1>10 DEF ModuleCount
<1>12. a \in [Slots -> Nat] /\ a[s] = use_count[s] - is(validator[w])
  BY <1>1, <1>2, <1>10, <1>11, UsedAt
<1>13. given[w] = s => a[s] > 0
  BY <1>4, <1>8, <1>9, <1>10, <1>12 DEF ModuleCount
<1> HIDE DEF a
<1>14. use_count'[s] = a[s] - is(given[w])
  BY <1>1, <1>3, <1>10, <1>12, <1>13, UsedAt
<1>15. /\ Count(given, s)' = Count(given', s) /\ Count(kept, s)' = Count(kept', s)
       /\ Count(validator, s)' = Count(validator', s) /\ (use_count[s])' = use_count'[s]
  BY DEF Count
<1> QED BY <1>4, <1>5, <1>6, <1>7, <1>9, <1>10, <1>12, <1>14, <1>15 DEF ModuleCount

\* A retired thread leaves its last module.
LEMMA ExitCounts ==
  ASSUME TypeInv, ModulesInv, NEW w \in Workers, ThreadExit(w), NEW s \in Loaded
  PROVE  ModuleCount(s)'
<1> DEFINE is(x) == IF x = s THEN 1 ELSE 0
<1>1. s \in Slots /\ s # NULL
  BY LoadedSlots, RegistryConstants DEF TypeInv
<1>2. kept \in [Workers -> Slots \cup {NULL}] /\ use_count \in [Slots -> Nat]
  BY DEF TypeInv, WorkerInv, RouteInv, RegistryInv
<1>3. /\ kept' = [kept EXCEPT ![w] = NULL] /\ use_count' = UnUse(use_count, kept[w])
      /\ UNCHANGED <<given, validator, kills>>
  BY DEF ThreadExit
<1>4. Count(given, s) \in Nat /\ Count(kept, s) \in Nat /\ Count(validator, s) \in Nat
  BY CountPositive
<1>5. Count(kept', s) = Count(kept, s) - is(kept[w])
  <2>1. kept'[w] = NULL /\ OneChanged(kept, kept', w)
    BY <1>2, <1>3 DEF OneChanged
  <2> QED BY <1>1, <1>4, <2>1, Counted
<1>6. Count(given', s) = Count(given, s) /\ Count(validator', s) = Count(validator, s) /\ kills' = kills
  BY <1>3
<1>7. kept[w] = s => Count(kept, s) > 0
  BY CountPositive
<1>8. ModuleCount(s)
  BY DEF ModulesInv
<1>9. use_count[s] \in Nat /\ kept[w] \in Slots \cup {NULL}
  BY <1>1, <1>2
<1>10. kept[w] = s => use_count[s] > 0
  BY <1>4, <1>7, <1>8, <1>9 DEF ModuleCount
<1>11. use_count'[s] = use_count[s] - is(kept[w])
  BY <1>1, <1>2, <1>3, <1>9, <1>10, UsedAt
<1>12. /\ Count(given, s)' = Count(given', s) /\ Count(kept, s)' = Count(kept', s)
       /\ Count(validator, s)' = Count(validator', s) /\ (use_count[s])' = use_count'[s]
  BY DEF Count
<1> QED BY <1>4, <1>5, <1>6, <1>8, <1>9, <1>11, <1>12 DEF ModuleCount

\* A pay that is given to a worker makes it a user of the pay's module.
LEMMA GivenCounts ==
  ASSUME TypeInv, ModulesInv, NEW w \in Workers, NEW m \in Loaded, NEW s \in Loaded,
         stage[w] = "idle", given' = [given EXCEPT ![w] = m], use_count' = Use(use_count, m),
         UNCHANGED <<kept, validator, kills>>
  PROVE  ModuleCount(s)'
<1> DEFINE is(x) == IF x = s THEN 1 ELSE 0
<1>1. s \in Slots /\ m \in Slots /\ s # NULL
  BY LoadedSlots, RegistryConstants DEF TypeInv
<1>2. given \in [Workers -> Slots \cup {NULL}] /\ use_count \in [Slots -> Nat] /\ given[w] = NULL
  BY DEF TypeInv, WorkerInv, RouteInv, RegistryInv
<1>4. Count(given, s) \in Nat /\ Count(kept, s) \in Nat /\ Count(validator, s) \in Nat
  BY CountPositive
<1>5. Count(given', s) = Count(given, s) + is(m)
  <2>1. given'[w] = m /\ OneChanged(given, given', w)
    BY <1>2 DEF OneChanged
  <2>2. given[w] # s
    BY <1>1, <1>2
  <2>3. given'[w] = s => Count(given', s) = Count(given, s) + 1
    BY ONLY w \in Workers, <2>1, <2>2, Counted
  <2>4. given'[w] # s => Count(given', s) = Count(given, s)
    BY ONLY w \in Workers, <2>1, <2>2, Counted
  <2> QED BY <1>4, <2>1, <2>3, <2>4
<1>6. Count(kept', s) = Count(kept, s) /\ Count(validator', s) = Count(validator, s)
  OBVIOUS
<1>8. ModuleCount(s)
  BY DEF ModulesInv
<1>9. use_count[s] \in Nat
  BY <1>1, <1>2
<1>11. use_count'[s] = use_count[s] + is(m)
  BY <1>1, <1>2, UsedAt
<1>12. /\ Count(given, s)' = Count(given', s) /\ Count(kept, s)' = Count(kept', s)
       /\ Count(validator, s)' = Count(validator', s) /\ (use_count[s])' = use_count'[s]
  BY DEF Count
<1> QED BY <1>4, <1>5, <1>6, <1>8, <1>9, <1>11, <1>12 DEF ModuleCount

\* A thread that is cancelled leaves its uses behind.
LEMMA KillCounts ==
  ASSUME TypeInv, ModulesInv, NEW w \in Workers, Kill(w), NEW s \in Loaded
  PROVE  ModuleCount(s)'
<1>1. s \in Slots /\ s # NULL
  BY LoadedSlots, RegistryConstants DEF TypeInv
<1>2. /\ given \in [Workers -> Slots \cup {NULL}] /\ kept \in [Workers -> Slots \cup {NULL}]
      /\ validator \in [Workers -> Slots \cup {NULL}] /\ use_count \in [Slots -> Nat]
  BY DEF TypeInv, WorkerInv, RouteInv, RegistryInv
<1>3. /\ given' = [given EXCEPT ![w] = NULL] /\ validator' = [validator EXCEPT ![w] = NULL]
      /\ kept' = [kept EXCEPT ![w] = NULL] /\ use_count' = use_count /\ kills' = 1
  BY DEF Kill, registryVars
<1>4. Count(given, s) \in Nat /\ Count(kept, s) \in Nat /\ Count(validator, s) \in Nat
  BY CountPositive
<1>5. Count(given', s) <= Count(given, s)
  <2>1. given'[w] = NULL /\ OneChanged(given, given', w)
    BY <1>2, <1>3 DEF OneChanged
  <2> QED BY <1>1, <1>4, <2>1, Counted
<1>6. Count(validator', s) <= Count(validator, s)
  <2>1. validator'[w] = NULL /\ OneChanged(validator, validator', w)
    BY <1>2, <1>3 DEF OneChanged
  <2> QED BY <1>1, <1>4, <2>1, Counted
<1>7. Count(kept', s) <= Count(kept, s)
  <2>1. kept'[w] = NULL /\ OneChanged(kept, kept', w)
    BY <1>2, <1>3 DEF OneChanged
  <2> QED BY <1>1, <1>4, <2>1, Counted
<1>8. use_count[s] >= Count(given, s) + Count(kept, s) + Count(validator, s) /\ use_count[s] \in Nat
  BY <1>1, <1>2 DEF ModulesInv, ModuleCount
<1>9. Count(given', s) \in Nat /\ Count(kept', s) \in Nat /\ Count(validator', s) \in Nat
  BY CountPositive
<1>10. /\ Count(given, s)' = Count(given', s) /\ Count(kept, s)' = Count(kept', s)
       /\ Count(validator, s)' = Count(validator', s) /\ (use_count[s])' = use_count[s]
  BY <1>3 DEF Count
<1>11. use_count'[s] = use_count[s] /\ kills' # 0
  BY <1>3
<1> QED BY <1>4, <1>5, <1>6, <1>7, <1>8, <1>9, <1>10, <1>11 DEF ModuleCount

\* The use counts are kept, and so no module goes while it is used.
LEMMA ModulesStep == DefaultStays /\ TypeInv /\ ModulesInv /\ [Next]_vars => ModulesInv'
<1> SUFFICES ASSUME DefaultStays, TypeInv, ModulesInv, [Next]_vars PROVE ModulesInv'
  OBVIOUS
<1>0. RegistryInv /\ WorkerInv /\ ListInv
  BY DEF TypeInv
<1>d. Loaded \subseteq Slots
  BY <1>0, LoadedSlots
<1>h. \A u \in Workers : {given[u], kept[u], validator[u]} \ {NULL} \subseteq Loaded
  BY DEF ModulesInv
<1>m. \A t \in Loaded : ModuleCount(t)
  BY DEF ModulesInv
<1>s. ASSUME UNCHANGED <<modules_list, use_count, given, kept, validator, kills>> PROVE ModulesInv'
  BY <1>s DEF ModulesInv, ModuleCount, Count, Loaded
<1>t. /\ given \in [Workers -> Slots \cup {NULL}] /\ kept \in [Workers -> Slots \cup {NULL}]
      /\ validator \in [Workers -> Slots \cup {NULL}] /\ use_count \in [Slots -> Nat]
  BY <1>0 DEF WorkerInv, RouteInv, RegistryInv
<1>1. ASSUME NEW w \in Workers, NEW p \in Pays, NEW asked, InitFreeWorker(w, p, asked)
      PROVE  ModulesInv'
  <2>1. CASE UNCHANGED <<registryVars, operVars, threadVars, kills>>
    BY <2>1, <1>s DEF registryVars, threadVars
  <2>2. CASE ~UNCHANGED <<registryVars, operVars, threadVars, kills>>
    <3>1. PICK m \in Loaded :
            /\ stage[w] = "idle" /\ given' = [given EXCEPT ![w] = m] /\ use_count' = Use(use_count, m)
            /\ UNCHANGED <<modules_list, kept, validator, kills>>
      BY <1>0, <1>1, <2>2, GivenPay DEF GivenAs
    <3>2. Loaded' = Loaded
      BY <3>1 DEF Loaded
    <3>3. \A s \in Loaded' : ModuleCount(s)'
      BY <3>1, <3>2, GivenCounts
    <3>4. \A u \in Workers : {given'[u], kept'[u], validator'[u]} \ {NULL} \subseteq Loaded'
      BY <1>h, <1>t, <3>1, <3>2
    <3> QED BY <3>3, <3>4 DEF ModulesInv
  <2> QED BY <2>1, <2>2
<1>2. ASSUME NEW w \in Workers, Start(w)
      PROVE  ModulesInv'
  <2>1. Loaded' = Loaded
    BY <1>2 DEF Start, Loaded, registryVars
  <2>2. \A s \in Loaded' : ModuleCount(s)'
    BY <1>2, <2>1, StartCounts
  <2>3. \A u \in Workers : {given'[u], kept'[u], validator'[u]} \ {NULL} \subseteq Loaded'
    BY <1>2, <1>h, <1>t, <1>0, <2>1, FoundLoaded DEF Start
  <2> QED BY <2>2, <2>3 DEF ModulesInv
<1>3. ASSUME NEW w \in Workers, Finish(w)
      PROVE  ModulesInv'
  <2>1. Loaded' = Loaded
    BY <1>3 DEF Finish, Loaded, registryVars
  <2>2. \A s \in Loaded' : ModuleCount(s)'
    BY <1>3, <2>1, FinishCounts
  <2>3. \A u \in Workers : {given'[u], kept'[u], validator'[u]} \ {NULL} \subseteq Loaded'
    BY <1>3, <1>h, <1>t, <1>0, <2>1 DEF Finish
  <2> QED BY <2>2, <2>3 DEF ModulesInv
<1>4. ASSUME NEW w \in Workers, ThreadExit(w)
      PROVE  ModulesInv'
  <2>1. Loaded' = Loaded
    BY <1>4 DEF ThreadExit, Loaded, registryVars
  <2>2. \A s \in Loaded' : ModuleCount(s)'
    BY <1>4, <2>1, ExitCounts
  <2>3. \A u \in Workers : {given'[u], kept'[u], validator'[u]} \ {NULL} \subseteq Loaded'
    BY <1>4, <1>h, <1>t, <1>0, <2>1 DEF ThreadExit
  <2> QED BY <2>2, <2>3 DEF ModulesInv
<1>5. ASSUME NEW w \in Workers, Kill(w)
      PROVE  ModulesInv'
  <2>1. Loaded' = Loaded
    BY <1>5 DEF Kill, Loaded, registryVars
  <2>2. \A s \in Loaded' : ModuleCount(s)'
    BY <1>5, <2>1, KillCounts
  <2>3. \A u \in Workers : {given'[u], kept'[u], validator'[u]} \ {NULL} \subseteq Loaded'
    BY <1>5, <1>h, <1>t, <1>0, <2>1 DEF Kill
  <2> QED BY <2>2, <2>3 DEF ModulesInv
<1>6. ASSUME NEW n \in Loadable, NEW s \in Slots, LoadPaySys(n, s), UNCHANGED <<operVars, threadVars, kills>>
      PROVE  ModulesInv'
  <2>1. s \notin Loaded /\ Loaded' = Loaded \cup {s}
    BY <1>0, <1>6, AppendedSet DEF LoadPaySys, RegistryInv, Loaded
  <2>2. use_count' = [use_count EXCEPT ![s] = 0] /\ UNCHANGED <<given, kept, validator, kills>>
    BY <1>6 DEF LoadPaySys, threadVars
  <2>3. s # NULL /\ \A u \in Workers : given[u] # s /\ kept[u] # s /\ validator[u] # s
    BY <1>h, <2>1, RegistryConstants
  <2>4. Count(given, s) = 0 /\ Count(kept, s) = 0 /\ Count(validator, s) = 0
    BY <2>3, CountPositive
  <2>5. use_count'[s] = 0 /\ \A t \in Loaded : use_count'[t] = use_count[t]
    BY <1>d, <1>t, <2>1, <2>2
  <2>6. ModuleCount(s)'
    BY <2>2, <2>4, <2>5 DEF ModuleCount, Count
  <2>7. \A t \in Loaded : ModuleCount(t)'
    BY <1>m, <2>2, <2>5 DEF ModuleCount, Count
  <2>8. \A u \in Workers : {given'[u], kept'[u], validator'[u]} \ {NULL} \subseteq Loaded'
    BY <1>h, <2>1, <2>2
  <2> QED BY <2>1, <2>6, <2>7, <2>8 DEF ModulesInv
<1>7. ASSUME NEW n \in Unloadable, UnLoadPaySys(n), UNCHANGED <<operVars, threadVars, kills>>
      PROVE  ModulesInv'
  BY <1>7, <1>s DEF UnLoadPaySys, threadVars
<1>8. ASSUME RemoveUnloadedModules, UNCHANGED <<operVars, threadVars, kills>>
      PROVE  ModulesInv'
  <2>1. UNCHANGED <<given, kept, validator, kills>>
    BY <1>8 DEF threadVars
  <2>2. Loaded' \subseteq Loaded /\ \A s \in Loaded' : use_count'[s] = use_count[s]
    BY <1>0, <1>8, Removed
  <2>3. \A s \in Loaded' : ModuleCount(s)'
    BY <1>m, <2>1, <2>2 DEF ModuleCount, Count
  <2>4. ASSUME NEW u \in Workers, NEW s \in {given[u], kept[u], validator[u]} \ {NULL}
        PROVE  s \in Loaded'
    <3>1. s \in Loaded
      BY <1>h
    <3>2. Count(given, s) \in Nat /\ Count(kept, s) \in Nat /\ Count(validator, s) \in Nat
      BY CountPositive
    <3>3. Count(given, s) > 0 \/ Count(kept, s) > 0 \/ Count(validator, s) > 0
      BY CountPositive
    <3>4. use_count[s] \in Nat
      BY <1>d, <1>t, <3>1
    <3>5. use_count[s] # 0
      BY <1>m, <3>1, <3>2, <3>3, <3>4 DEF ModuleCount
    <3> QED BY <1>0, <1>8, <3>1, <3>5, Removed DEF Removable
  <2>5. \A u \in Workers : {given'[u], kept'[u], validator'[u]} \ {NULL} \subseteq Loaded'
    BY <2>1, <2>4
  <2> QED BY <2>3, <2>5 DEF ModulesInv
<1>9. ASSUME NEW g \in Lists, NEW r, NEW e, NEW c, ReloadOperators(g, r, e, c)
      PROVE  ModulesInv'
  BY <1>9, <1>s DEF ReloadOperators, registryVars, threadVars
<1>10. ASSUME NEW g \in Lists, NEW dir \in Dirs, NEW slots \in SetToAllKPermutations(Slots), Reboot(dir, slots, g)
       PROVE  ModulesInv'
  <2>1. \A u \in Workers : given'[u] = NULL /\ kept'[u] = NULL /\ validator'[u] = NULL
    BY <1>0, <1>10 DEF Reboot, Busy, WorkerInv, RouteInv, threadVars
  <2>2. RegistryInv' /\ use_count' = [s \in Slots |-> 0]
    BY <1>10, LoadedAfresh DEF Reboot, LoadModules
  <2>3. modules_list' \in Seq(Slots)
    BY <2>2 DEF RegistryInv
  <2>4. Loaded' \subseteq Slots
    BY <2>3, ElementOfSeq DEF Loaded, ToSet
  <2>5. ASSUME NEW s \in Loaded' PROVE ModuleCount(s)'
    <3>1. s \in Slots /\ s # NULL
      BY <2>4, RegistryConstants
    <3>2. Count(given', s) = 0 /\ Count(kept', s) = 0 /\ Count(validator', s) = 0
      BY <2>1, <3>1, CountPositive
    <3>3. use_count'[s] = 0
      BY <2>2, <3>1
    <3> QED BY <3>2, <3>3 DEF ModuleCount, Count
  <2> QED BY <2>1, <2>5 DEF ModulesInv
<1>11. CASE UNCHANGED vars
  BY <1>11, <1>s DEF vars, registryVars, threadVars
<1> QED BY <1>1, <1>2, <1>3, <1>4, <1>5, <1>6, <1>7, <1>8, <1>9, <1>10, <1>11
       DEF Next, Registry, Down

\* Use and UnUse at one operator.
LEMMA OperatorUsedAt ==
  ASSUME NEW count \in [Objects -> Nat], NEW x \in Objects \cup {NULL}, NEW o \in Objects
  PROVE  /\ o # NULL
         /\ Use(count, x)[o] = count[o] + (IF x = o THEN 1 ELSE 0)
         /\ (x = o => count[o] > 0) => UnUse(count, x)[o] = count[o] - (IF x = o THEN 1 ELSE 0)
<1>1. NULL \notin Objects
  BY RoutingConstants DEF Objects
<1> QED BY <1>1 DEF Use, UnUse

\* A pay of an operator of the new list is one more user of it.
LEMMA OperatorGiven ==
  ASSUME ListInv, RouteInv, OperatorsInv, NEW w \in Workers, NEW o \in Objects \cup {NULL},
         /\ stage[w] = "idle" /\ operat' = [operat EXCEPT ![w] = o] /\ op_use' = Use(op_use, o)
         /\ o # NULL => o[1] = operators_list
         /\ UNCHANGED <<operators_list, old_operators_list, kills>>
  PROVE  OperatorsInv'
<1>1. operat \in [Workers -> Objects \cup {NULL}] /\ op_use \in [Objects -> Nat]
  BY DEF RouteInv, ListInv
<1>2. \A q \in Objects : q[1] \in Current =>
        op_use[q] >= Count(operat, q) /\ (kills = 0 => op_use[q] = Count(operat, q))
  BY DEF OperatorsInv
<1>3. \A u \in Workers : operat[u] # NULL => operat[u][1] \in Current
  BY DEF OperatorsInv
<1>4. operat[w] = NULL /\ operat'[w] = o /\ OneChanged(operat, operat', w)
  BY <1>1 DEF RouteInv, OneChanged
<1>5. Current' = Current /\ kills' = kills /\ (o # NULL => o[1] \in Current)
  BY DEF Current
<1>6. \A u \in Workers : operat'[u] # NULL => operat'[u][1] \in Current'
  BY <1>3, <1>4, <1>5 DEF OneChanged
<1>7. ASSUME NEW q \in Objects, q[1] \in Current
      PROVE  op_use'[q] >= Count(operat', q) /\ (kills = 0 => op_use'[q] = Count(operat', q))
  <2>1. q # NULL /\ op_use[q] \in Nat /\ Count(operat, q) \in Nat
    BY <1>1, OperatorUsedAt, CountPositive
  <2>2. op_use'[q] = op_use[q] + (IF o = q THEN 1 ELSE 0)
    BY <1>1, OperatorUsedAt
  <2>3. Count(operat', q) = Count(operat, q) + (IF o = q THEN 1 ELSE 0)
    <3>1. operat[w] # q
      BY <1>4, <2>1
    <3>2. operat'[w] = q => Count(operat', q) = Count(operat, q) + 1
      BY ONLY w \in Workers, <1>4, <3>1, Counted
    <3>3. operat'[w] # q => Count(operat', q) = Count(operat, q)
      BY ONLY w \in Workers, <1>4, <3>1, Counted
    <3> QED BY <1>4, <2>1, <3>2, <3>3
  <2>4. op_use[q] >= Count(operat, q) /\ (kills = 0 => op_use[q] = Count(operat, q))
    BY <1>2, <1>7
  <2> QED BY <2>1, <2>2, <2>3, <2>4
<1> QED BY <1>5, <1>6, <1>7 DEF OperatorsInv, Count

\* A pay that is done is one user less.
LEMMA OperatorDone ==
  ASSUME ListInv, RouteInv, OperatorsInv, NEW w \in Workers, Finish(w)
  PROVE  OperatorsInv'
<1>1. operat \in [Workers -> Objects \cup {NULL}] /\ op_use \in [Objects -> Nat]
  BY DEF RouteInv, ListInv
<1>2. \A q \in Objects : q[1] \in Current =>
        op_use[q] >= Count(operat, q) /\ (kills = 0 => op_use[q] = Count(operat, q))
  BY DEF OperatorsInv
<1>3. \A u \in Workers : operat[u] # NULL => operat[u][1] \in Current
  BY DEF OperatorsInv
<1>4. operat'[w] = NULL /\ OneChanged(operat, operat', w)
  BY <1>1 DEF Finish, OneChanged
<1>5. Current' = Current /\ kills' = kills /\ op_use' = UnUse(op_use, operat[w])
  BY DEF Current, Finish
<1>6. \A u \in Workers : operat'[u] # NULL => operat'[u][1] \in Current'
  BY <1>3, <1>4, <1>5 DEF OneChanged
<1>7. ASSUME NEW q \in Objects, q[1] \in Current
      PROVE  op_use'[q] >= Count(operat', q) /\ (kills = 0 => op_use'[q] = Count(operat', q))
  <2>1. q # NULL /\ op_use[q] \in Nat /\ Count(operat, q) \in Nat /\ operat[w] \in Objects \cup {NULL}
    BY <1>1, OperatorUsedAt, CountPositive
  <2>2. op_use[q] >= Count(operat, q) /\ (kills = 0 => op_use[q] = Count(operat, q))
    BY <1>2, <1>7
  <2>3. operat[w] = q => op_use[q] > 0
    <3>1. operat[w] = q => Count(operat, q) > 0
      BY CountPositive
    <3> QED BY <2>1, <2>2, <3>1
  <2>4. op_use'[q] = op_use[q] - (IF operat[w] = q THEN 1 ELSE 0)
    BY <1>1, <1>5, <2>1, <2>3, OperatorUsedAt
  <2>5. Count(operat', q) = Count(operat, q) - (IF operat[w] = q THEN 1 ELSE 0)
    BY <1>4, <2>1, Counted
  <2> QED BY <2>1, <2>2, <2>4, <2>5
<1> QED BY <1>5, <1>6, <1>7 DEF OperatorsInv, Count

\* A thread that is cancelled leaves the operator's count behind.
LEMMA OperatorKilled ==
  ASSUME ListInv, RouteInv, OperatorsInv, NEW w \in Workers, Kill(w)
  PROVE  OperatorsInv'
<1>1. operat \in [Workers -> Objects \cup {NULL}] /\ op_use \in [Objects -> Nat]
  BY DEF RouteInv, ListInv
<1>2. \A q \in Objects : q[1] \in Current =>
        op_use[q] >= Count(operat, q) /\ (kills = 0 => op_use[q] = Count(operat, q))
  BY DEF OperatorsInv
<1>3. \A u \in Workers : operat[u] # NULL => operat[u][1] \in Current
  BY DEF OperatorsInv
<1>4. operat'[w] = NULL /\ OneChanged(operat, operat', w)
  BY <1>1 DEF Kill, OneChanged
<1>5. Current' = Current /\ kills' # 0 /\ op_use' = op_use
  BY DEF Current, Kill, operVars
<1>6. \A u \in Workers : operat'[u] # NULL => operat'[u][1] \in Current'
  BY <1>3, <1>4, <1>5 DEF OneChanged
<1>7. ASSUME NEW q \in Objects, q[1] \in Current
      PROVE  op_use'[q] >= Count(operat', q)
  <2>1. q # NULL /\ op_use[q] \in Nat /\ Count(operat, q) \in Nat /\ Count(operat', q) \in Nat
    BY <1>1, OperatorUsedAt, CountPositive
  <2>2. Count(operat', q) <= Count(operat, q)
    BY <1>4, <2>1, Counted
  <2>3. op_use[q] >= Count(operat, q) /\ op_use'[q] = op_use[q]
    BY <1>2, <1>5, <1>7
  <2> QED BY <2>1, <2>2, <2>3
<1> QED BY <1>5, <1>6, <1>7 DEF OperatorsInv, Count

\* P_CMD_RELOAD_OP replaces the list that nobody uses any more.
LEMMA OperatorsReplaced ==
  ASSUME ListInv, RouteInv, OperatorsInv, NEW g \in Lists, NEW r, NEW e, NEW c, ReloadOperators(g, r, e, c)
  PROVE  OperatorsInv'
<1>1. operat \in [Workers -> Objects \cup {NULL}] /\ op_use \in [Objects -> Nat]
  BY DEF RouteInv, ListInv
<1>2. \A q \in Objects : q[1] \in Current =>
        op_use[q] >= Count(operat, q) /\ (kills = 0 => op_use[q] = Count(operat, q))
  BY DEF OperatorsInv
<1>3. \A u \in Workers : operat[u] # NULL => operat[u][1] \in Current
  BY DEF OperatorsInv
<1>4. operat' = operat /\ kills' = kills
  BY DEF ReloadOperators, threadVars
<1>5. CASE OldOperatorsUsed
  BY <1>4, <1>5 DEF ReloadOperators, OperatorsInv, Current, Count
<1>6. CASE ~OldOperatorsUsed
  <2>1. /\ g \notin Current /\ old_operators_list' = operators_list /\ operators_list' = g
        /\ op_use' = [o \in Objects |-> IF o[1] = operators_list THEN op_use[o] ELSE 0]
    BY <1>6 DEF ReloadOperators, Current, Objects
  <2>2. operators_list \in Current /\ Current' = {g, operators_list}
    BY <2>1 DEF Current
  <2>3. ASSUME NEW u \in Workers, operat[u] # NULL PROVE operat[u][1] = operators_list
    <3>1. operat[u] \in Objects /\ operat[u][1] \in Current
      BY <1>1, <1>3, <2>3
    <3>2. op_use[operat[u]] \in Nat /\ Count(operat, operat[u]) \in Nat /\ Count(operat, operat[u]) > 0
      BY <1>1, <3>1, CountPositive
    <3>3. op_use[operat[u]] > 0
      BY <1>2, <3>1, <3>2
    <3>4. PICK l \in Lists, id \in Ids : operat[u] = <<l, id>>
      BY <3>1 DEF Objects
    <3>5. l # old_operators_list
      BY <1>6, <3>3, <3>4, RoutingConstants DEF OldOperatorsUsed
    <3> QED BY <3>1, <3>4, <3>5 DEF Current
  <2>4. ASSUME NEW q \in Objects, q[1] \in Current'
        PROVE  op_use'[q] >= Count(operat, q) /\ (kills = 0 => op_use'[q] = Count(operat, q))
    <3>1. CASE q[1] = operators_list
      <4>1. op_use'[q] = op_use[q] /\ q[1] \in Current
        BY <2>1, <2>2, <3>1
      <4> QED BY <1>2, <4>1
    <3>2. CASE q[1] # operators_list
      <4>1. op_use'[q] = 0
        BY <2>1, <3>2
      <4>2. \A u \in Workers : operat[u] # q
        <5>1. q # NULL
          BY <1>1, OperatorUsedAt
        <5> QED BY <2>3, <3>2, <5>1
      <4>3. Count(operat, q) = 0
        BY <4>2, CountPositive
      <4> QED BY <4>1, <4>3
    <3> QED BY <3>1, <3>2
  <2>5. \A u \in Workers : operat'[u] # NULL => operat'[u][1] \in Current'
    BY <1>4, <2>2, <2>3
  <2>6. \A q \in Objects : q[1] \in Current' =>
          op_use'[q] >= Count(operat', q) /\ (kills' = 0 => op_use'[q] = Count(operat', q))
    BY <1>4, <2>4
  <2> QED BY <2>5, <2>6 DEF OperatorsInv, Count
<1> QED BY <1>5, <1>6

\* The counts of the operators are kept, and so no list goes while it is used.
LEMMA OperatorsStep == ListInv /\ RouteInv /\ OperatorsInv /\ [Next]_vars => OperatorsInv'
<1> SUFFICES ASSUME ListInv, RouteInv, OperatorsInv, [Next]_vars PROVE OperatorsInv'
  OBVIOUS
<1>n. \A o \in Objects : o # NULL
  BY RoutingConstants DEF Objects
<1>s. ASSUME UNCHANGED <<operators_list, old_operators_list, op_use, operat, kills>> PROVE OperatorsInv'
  BY <1>s DEF OperatorsInv, Current, Count
<1>1. ASSUME NEW w \in Workers, NEW p \in Pays, NEW asked, InitFreeWorker(w, p, asked)
      PROVE  OperatorsInv'
  <2>1. CASE UNCHANGED <<registryVars, operVars, threadVars, kills>>
    BY <2>1, <1>s DEF operVars, threadVars
  <2>2. CASE ~UNCHANGED <<registryVars, operVars, threadVars, kills>>
    <3>1. PICK m, c : \E o \in Objects \cup {NULL}, t \in DOMAIN Limits \cup {NULL} : GivenAs(w, m, c, o, t)
      BY <1>1, <2>2, GivenPay
    <3>2. PICK o \in Objects \cup {NULL}, t \in DOMAIN Limits \cup {NULL} : GivenAs(w, m, c, o, t)
      BY <3>1
    <3>3. /\ stage[w] = "idle" /\ operat' = [operat EXCEPT ![w] = o] /\ op_use' = Use(op_use, o)
          /\ o # NULL => o[1] = operators_list
          /\ UNCHANGED <<operators_list, old_operators_list, kills>>
      BY <3>2 DEF GivenAs
    <3> QED BY <3>3, OperatorGiven
  <2> QED BY <2>1, <2>2
<1>2. ASSUME NEW w \in Workers, Start(w)
      PROVE  OperatorsInv'
  BY <1>2, <1>s DEF Start, operVars
<1>3. ASSUME NEW w \in Workers, Finish(w)
      PROVE  OperatorsInv'
  BY <1>3, OperatorDone
<1>4. ASSUME NEW w \in Workers, ThreadExit(w)
      PROVE  OperatorsInv'
  BY <1>4, <1>s DEF ThreadExit, operVars
<1>5. ASSUME NEW w \in Workers, Kill(w)
      PROVE  OperatorsInv'
  BY <1>5, OperatorKilled
<1>6. ASSUME NEW n \in Loadable, NEW s \in Slots, LoadPaySys(n, s), UNCHANGED <<operVars, threadVars, kills>>
      PROVE  OperatorsInv'
  BY <1>6, <1>s DEF operVars, threadVars
<1>7. ASSUME NEW n \in Unloadable, UnLoadPaySys(n), UNCHANGED <<operVars, threadVars, kills>>
      PROVE  OperatorsInv'
  BY <1>7, <1>s DEF operVars, threadVars
<1>8. ASSUME RemoveUnloadedModules, UNCHANGED <<operVars, threadVars, kills>>
      PROVE  OperatorsInv'
  BY <1>8, <1>s DEF operVars, threadVars
<1>9. ASSUME NEW g \in Lists, NEW r, NEW e, NEW c, ReloadOperators(g, r, e, c)
      PROVE  OperatorsInv'
  BY <1>9, OperatorsReplaced
<1>10. ASSUME NEW g \in Lists, NEW dir \in Dirs, NEW slots \in SetToAllKPermutations(Slots), Reboot(dir, slots, g)
       PROVE  OperatorsInv'
  <2>1. /\ \A u \in Workers : operat[u] = NULL
        /\ g \notin {operators_list, old_operators_list} /\ operators_list' = g
        /\ op_use' = [o \in Objects |-> IF o[1] = old_operators_list THEN op_use[o] ELSE 0]
        /\ UNCHANGED <<old_operators_list, operat, kills>>
    BY <1>10 DEF Reboot, Busy, RouteInv, threadVars, Objects
  <2>2. ASSUME NEW o \in Objects, o[1] \in Current'
        PROVE  op_use'[o] >= Count(operat, o) /\ (kills = 0 => op_use'[o] = Count(operat, o))
    <3>1. CASE o[1] = old_operators_list
      <4>1. op_use'[o] = op_use[o] /\ o[1] \in Current
        BY <2>1, <3>1 DEF Current
      <4> QED BY <4>1 DEF OperatorsInv
    <3>2. CASE o[1] # old_operators_list
      <4>1. op_use'[o] = 0
        BY <2>1, <3>2
      <4>2. Count(operat, o) = 0
        BY <2>1, <1>n, CountPositive
      <4> QED BY <4>1, <4>2
    <3> QED BY <3>1, <3>2
  <2>3. \A o \in Objects : o[1] \in Current' =>
          op_use'[o] >= Count(operat', o) /\ (kills' = 0 => op_use'[o] = Count(operat', o))
    BY <2>1, <2>2
  <2>4. \A u \in Workers : operat'[u] = NULL
    BY <2>1
  <2> QED BY <2>3, <2>4 DEF OperatorsInv, Count
<1>11. CASE UNCHANGED vars
  BY <1>11, <1>s DEF vars, operVars, threadVars
<1> QED BY <1>1, <1>2, <1>3, <1>4, <1>5, <1>6, <1>7, <1>8, <1>9, <1>10, <1>11
       DEF Next, Registry, Down

\* Taking a unit and giving one back.
LEMMA UnitsStep == ListInv /\ RouteInv /\ UnitsReturned /\ [Next]_vars => UnitsReturned'
<1> SUFFICES ASSUME ListInv, RouteInv, UnitsReturned, [Next]_vars PROVE UnitsReturned'
  OBVIOUS
<1>n. \A q \in DOMAIN Limits : q # NULL /\ Limits[q] \in Int
  BY RoutingConstants
<1>t. took \in [Workers -> DOMAIN Limits \cup {NULL}] /\ limits \in [DOMAIN Limits -> Int]
  BY DEF RouteInv, ListInv
<1>u. kills = 0 => \A q \in DOMAIN Limits : limits[q] + Count(took, q) >= Limits[q]
  BY DEF UnitsReturned, Count
<1>s. ASSUME UNCHANGED <<limits, took, kills>> PROVE UnitsReturned'
  BY <1>s DEF UnitsReturned
<1>1. ASSUME NEW w \in Workers, NEW p \in Pays, NEW asked, InitFreeWorker(w, p, asked)
      PROVE  UnitsReturned'
  <2>1. CASE UNCHANGED <<registryVars, operVars, threadVars, kills>>
    BY <2>1, <1>s DEF operVars, threadVars
  <2>2. CASE ~UNCHANGED <<registryVars, operVars, threadVars, kills>>
    <3>1. PICK m, c : \E o \in Objects \cup {NULL}, t \in DOMAIN Limits \cup {NULL} : GivenAs(w, m, c, o, t)
      BY <1>1, <2>2, GivenPay
    <3>2. PICK o \in Objects \cup {NULL}, t \in DOMAIN Limits \cup {NULL} : GivenAs(w, m, c, o, t)
      BY <3>1
    <3>3. /\ stage[w] = "idle" /\ took' = [took EXCEPT ![w] = t] /\ kills' = kills
          /\ limits' = IF t = NULL THEN limits ELSE [limits EXCEPT ![t] = @ - 1]
      BY <3>2 DEF GivenAs
    <3>4. took[w] = NULL /\ took'[w] = t /\ OneChanged(took, took', w)
      BY <1>t, <3>3 DEF RouteInv, OneChanged
    <3>5. ASSUME kills = 0, NEW q \in DOMAIN Limits PROVE limits'[q] + Count(took', q) >= Limits[q]
      <4>0. took[w] # q
        BY <1>n, <3>4
      <4>1. /\ took'[w] = q => Count(took', q) = Count(took, q) + 1
            /\ took'[w] # q => Count(took', q) = Count(took, q)
        BY ONLY w \in Workers, <3>4, <4>0, Counted
      <4>2. /\ took'[w] = q => limits'[q] = limits[q] - 1
            /\ took'[w] # q => limits'[q] = limits[q]
        BY <1>n, <1>t, <3>3, <3>4
      <4>3. limits[q] + Count(took, q) >= Limits[q]
        BY <1>u, <3>5
      <4> QED BY <1>n, <1>t, <4>1, <4>2, <4>3, CountPositive
    <3> QED BY <3>3, <3>5 DEF UnitsReturned, Count
  <2> QED BY <2>1, <2>2
<1>2. ASSUME NEW w \in Workers, Start(w)
      PROVE  UnitsReturned'
  BY <1>2, <1>s DEF Start, operVars
<1>3. ASSUME NEW w \in Workers, Finish(w)
      PROVE  UnitsReturned'
  <2>1. /\ took'[w] = NULL /\ OneChanged(took, took', w) /\ kills' = kills
        /\ limits' = IF operat[w] = NULL THEN limits ELSE GiveBack(codename[w])
    BY <1>3, <1>t DEF Finish, OneChanged
  <2>2. took[w] # NULL => codename[w] = took[w] /\ operat[w] # NULL
    BY DEF RouteInv
  <2>3. ASSUME kills = 0, NEW q \in DOMAIN Limits PROVE limits'[q] + Count(took', q) >= Limits[q]
    <3>1. limits'[q] \in Int /\ limits'[q] >= limits[q] /\ (took[w] = q => limits'[q] = limits[q] + 1)
      BY <1>n, <1>t, <2>1, <2>2 DEF GiveBack
    <3>2. Count(took', q) = IF took[w] = q THEN Count(took, q) - 1 ELSE Count(took, q)
      <4>1. took'[w] # q
        BY <1>n, <2>1
      <4> QED BY ONLY w \in Workers, <2>1, <4>1, Counted
    <3>3. limits[q] + Count(took, q) >= Limits[q]
      BY <1>u, <2>3
    <3> QED BY <1>n, <1>t, <3>1, <3>2, <3>3, CountPositive
  <2> QED BY <2>1, <2>3 DEF UnitsReturned, Count
<1>4. ASSUME NEW w \in Workers, ThreadExit(w)
      PROVE  UnitsReturned'
  BY <1>4, <1>s DEF ThreadExit, operVars
<1>5. ASSUME NEW w \in Workers, Kill(w)
      PROVE  UnitsReturned'
  BY <1>5 DEF Kill, UnitsReturned
<1>6. ASSUME NEW n \in Loadable, NEW s \in Slots, LoadPaySys(n, s), UNCHANGED <<operVars, threadVars, kills>>
      PROVE  UnitsReturned'
  BY <1>6, <1>s DEF operVars, threadVars
<1>7. ASSUME NEW n \in Unloadable, UnLoadPaySys(n), UNCHANGED <<operVars, threadVars, kills>>
      PROVE  UnitsReturned'
  BY <1>7, <1>s DEF operVars, threadVars
<1>8. ASSUME RemoveUnloadedModules, UNCHANGED <<operVars, threadVars, kills>>
      PROVE  UnitsReturned'
  BY <1>8, <1>s DEF operVars, threadVars
<1>9. ASSUME NEW g \in Lists, NEW r, NEW e, NEW c, ReloadOperators(g, r, e, c)
      PROVE  UnitsReturned'
  BY <1>9, <1>s DEF ReloadOperators, threadVars
<1>10. ASSUME NEW g \in Lists, NEW dir \in Dirs, NEW slots \in SetToAllKPermutations(Slots), Reboot(dir, slots, g)
       PROVE  UnitsReturned'
  <2>1. limits' = Limits /\ took' = took
    BY <1>10 DEF Reboot, threadVars
  <2>2. \A q \in DOMAIN Limits : Limits[q] + Count(took, q) >= Limits[q]
    BY <1>n, CountPositive
  <2> QED BY <2>1, <2>2 DEF UnitsReturned, Count
<1>11. CASE UNCHANGED vars
  BY <1>11, <1>s DEF vars, operVars, threadVars
<1> QED BY <1>1, <1>2, <1>3, <1>4, <1>5, <1>6, <1>7, <1>8, <1>9, <1>10, <1>11
       DEF Next, Registry, Down

\* WorkInit, before the first pay.
LEMMA InitInv == Init => ListInv /\ WorkerInv /\ RegistryInv /\ ModulesInv /\ OperatorsInv /\ UnitsReturned
<1> SUFFICES ASSUME Init PROVE ListInv /\ WorkerInv /\ RegistryInv /\ ModulesInv /\ OperatorsInv /\ UnitsReturned
  OBVIOUS
<1>1. ListInv
  <2>1. Limits \in [DOMAIN Limits -> Int] /\ NULL \notin Lists
    BY RoutingConstants
  <2> QED BY <2>1 DEF Init, ListInv, Objects
<1>2. WorkerInv
  BY DEF Init, WorkerInv, RouteInv
<1>3. RegistryInv
  <2>1. PICK dir \in Dirs, slots \in SetToAllKPermutations(Slots) :
          LET good == SelectSeq(dir, LoadFunc)
          IN /\ Len(slots) = Len(good) /\ \E i \in 1..Len(good) : good[i] = NullSo
             /\ modules_list = slots
             /\ short_name = [s \in Slots |-> IF \E i \in 1..Len(slots) : slots[i] = s
                                THEN good[CHOOSE i \in 1..Len(slots) : slots[i] = s] ELSE NullSo]
             /\ null_pay_sys = slots[CHOOSE i \in 1..Len(good) : good[i] = NullSo]
    BY DEF Init
  <2> DEFINE good == SelectSeq(dir, LoadFunc)
             c == CHOOSE i \in 1..Len(good) : good[i] = NullSo
  <2>2. c \in 1 .. Len(slots) /\ good[c] = NullSo /\ null_pay_sys = slots[c] /\ modules_list = slots
    BY <2>1
  <2>3. short_name = [s \in Slots |-> IF \E i \in 1..Len(slots) : slots[i] = s
                        THEN good[CHOOSE i \in 1..Len(slots) : slots[i] = s] ELSE NullSo]
    BY <2>1
  <2> HIDE DEF c, good
  <2>4. slots \in Seq(Slots) /\ \A i, j \in 1 .. Len(slots) : slots[i] = slots[j] => i = j
    BY Permuted
  <2>5. slots[c] \in Slots /\ slots[c] \in ToSet(slots)
    BY <2>2, <2>4 DEF ToSet
  <2>6. (CHOOSE i \in 1..Len(slots) : slots[i] = slots[c]) = c
    BY <2>2, <2>4
  <2>7. short_name[slots[c]] = NullSo
    BY <2>2, <2>3, <2>5, <2>6
  <2>8. unloaded = [s \in Slots |-> FALSE] /\ use_count = [s \in Slots |-> 0]
    BY DEF Init
  <2> QED BY <2>2, <2>3, <2>4, <2>5, <2>7, <2>8 DEF RegistryInv, Loaded
<1>4. ModulesInv
  <2>1. \A w \in Workers : given[w] = NULL /\ kept[w] = NULL /\ validator[w] = NULL
    BY DEF Init
  <2>2. ASSUME NEW s \in Loaded PROVE ModuleCount(s)
    <3>1. s \in Slots /\ s # NULL
      BY <1>3, LoadedSlots, RegistryConstants
    <3>2. Count(given, s) = 0 /\ Count(kept, s) = 0 /\ Count(validator, s) = 0
      BY <2>1, <3>1, CountPositive
    <3>3. use_count[s] = 0
      BY <3>1 DEF Init
    <3> QED BY <3>2, <3>3 DEF ModuleCount
  <2> QED BY <2>1, <2>2 DEF ModulesInv
<1>5. OperatorsInv
  <2>1. (\A w \in Workers : operat[w] = NULL) /\ \A o \in Objects : op_use[o] = 0
    BY DEF Init, Objects
  <2>2. \A o \in Objects : Count(operat, o) = 0
    <3>1. \A o \in Objects : o # NULL
      BY RoutingConstants DEF Objects
    <3> QED BY <2>1, <3>1, CountPositive
  <2> QED BY <2>1, <2>2 DEF OperatorsInv
<1>6. UnitsReturned
  <2>1. \A q \in DOMAIN Limits : Limits[q] + Count(took, q) >= Limits[q]
    BY CountPositive, RoutingConstants
  <2> QED BY <2>1 DEF UnitsReturned, Init, Count
<1> QED BY <1>1, <1>2, <1>3, <1>4, <1>5, <1>6

-----------------------------------------------------------------------------

\* The registry, the workers and the operators keep their shape, and with the default module
\* left alone there is always a module to route a pay to: null_pay_sys is loaded, is
\* "libnull.so" and is not marked for unloading.
THEOREM OperatorsTypeCorrect == ASSUME DefaultStays PROVE Spec => []TypeInv
<1>1. Init => TypeInv
  BY InitInv DEF TypeInv
<1>2. TypeInv /\ [Next]_vars => TypeInv'
  <2>1. TypeInv /\ [Next]_vars => RegistryInv'
    BY RegistryStep
  <2>2. TypeInv /\ [Next]_vars => WorkerInv'
    BY WorkerStep
  <2>3. TypeInv /\ [Next]_vars => ListInv'
    BY ListStep DEF TypeInv, WorkerInv
  <2> QED BY <2>1, <2>2, <2>3 DEF TypeInv
<1> QED BY <1>1, <1>2, PTL DEF Spec

\* Modules and operators in use are not deleted: neither RemoveUnloadedModules, which asks the
\* use counts, nor P_CMD_RELOAD_OP, which asks those of the old list, nor a reboot takes one
\* away from a thread, whatever the administrator loads, unloads (except "libnull.so"),
\* reloads and kills meanwhile.
THEOREM InUseAliveCorrect == ASSUME DefaultStays PROVE Spec => []InUseAlive
<1>1. Init => ModulesInv /\ OperatorsInv
  BY InitInv
<1>2. TypeInv /\ TypeInv' /\ ModulesInv /\ OperatorsInv /\ [Next]_vars => ModulesInv' /\ OperatorsInv'
  BY ModulesStep, OperatorsStep DEF TypeInv, WorkerInv
<1>3. ModulesInv /\ OperatorsInv => InUseAlive
  BY DEF ModulesInv, OperatorsInv, InUseAlive, Current
<1> QED BY <1>1, <1>2, <1>3, OperatorsTypeCorrect, PTL DEF Spec

\* The use count of a module is the number of its users (a pay routed to it, a thread whose
\* last module it is, a pay it validates), that of an operator the number of its pays: Use and
\* UnUse are paired on every path; after a KILL the count of a module can only be too high.
THEOREM UseCountedCorrect == ASSUME DefaultStays PROVE Spec => []UseCounted
<1>1. Init => ModulesInv /\ OperatorsInv
  BY InitInv
<1>2. TypeInv /\ TypeInv' /\ ModulesInv /\ OperatorsInv /\ [Next]_vars => ModulesInv' /\ OperatorsInv'
  BY ModulesStep, OperatorsStep DEF TypeInv, WorkerInv
<1>3. TypeInv /\ ModulesInv /\ OperatorsInv => UseCounted
  <2> SUFFICES ASSUME TypeInv, ModulesInv, OperatorsInv PROVE UseCounted
    OBVIOUS
  <2>1. DOMAIN op_use = Objects
    BY DEF TypeInv, ListInv
  <2>2. \A s \in Loaded : use_count[s] >= References(s) /\ (kills = 0 => use_count[s] = References(s))
    BY DEF ModulesInv, ModuleCount, References, Count
  <2>3. kills = 0 => \A o \in DOMAIN op_use :
          o[1] \in {operators_list, old_operators_list} =>
            op_use[o] = Cardinality({w \in Workers : operat[w] = o})
    BY <2>1 DEF OperatorsInv, Current, Count
  <2> QED BY <2>2, <2>3 DEF UseCounted
<1> QED BY <1>1, <1>2, <1>3, OperatorsTypeCorrect, PTL DEF Spec

\* Every unit that GetValidPaySys takes from a limit is held by a pay until COperator::UnUse
\* gives it back: with no pay running a limit is at least what 000_limits.cfg says.  Here the
\* administrator may unload any module.
THEOREM UnitsReturnedCorrect == Spec => []UnitsReturned
<1> DEFINE Inv == ListInv /\ RouteInv /\ UnitsReturned
<1>1. Init => Inv
  BY InitInv DEF WorkerInv
<1>2. Inv /\ [Next]_vars => Inv'
  BY ListStep, RouteStep, UnitsStep
<1> QED BY <1>1, <1>2, PTL DEF Spec
=============================================================================
