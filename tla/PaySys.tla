------------------------------- MODULE PaySys -------------------------------
(***************************************************************************)
(* The registry of pay modules (paysys.cpp): the list of loaded CPaySys    *)
(* objects, looked up by the short name of their *.so file, with the use   *)
(* counts that decide when a module marked "unloaded" may be deleted.      *)
(*                                                                         *)
(* A CPaySys object is a heap slot; it exists while it is in modules_list. *)
(* Every operation runs under free_workers_lock, so each is atomic.        *)
(***************************************************************************)
EXTENDS Integers, Sequences, FiniteSets, SequencesExt

CONSTANTS
  Slots,        \* heap slots of CPaySys objects
  Names,        \* short names of *.so files
  NullSo, LimitSo, ValidatorSo, \* "libnull.so", "_limit.so", "validator.so"
  Exports,      \* the symbols each file exports; not a loadable file: {}
  Dirs,         \* what the modules directory may hold: a set of sequences of names
  NULL

ASSUME RegistryConstants ==
  /\ {NullSo, LimitSo, ValidatorSo} \subseteq Names
  /\ Exports \in [Names -> SUBSET STRING]
  /\ \A d \in Dirs : \A i \in 1..Len(d) : d[i] \in Names
  /\ NULL \notin Slots /\ IsFiniteSet(Slots)

VARIABLES
  modules_list, short_name, unloaded, use_count,
  null_pay_sys, need_cleanup_modules

registryVars == <<modules_list, short_name, unloaded, use_count, null_pay_sys,
                  need_cleanup_modules>>

Loaded == ToSet(modules_list)

\* dlsym of the functions a module must have; the others are optional.
LoadFunc(n) ==
  /\ {"SendData", "CleanUp", "Load", "UnLoad"} \subseteq Exports[n]
  /\ Exports[n] \cap {"PayInit", "PayInitExt"} # {}

\* check_support
CheckSupport(s) == "PayCheckSupport" \in Exports[short_name[s]]

Use(count, s) == IF s = NULL THEN count ELSE [count EXCEPT ![s] = @ + 1]

UnUse(count, s) ==
  IF s = NULL THEN count ELSE [count EXCEPT ![s] = IF @ > 0 THEN @ - 1 ELSE 0]

\* The first module of that name that is not being unloaded, else the default.
GetPaySysBySoName(n) ==
  LET i == SelectInSeq(modules_list, LAMBDA s : short_name[s] = n /\ ~unloaded[s])
  IN IF i = 0 THEN null_pay_sys ELSE modules_list[i]

GetPaySysDefault == null_pay_sys

GetPaySysEngineLimit == GetPaySysBySoName(LimitSo)

\* LoadModules and the choice of the default module: every loadable file of the
\* directory becomes a CPaySys; if "libnull.so" is not among them the previous
\* null_pay_sys stays.
LoadModules(dir, slots) ==
  LET good == SelectSeq(dir, LoadFunc)
      null == {i \in 1..Len(good) : good[i] = NullSo}
  IN /\ Len(slots) = Len(good)
     /\ modules_list' = slots
     /\ short_name' = [s \in Slots |-> IF \E i \in 1..Len(slots) : slots[i] = s
                         THEN good[CHOOSE i \in 1..Len(slots) : slots[i] = s] ELSE NullSo]
     /\ unloaded' = [s \in Slots |-> FALSE]
     /\ use_count' = [s \in Slots |-> 0]
     /\ null_pay_sys' = IF null = {} THEN null_pay_sys ELSE slots[CHOOSE i \in null : TRUE]

\* P_CMD_LOAD: LoadPaySys of a file; a name already loaded, or a bad file,
\* changes nothing.
LoadPaySys(n, s) ==
  /\ s \notin Loaded
  /\ \A t \in Loaded : short_name[t] = n => unloaded[t]
  /\ LoadFunc(n)
  /\ modules_list' = Append(modules_list, s)
  /\ short_name' = [short_name EXCEPT ![s] = n]
  /\ unloaded' = [unloaded EXCEPT ![s] = FALSE]
  /\ use_count' = [use_count EXCEPT ![s] = 0]
  /\ UNCHANGED <<null_pay_sys, need_cleanup_modules>>

\* P_CMD_UNLOAD: the first module of that name, unloaded already or not, is marked.
UnLoadPaySys(n) ==
  LET i == SelectInSeq(modules_list, LAMBDA s : short_name[s] = n)
  IN /\ i # 0
     /\ unloaded' = [unloaded EXCEPT ![modules_list[i]] = TRUE]
     /\ need_cleanup_modules' = TRUE
     /\ UNCHANGED <<modules_list, short_name, use_count, null_pay_sys>>

\* Variant of Removable: the use count is not asked.
RemovableInUse(s) == unloaded[s]

\* Use()==1: nobody uses the module.
Removable(s) == unloaded[s] /\ use_count[s] = 0

\* How far the walk of RemoveUnloadedModules gets: i grows while GetLen shrinks with
\* each removal, so the last elements are not looked at.
Visited ==
  LET n == Len(modules_list)
      removed(k) == Cardinality({i \in 1..k : Removable(modules_list[i])})
  IN CHOOSE k \in 0..n : /\ k + removed(k) >= n
                         /\ \A j \in 0..(k - 1) : j + removed(j) < n

\* The elements of list at the positions in I, in their order.
AtPositions(list, I) ==
  [j \in 1..Cardinality(I) |-> list[CHOOSE i \in I : Cardinality({h \in I : h <= i}) = j]]

\* ManagerEx: RemoveUnloadedModules, then need_cleanup_modules is cleared whatever
\* is left.
RemoveUnloadedModules ==
  /\ need_cleanup_modules
  /\ modules_list' = AtPositions(modules_list,
                       {i \in DOMAIN modules_list : i > Visited \/ ~Removable(modules_list[i])})
  /\ need_cleanup_modules' = FALSE
  /\ LET gone == Loaded \ ToSet(modules_list')
     IN /\ short_name' = [s \in Slots |-> IF s \in gone THEN NullSo ELSE short_name[s]]
        /\ unloaded' = [s \in Slots |-> s \notin gone /\ unloaded[s]]
        /\ use_count' = [s \in Slots |-> IF s \in gone THEN 0 ELSE use_count[s]]
  /\ UNCHANGED null_pay_sys
=============================================================================
