----------------------------- MODULE Operators ------------------------------
(***************************************************************************)
(* Operators and the routing of pays (operator.cpp) over the registry of   *)
(* modules, with the workers that use both (InitFreeWorker, WorkEx and     *)
(* ThreadExit of worker.cpp) and the commands that reload them (ctl.cpp).  *)
(*                                                                         *)
(* Every action is one critical section of free_workers_lock.  An operator *)
(* object is <<g, id>>, g the list it belongs to: LoadOperators makes a    *)
(* new list and the replaced one is kept as old_operators_list.            *)
(***************************************************************************)
EXTENDS PaySys

CONSTANTS
  Workers, Pays,
  Ids,          \* operator ids that have a file
  OpConf,       \* the configuration of each operator
  Lists,        \* identities of operator lists
  OperOf,       \* provider_id of a pay
  EngineOf,     \* pay_engine of a pay
  Tests,        \* pays with test # NO_TEST
  Rules,        \* 000_rules.cfg: codename -> *.so name
  Engines,      \* 000_engines.cfg: codename -> engine number
  Limits,       \* 000_limits.cfg: codename -> number, for values other than "n"
  RestMin,      \* rest_min of the codenames that have a rest_id
  Rests,        \* values of table rests
  RulesFile, EnginesFile, Connection, \* outcomes of reading them and of connecting
  Loadable, Unloadable, \* names the administrator loads and unloads
  LimitCap      \* bound: no pay is dispatched once a limit has grown past it

CheckTypes == {"none", "full", "format", "so_only", "ok", "nok"}
Codes == DOMAIN Engines

ASSUME RoutingConstants ==
  /\ Ids # {} /\ \A id \in Ids :
       /\ OpConf[id].checktype \in CheckTypes
       /\ OpConf[id].checksys \in Codes \cup {NULL}
       /\ OpConf[id].paysys \in Codes \cup {NULL}
       /\ OpConf[id].engines \in Seq(Codes)
  /\ Rules \in [DOMAIN Rules -> Names] /\ DOMAIN Rules \subseteq Codes
  /\ Limits \in [DOMAIN Limits -> Int] /\ DOMAIN Limits \subseteq Codes
  /\ DOMAIN RestMin \subseteq DOMAIN Limits /\ Rests \subseteq Int
  /\ RulesFile \cup EnginesFile \cup Connection \subseteq BOOLEAN
  /\ Tests \subseteq Pays /\ Cardinality(Lists) >= 3 /\ IsFiniteSet(Workers)
  /\ NULL \notin Lists \cup (Lists \X Ids) \cup Codes

VARIABLES
  operators_list, old_operators_list, op_use,  \* lists, and use_count of each operator
  rules_read, engines_read,                    \* rules, engines # NULL
  limits, bad_connection,
  stage, given, operat, codename, took,        \* CWorker: its pay's route
  kept, validator,                             \* locals of WorkEx
  kills, down

operVars   == <<operators_list, old_operators_list, op_use, rules_read, engines_read,
                limits, bad_connection>>
threadVars == <<stage, given, operat, codename, took, kept, validator>>
vars == <<registryVars, operVars, threadVars, kills, down>>

Busy(w) == stage[w] \in {"given", "run"}

-----------------------------------------------------------------------------
(* COperator::GetValidPaySys                                                *)

Route(s, c, t) == [paysys |-> s, code |-> c, unit |-> t]

\* The module that a codename stands for; a codename without a rule has none.
RuledPaySys(c) ==
  IF ~rules_read THEN null_pay_sys   \* no *.so file is called like a codename
  ELSE IF c \in DOMAIN Rules THEN GetPaySysBySoName(Rules[c]) ELSE NULL

\* A module that is missing or being unloaded is replaced by the default one.
OrDefault(s) == IF s = NULL \/ (s \in Slots /\ unloaded[s]) THEN GetPaySysDefault ELSE s

\* GetRest: 1 when there is nothing to ask or the question fails.
GetRest(c, asked) == IF c \in DOMAIN RestMin /\ ~bad_connection THEN asked ELSE 1

\* The limit has no unit left, or the money behind the engine has run out.
LimitHit(c, asked) ==
  \/ limits[c] - 1 <= -1
  \/ GetRest(c, asked) - (IF c \in DOMAIN RestMin THEN RestMin[c] ELSE 0) <= 0

\* Variant of EngineRoute: paysys_codename is not set.
EngineRouteAnonymous(c, asked) ==
  IF c \in DOMAIN Limits
  THEN Route(IF LimitHit(c, asked) THEN GetPaySysEngineLimit ELSE OrDefault(RuledPaySys(c)), NULL, c)
  ELSE Route(OrDefault(RuledPaySys(c)), c, NULL)

\* The engine is known: one unit of its limit is taken before it is asked.
EngineRoute(c, asked) ==
  IF c \in DOMAIN Limits
  THEN Route(IF LimitHit(c, asked) THEN GetPaySysEngineLimit ELSE OrDefault(RuledPaySys(c)), c, c)
  ELSE Route(OrDefault(RuledPaySys(c)), c, NULL)

\* paysys_1, paysys_2... are tried until one has the number of the pay's engine; the
\* last one tried stays in paysys_codename.
EngineSearch(p, list, asked) ==
  LET hits == SelectSeq(list, LAMBDA c : Engines[c] = EngineOf[p])
  IN IF hits # <<>> THEN EngineRoute(Head(hits), asked)
     ELSE Route(GetPaySysDefault, IF list = <<>> THEN NULL ELSE Last(list), NULL)

GetValidPaySys(p, conf, asked) ==
  IF p \in Tests /\ conf.checktype \in {"format", "ok", "nok"}
  THEN Route(GetPaySysDefault, NULL, NULL)
  ELSE IF p \in Tests /\ conf.checksys # NULL
  THEN Route(OrDefault(RuledPaySys(conf.checksys)),
             IF rules_read /\ conf.checksys \notin DOMAIN Rules THEN NULL ELSE conf.checksys, NULL)
  ELSE IF conf.paysys # NULL
  THEN Route(OrDefault(RuledPaySys(conf.paysys)), NULL, NULL)
  ELSE EngineSearch(p, conf.engines, asked)

\* engines is dereferenced although 000_engines.cfg could not be read.
NullEngines(p, conf) ==
  /\ ~engines_read /\ conf.paysys = NULL /\ conf.engines # <<>>
  /\ ~(p \in Tests /\ (conf.checktype \in {"format", "ok", "nok"} \/ conf.checksys # NULL))

-----------------------------------------------------------------------------
(* Workers.                                                                 *)

\* InitFreeWorker of an idle worker: SetPaySys and SetOperator.
InitFreeWorker(w, p, asked) ==
  /\ stage[w] = "idle" /\ ~down
  /\ \A c \in DOMAIN limits : limits[c] <= LimitCap
  /\ LET id == OperOf[p]
         known == id \in Ids
         r == IF known THEN GetValidPaySys(p, OpConf[id], asked)
              ELSE Route(null_pay_sys, NULL, NULL)
         o == IF known THEN <<operators_list, id>> ELSE NULL
     IN IF known /\ NullEngines(p, OpConf[id])
        THEN down' = TRUE /\ UNCHANGED <<registryVars, operVars, threadVars, kills>>
        ELSE /\ stage' = [stage EXCEPT ![w] = "given"]
             /\ given' = [given EXCEPT ![w] = r.paysys]
             /\ operat' = [operat EXCEPT ![w] = o]
             /\ codename' = [codename EXCEPT ![w] = r.code]
             /\ took' = [took EXCEPT ![w] = r.unit]
             /\ use_count' = Use(use_count, r.paysys)
             /\ op_use' = Use(op_use, o)
             /\ limits' = IF r.unit = NULL THEN limits ELSE [limits EXCEPT ![r.unit] = @ - 1]
             /\ UNCHANGED <<modules_list, short_name, unloaded, null_pay_sys,
                            need_cleanup_modules, operators_list, old_operators_list,
                            rules_read, engines_read, bad_connection, kept, validator,
                            kills, down>>

\* Variant of Start: a thread that changes module does not count itself as a user.
StartUncounted(w) ==
  /\ stage[w] = "given" /\ ~down
  /\ stage' = [stage EXCEPT ![w] = "run"]
  /\ kept' = [kept EXCEPT ![w] = given[w]]
  /\ validator' = [validator EXCEPT ![w] = GetPaySysBySoName(ValidatorSo)]
  /\ need_cleanup_modules' = (need_cleanup_modules \/ (kept[w] # NULL /\ kept[w] # given[w]))
  /\ use_count' = Use(IF kept[w] = given[w] THEN use_count ELSE UnUse(use_count, kept[w]),
                      GetPaySysBySoName(ValidatorSo))
  /\ UNCHANGED <<modules_list, short_name, unloaded, null_pay_sys, operVars, given, operat,
                 codename, took, kills, down>>

\* WorkEx up to sem_post: a thread keeps counting as a user of its last module until
\* it is given another one; the validator is used for the length of the pay.
Start(w) ==
  /\ stage[w] = "given" /\ ~down
  /\ stage' = [stage EXCEPT ![w] = "run"]
  /\ kept' = [kept EXCEPT ![w] = given[w]]
  /\ validator' = [validator EXCEPT ![w] = GetPaySysBySoName(ValidatorSo)]
  /\ need_cleanup_modules' = (need_cleanup_modules \/ (kept[w] # NULL /\ kept[w] # given[w]))
  /\ use_count' = Use(IF kept[w] = given[w] THEN use_count
                      ELSE Use(UnUse(use_count, kept[w]), given[w]),
                      GetPaySysBySoName(ValidatorSo))
  /\ UNCHANGED <<modules_list, short_name, unloaded, null_pay_sys, operVars, given, operat,
                 codename, took, kills, down>>

\* COperator::UnUse gives a unit of the limit named by paysys_codename back, whether
\* or not one has been taken.
GiveBack(c) ==
  IF c \in DOMAIN limits THEN [limits EXCEPT ![c] = @ + 1] ELSE limits

\* WorkEx after DBSetState.
Finish(w) ==
  /\ stage[w] = "run" /\ ~down
  /\ stage' = [stage EXCEPT ![w] = "idle"]
  /\ use_count' = UnUse(UnUse(use_count, validator[w]), given[w])
  /\ need_cleanup_modules' = TRUE
  /\ op_use' = UnUse(op_use, operat[w])
  /\ limits' = IF operat[w] = NULL THEN limits ELSE GiveBack(codename[w])
  /\ given' = [given EXCEPT ![w] = NULL] /\ operat' = [operat EXCEPT ![w] = NULL]
  /\ codename' = [codename EXCEPT ![w] = NULL] /\ took' = [took EXCEPT ![w] = NULL]
  /\ validator' = [validator EXCEPT ![w] = NULL]
  /\ UNCHANGED <<modules_list, short_name, unloaded, null_pay_sys, operators_list,
                 old_operators_list, rules_read, engines_read, bad_connection, kept, kills, down>>

\* ThreadExit of an idle thread that ManagerEx retires.
ThreadExit(w) ==
  /\ stage[w] = "idle" /\ kept[w] # NULL /\ ~down
  /\ kept' = [kept EXCEPT ![w] = NULL]
  /\ use_count' = UnUse(use_count, kept[w])
  /\ need_cleanup_modules' = TRUE
  /\ UNCHANGED <<modules_list, short_name, unloaded, null_pay_sys, operVars, stage, given,
                 operat, codename, took, validator, kills, down>>

\* P_CMD_KILL: the thread is cancelled and nothing is given back; the CWorker is
\* replaced by a new one when a pay needs it.
Kill(w) ==
  /\ Busy(w) /\ ~down /\ kills = 0
  /\ kills' = 1
  /\ stage' = [stage EXCEPT ![w] = "idle"] /\ kept' = [kept EXCEPT ![w] = NULL]
  /\ given' = [given EXCEPT ![w] = NULL] /\ operat' = [operat EXCEPT ![w] = NULL]
  /\ codename' = [codename EXCEPT ![w] = NULL] /\ took' = [took EXCEPT ![w] = NULL]
  /\ validator' = [validator EXCEPT ![w] = NULL]
  /\ UNCHANGED <<registryVars, operVars, down>>

-----------------------------------------------------------------------------
(* Commands and the manager.                                                *)

Registry ==
  /\ ~down
  /\ \/ \E n \in Loadable, s \in Slots : LoadPaySys(n, s)
     \/ \E n \in Unloadable : UnLoadPaySys(n)
     \/ RemoveUnloadedModules
  /\ UNCHANGED <<operVars, threadVars, kills, down>>

\* LoadOperators: the connection and both files are read again; bad_connection is set
\* by a failure and reset by nothing.
LoadOperators(rules_ok, engines_ok, connected) ==
  /\ bad_connection' = (bad_connection \/ ~connected)
  /\ rules_read' = rules_ok /\ engines_read' = engines_ok

OldOperatorsUsed ==
  old_operators_list # NULL /\ \E id \in Ids : op_use[<<old_operators_list, id>>] > 0

\* P_CMD_RELOAD_OP.  The files have been replaced even if the reload is refused.
ReloadOperators(g, rules_ok, engines_ok, connected) ==
  /\ ~down
  /\ LoadOperators(rules_ok, engines_ok, connected)
  /\ IF OldOperatorsUsed
     THEN UNCHANGED <<operators_list, old_operators_list, op_use>>
     ELSE /\ g \notin {operators_list, old_operators_list}
          /\ old_operators_list' = operators_list
          /\ operators_list' = g
          /\ op_use' = [o \in Lists \X Ids |-> IF o[1] = operators_list THEN op_use[o] ELSE 0]
  /\ UNCHANGED <<registryVars, limits, threadVars, kills, down>>

\* A reboot: the drain has emptied the pool, CleanUp deletes modules and operators
\* (old_operators_list stays), WorkInit loads them again; limits are read afresh.
Reboot(dir, slots, g) ==
  /\ ~down /\ \A w \in Workers : ~Busy(w) /\ kept[w] = NULL
  /\ LoadModules(dir, slots)
  /\ g \notin {operators_list, old_operators_list}
  /\ operators_list' = g
  /\ op_use' = [o \in Lists \X Ids |-> IF o[1] = old_operators_list THEN op_use[o] ELSE 0]
  /\ limits' = Limits
  /\ UNCHANGED <<need_cleanup_modules, old_operators_list, rules_read, engines_read,
                 bad_connection, threadVars, kills, down>>

Init ==
  /\ \E dir \in Dirs, slots \in SetToAllKPermutations(Slots) :
       LET good == SelectSeq(dir, LoadFunc)
       IN /\ Len(slots) = Len(good) /\ \E i \in 1..Len(good) : good[i] = NullSo
          /\ modules_list = slots
          /\ short_name = [s \in Slots |-> IF \E i \in 1..Len(slots) : slots[i] = s
                             THEN good[CHOOSE i \in 1..Len(slots) : slots[i] = s] ELSE NullSo]
          /\ null_pay_sys = slots[CHOOSE i \in 1..Len(good) : good[i] = NullSo]
  /\ unloaded = [s \in Slots |-> FALSE] /\ use_count = [s \in Slots |-> 0]
  /\ need_cleanup_modules = FALSE
  /\ operators_list \in Lists /\ old_operators_list = NULL
  /\ op_use = [o \in Lists \X Ids |-> 0]
  /\ rules_read = TRUE /\ engines_read = TRUE
  /\ limits = Limits /\ bad_connection = FALSE
  /\ stage = [w \in Workers |-> "idle"]
  /\ given = [w \in Workers |-> NULL] /\ operat = [w \in Workers |-> NULL]
  /\ codename = [w \in Workers |-> NULL] /\ took = [w \in Workers |-> NULL]
  /\ kept = [w \in Workers |-> NULL] /\ validator = [w \in Workers |-> NULL]
  /\ kills = 0 /\ down = FALSE

Down == down /\ UNCHANGED vars

Next ==
  \/ \E w \in Workers, p \in Pays, asked \in Rests \cup {1} : InitFreeWorker(w, p, asked)
  \/ \E w \in Workers : Start(w) \/ Finish(w) \/ ThreadExit(w) \/ Kill(w)
  \/ Registry
  \/ \E g \in Lists, r \in RulesFile, e \in EnginesFile, c \in Connection :
       ReloadOperators(g, r, e, c)
  \/ \E g \in Lists, dir \in Dirs, slots \in SetToAllKPermutations(Slots) : Reboot(dir, slots, g)
  \/ Down

Spec == Init /\ [][Next]_vars

-----------------------------------------------------------------------------
(* Properties.                                                              *)

\* A module that a pay was routed to, that a thread still has as its last module or
\* that validates a pay has not been deleted, and neither has the operator of a pay:
\* WorkEx uses all four without free_workers_lock.
InUseAlive ==
  \A w \in Workers :
    /\ {given[w], kept[w], validator[w]} \ {NULL} \subseteq Loaded
    /\ operat[w] # NULL => operat[w][1] \in {operators_list, old_operators_list}

References(s) ==
    Cardinality({w \in Workers : given[w] = s}) + Cardinality({w \in Workers : kept[w] = s})
  + Cardinality({w \in Workers : validator[w] = s})

\* The use counts are what the threads really hold, so that an unloaded module goes,
\* and a reload of the operators is allowed, when the last user is gone; only a KILL
\* leaves counts behind.
UseCounted ==
  /\ \A s \in Loaded : use_count[s] >= References(s) /\ (kills = 0 => use_count[s] = References(s))
  /\ kills = 0 => \A o \in DOMAIN op_use :
       o[1] \in {operators_list, old_operators_list} =>
         op_use[o] = Cardinality({w \in Workers : operat[w] = o})

\* Every unit of an engine's limit that GetValidPaySys takes comes back through
\* COperator::UnUse: pays cannot wear a limit down to "_limit.so" for good.
UnitsReturned ==
  kills = 0 => \A c \in DOMAIN Limits :
    limits[c] + Cardinality({w \in Workers : took[w] = c}) >= Limits[c]
=============================================================================
