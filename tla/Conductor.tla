------------------------------ MODULE Conductor ------------------------------
(***************************************************************************)
(* The conductor: the process that runs holochain instances from a         *)
(* configuration file and lets admin clients change that configuration     *)
(* while it runs. Its state is spread over things that must agree:         *)
(*   - the configuration in memory and the one in the file;                *)
(*   - the map of instance objects, each with its network and action loop, *)
(*     and the conductor api it was given, which holds its bridge callees; *)
(*   - the interface threads, whose handlers hold the instance objects     *)
(*     they serve, and the signal multiplexer threads, each of which       *)
(*     holds a copy of the configuration;                                  *)
(*   - the static servers of the UI interfaces.                            *)
(* An admin function runs under the CONDUCTOR lock and is one step here.   *)
(* It may fail half way: with an error or with a panic, which unwinds,     *)
(* frees the lock (parking_lot does not poison) and leaves what was done.  *)
(* DPKI, key storage and the instances' own storage are left out, with the *)
(* parts of check_consistency about them; that a DNA file can always be    *)
(* loaded is assumed.                                                      *)
(***************************************************************************)
EXTENDS Integers, Sequences, FiniteSets, Functions

CONSTANTS
  Dnas, Agents, Instances, Interfaces, Handles, Bundles, UiInterfaces,
  Defines,        \* DNA -> bridge handles its zomes define
  Requires,       \* DNA -> handles among them of presence Required
  Accepts,        \* <<handle, DNA>>: this DNA satisfies the handle's reference
  BootConfig,     \* the configuration file the conductor is first started with
  MaxObjects,     \* bound: instances created since the process was started
  MaxOps          \* bound: admin functions called

ASSUME DnaAssumption ==
  /\ Defines \in [Dnas -> SUBSET Handles]
  /\ Requires \in [Dnas -> SUBSET Handles]
  /\ Accepts \subseteq Handles \X Dnas

ASSUME BoundAssumption == {MaxObjects, MaxOps} \subseteq Nat

VARIABLES
  up,         \* whether the process runs
  config,     \* Conductor::config
  saved,      \* conductor-config.toml
  instances,  \* Conductor::instances: id -> instance object
  object,     \* the instance objects, in the order of their creation
  threads,    \* Conductor::interface_threads: id -> what its handler serves
  multiplexers,  \* the signal multiplexer threads that have not ended
  servers,    \* Conductor::static_servers: id -> state of the server
  failed,     \* history: what has failed half way since the process was started
  ops         \* counter for the bound

objects == <<instances, object>>
surface == <<threads, multiplexers>>
vars == <<up, config, saved, instances, object, threads, multiplexers, servers,
          failed, ops>>

-----------------------------------------------------------------------------
(* Configurations.                                                         *)

InstanceConfig == [id : Instances, dna : Dnas, agent : Agents]
Bridge == [caller : Instances, callee : Instances, handle : Handles]
Connection == {S \in SUBSET Interfaces : Cardinality(S) =< 1}  \* dna_interface
UiInterface == [id : UiInterfaces, bundle : Bundles, dna : Connection]

\* The interfaces by id, with the instances each serves.
InterfaceMap == UNION {[S -> SUBSET Instances] : S \in SUBSET Interfaces}

\* Configuration
Config ==
  [dnas : SUBSET Dnas, agents : SUBSET Agents, instances : Seq(InstanceConfig),
   interfaces : InterfaceMap,
   bridges : Seq(Bridge), bundles : SUBSET Bundles, uis : SUBSET UiInterface]

\* conductor-config.toml: a whole configuration, or empty, which load_configuration
\* refuses for want of a list of agents.
File(c) == [whole |-> TRUE, config |-> c]

Truncated ==
  [whole |-> FALSE,
   config |-> [dnas |-> {}, agents |-> {}, instances |-> << >>,
               interfaces |-> << >>, bridges |-> << >>, bundles |-> {}, uis |-> {}]]

InstanceIds(c) == {i.id : i \in Range(c.instances)}
DnaOf(c, x) == (CHOOSE i \in Range(c.instances) : i.id = x).dna

\* The index of the first bridge with this handle, whoever its caller is.
FirstBridge(c, h) ==
  LET found == {i \in DOMAIN c.bridges : c.bridges[i].handle = h}
  IN  CHOOSE i \in found : \A j \in found : i =< j

HasHandle(c, h) == \E b \in Range(c.bridges) : b.handle = h

\* check_bridge_requirements
BridgeFits(c, b) ==
  /\ {b.caller, b.callee} \subseteq InstanceIds(c)
  /\ b.handle \in Defines[DnaOf(c, b.caller)]
  /\ <<b.handle, DnaOf(c, b.callee)>> \in Accepts

\* toposort of instance_ids_sorted_by_bridge_dependencies finds no cycle: there
\* is no set of instances each of which calls another of the set.
Acyclic(c) ==
  ~ \E S \in (SUBSET InstanceIds(c)) \ {{}} :
      \A x \in S : \E b \in Range(c.bridges) : b.caller = x /\ b.callee \in S

\* check_consistency
Consistent(c) ==
  /\ \A i, j \in DOMAIN c.instances :
       c.instances[i].id = c.instances[j].id => i = j
  /\ \A i \in Range(c.instances) :
       /\ i.agent \in c.agents
       /\ i.dna \in c.dnas
       /\ \A h \in Requires[i.dna] : HasHandle(c, h)
  /\ \A i \in DOMAIN c.interfaces : c.interfaces[i] \subseteq InstanceIds(c)
  /\ \A b \in Range(c.bridges) : BridgeFits(c, b)
  /\ \A w \in c.uis : w.bundle \in c.bundles /\ w.dna \subseteq DOMAIN c.interfaces
  /\ Acyclic(c)

\* boot_from_config refuses any other file.
ASSUME BootAssumption == BootConfig \in Config /\ Consistent(BootConfig)

\* Iterator::filter of a Vec: the elements of s that are in S, in their order.
Only(s, S) ==
  LET kept == {n \in DOMAIN s : s[n] \in S}
      rank == [n \in kept |-> Cardinality({m \in kept : m =< n})]
  IN  [j \in 1..Cardinality(kept) |-> s[CHOOSE n \in kept : rank[n] = j]]

\* Map::insert: the value under the key i is v.
Insert(f, i, v) == [j \in DOMAIN f \cup {i} |-> IF j = i THEN v ELSE f[j]]

\* save_remove_instance for each of the given ids: mentions in interfaces go,
\* mentions in bridges stay.
Without(c, ids) ==
  [c EXCEPT !.instances = Only(@, {i \in Range(@) : i.id \notin ids}),
            !.interfaces = [i \in DOMAIN @ |-> @[i] \ ids]]

-----------------------------------------------------------------------------
(* Instance objects.                                                       *)

None == 0

\* api is the conductor api the instance was given; cut is a history of it: the
\* handles of which a bridge was removed since.
ObjectState ==
  [dna : Dnas, alive : BOOLEAN, active : BOOLEAN, network : BOOLEAN,
   api : [Handles -> Nat], cut : SUBSET Handles]

\* build_conductor_api: the callees of the bridges of x, by handle. The last of
\* several bridges with the same handle wins. None if a callee is missing from
\* the map, where the code expects it to be.
Callees(c, map, x) ==
  [h \in Handles |->
     LET mine == {i \in DOMAIN c.bridges :
                    c.bridges[i].caller = x /\ c.bridges[i].handle = h}
     IN  IF mine = {} THEN None
         ELSE LET last == CHOOSE i \in mine : \A j \in mine : j =< i
              IN  map[c.bridges[last].callee]]

CalleesPresent(c, map, x) ==
  \A b \in Range(c.bridges) : b.caller = x => b.callee \in DOMAIN map

\* make_interface_handler: an instance that was not created is skipped.
Serves(c, map, i) == [x \in c.interfaces[i] \cap DOMAIN map |-> map[x]]

\* Holochain::stop of the given objects: the network is shut down and the
\* action loop stopped. An object that is not active is left alone.
Stopped(obj, os) ==
  [o \in DOMAIN obj |-> IF o \in os /\ obj[o].active
                         THEN [obj[o] EXCEPT !.active = FALSE, !.network = FALSE]
                         ELSE obj[o]]

\* Holochain::kill: they are stopped, and what they consist of is dropped.
Killed(obj, os) ==
  [o \in DOMAIN obj |-> IF o \in os
                         THEN [Stopped(obj, os)[o] EXCEPT !.alive = FALSE]
                         ELSE obj[o]]

ObjectsOf(ids) == {instances[x] : x \in ids \cap DOMAIN instances}

-----------------------------------------------------------------------------
(* How admin functions end.                                                *)

Call ==
  /\ up
  /\ ops < MaxOps
  /\ ops' = ops + 1
  /\ UNCHANGED up

\* An error, or a panic, before anything was changed.
Refuse == UNCHANGED <<config, saved, objects, surface, servers, failed>>

\* check_consistency passes and the new configuration replaces the old one.
Accept(new) == Consistent(new) /\ config' = new

\* save_config fails after the configuration in memory was replaced: the file
\* could not be created, or was truncated and not written again. A crash inside
\* save_config leaves the same two files.
SaveFailsOver(new, old) ==
  /\ Accept(new)
  /\ saved' \in {old, Truncated}
  /\ failed' = failed \cup {"save"}
  /\ UNCHANGED <<objects, surface>>

SaveFails(new) == SaveFailsOver(new, saved)

Save(new) == Accept(new) /\ saved' = File(new)

\* The two ways in which a change ends without its effects on the running parts.
Change(new) ==
  \/ ~Consistent(new) /\ Refuse
  \/ SaveFails(new) /\ UNCHANGED servers

\* The copy of the interfaces a signal multiplexer works with, and whether it has
\* been sent the kill message.
Multiplexer == [interfaces : InterfaceMap, killed : BOOLEAN]

\* Mutant of Multiplex: the threads that run are not told to end.
MultiplexBeside(c) ==
  multiplexers' = multiplexers \cup {[interfaces |-> c.interfaces, killed |-> FALSE]}

\* start_signal_multiplexer: the running thread is sent a kill message and not
\* waited for, and a thread with a copy of the configuration of now is started.
Multiplex(c) ==
  multiplexers' = {[m EXCEPT !.killed = TRUE] : m \in multiplexers}
                    \cup {[interfaces |-> c.interfaces, killed |-> FALSE]}

\* A multiplexer looks for the kill message at the end of a pass over the
\* instances' signal channels, which all of them share: until then a killed one
\* takes signals too, and sends them where its own copy says.
MultiplexerEnds ==
  /\ up
  /\ \E m \in multiplexers : m.killed /\ multiplexers' = multiplexers \ {m}
  /\ UNCHANGED <<up, config, saved, objects, threads, servers, failed, ops>>

\* A function that only changes the configuration.
ChangeOnly(new) ==
  \/ Change(new)
  \/ Save(new) /\ UNCHANGED <<objects, surface, servers, failed>>

-----------------------------------------------------------------------------
(* DNAs and agents.                                                        *)

\* Refused when the file is unreadable or not the expected one.
InstallDna(d) ==
  /\ Call
  /\ \/ Refuse
     \/ d \notin config.dnas /\ ChangeOnly([config EXCEPT !.dnas = @ \cup {d}])

\* Mutant of Retire: the instances go on running.
RetireRunning(new, ids) == ChangeOnly(new)

\* What uninstall_dna and remove_agent do with the instances they take out of
\* the configuration: stop them. The stopped objects stay in the map, and the
\* interfaces and the multiplexer are not restarted.
Retire(new, ids) ==
  \/ Change(new)
  \/ /\ Save(new)
     /\ object' = Stopped(object, ObjectsOf(ids))
     /\ UNCHANGED <<instances, surface, servers, failed>>

\* Mutant of UninstallDna: only the DNA is taken out, and nothing is checked.
UninstallDnaOnly(d) ==
  /\ Call
  /\ LET ids == {i.id : i \in {j \in Range(config.instances) : j.dna = d}}
     IN  /\ config' = [config EXCEPT !.dnas = @ \ {d}]
         /\ saved' = File(config')
         /\ object' = Stopped(object, ObjectsOf(ids))
         /\ UNCHANGED <<instances, surface, servers, failed>>

UninstallDna(d) ==
  /\ Call
  /\ LET ids == {i.id : i \in {j \in Range(config.instances) : j.dna = d}}
     IN  Retire(Without([config EXCEPT !.dnas = @ \ {d}], ids), ids)

\* add_agent and add_test_agent. Refused when no keystore could be made.
AddAgent(g) ==
  /\ Call
  /\ \/ Refuse
     \/ g \notin config.agents /\ ChangeOnly([config EXCEPT !.agents = @ \cup {g}])

RemoveAgent(g) ==
  /\ Call
  /\ LET ids == {i.id : i \in {j \in Range(config.instances) : j.agent = g}}
     IN  \/ g \notin config.agents /\ Refuse
         \/ /\ g \in config.agents
            /\ Retire(Without([config EXCEPT !.agents = @ \ {g}], ids), ids)

-----------------------------------------------------------------------------
(* Instances.                                                              *)

\* get_p2p_config asks every instance in the map for the endpoint of its
\* network and panics over one that has been stopped.
NetworksUp == \A x \in DOMAIN instances : object[instances[x]].network

\* instantiate_from_config, and the new object put in the map.
Instantiate(c, x, d) ==
  /\ Len(object) < MaxObjects
  /\ NetworksUp
  /\ CalleesPresent(c, instances, x)
  /\ instances' = Insert(instances, x, Len(object) + 1)
  /\ object' = Append(object,
       [dna |-> d, alive |-> TRUE, active |-> FALSE, network |-> TRUE,
        api |-> Callees(c, instances, x), cut |-> {}])

\* The configuration is replaced, the instance created and only then the
\* configuration saved. The creation may fail or panic (over a stopped network
\* it does), before or after it saved the configuration for its own reasons: a
\* test agent's address, a DNA's hash; and that save may be what fails.
AddInstance(x, d, g) ==
  /\ Call
  /\ LET new == [config EXCEPT !.instances =
                   Append(@, [id |-> x, dna |-> d, agent |-> g])]
     IN  \/ Change(new)
         \/ /\ Accept(new)
            /\ saved' \in {saved, File(new)}
            /\ failed' = failed \cup {"instantiate"}
            /\ UNCHANGED <<objects, surface, servers>>
         \/ /\ Accept(new)
            /\ Instantiate(new, x, d)
            /\ saved' \in {saved, Truncated}
            /\ failed' = failed \cup {"save"}
            /\ UNCHANGED <<surface, servers>>
         \/ /\ Save(new)
            /\ Instantiate(new, x, d)
            /\ Multiplex(new)
            /\ UNCHANGED <<threads, servers, failed>>

\* Mutant of RemoveInstance: the killed object stays in the map.
RemoveInstanceKept(x) ==
  /\ Call
  /\ LET new == Without(config, {x})
     IN  \/ Change(new)
         \/ /\ Save(new)
            /\ object' = Killed(object, ObjectsOf({x}))
            /\ Multiplex(new)
            /\ UNCHANGED <<instances, threads, servers, failed>>

\* Removing an instance that is not configured succeeds, and clears away the
\* object that uninstall_dna or remove_agent left.
RemoveInstance(x) ==
  /\ Call
  /\ LET new == Without(config, {x})
     IN  \/ Change(new)
         \/ /\ Save(new)
            /\ instances' = Restrict(instances, DOMAIN instances \ {x})
            /\ object' = Killed(object, ObjectsOf({x}))
            /\ Multiplex(new)
            /\ UNCHANGED <<threads, servers, failed>>

\* The required bridges of x are looked up by handle; the callee found must be
\* active. If it is x itself the lock of x is already held by this function.
CanStart(c, act, x, d) ==
  \A h \in Requires[d] :
    /\ HasHandle(c, h)
    /\ LET callee == c.bridges[FirstBridge(c, h)].callee
       IN  callee # x /\ callee \in act

Active == {x \in DOMAIN instances : object[instances[x]].active}

\* An instance that was stopped is made active again without a network or an
\* action loop.
StartInstance(x) ==
  /\ Call
  /\ IF x \in DOMAIN instances \ Active
        /\ CanStart(config, Active, x, object[instances[x]].dna)
     THEN /\ object' = [object EXCEPT ![instances[x]].active = TRUE]
          /\ UNCHANGED <<config, saved, instances, surface, servers, failed>>
     ELSE Refuse

StopInstance(x) ==
  /\ Call
  /\ IF x \in Active
     THEN /\ object' = Stopped(object, {instances[x]})
          /\ UNCHANGED <<config, saved, instances, surface, servers, failed>>
     ELSE Refuse

-----------------------------------------------------------------------------
(* Interfaces.                                                             *)

\* start_interface and the restart of the multiplexer. A running thread of that
\* id is an error, a port that cannot be bound a panic. before is the map of
\* threads when it is called.
StartInterface(c, before, i) ==
  \/ /\ i \notin DOMAIN before
     /\ threads' = Insert(before, i, Serves(c, instances, i))
     /\ Multiplex(c)
     /\ UNCHANGED failed
  \/ /\ i \notin DOMAIN before
     /\ threads' = before
     /\ failed' = failed \cup {"bind"}
     /\ UNCHANGED multiplexers
  \/ /\ i \in DOMAIN before
     /\ threads' = before
     /\ UNCHANGED <<multiplexers, failed>>

AddInterface(i) ==
  /\ Call
  /\ LET new == [config EXCEPT !.interfaces = Insert(@, i, {})]
     IN  \/ i \in DOMAIN config.interfaces /\ Refuse
         \/ i \notin DOMAIN config.interfaces /\ Change(new)
         \/ /\ i \notin DOMAIN config.interfaces
            /\ Save(new)
            /\ StartInterface(new, threads, i)
            /\ UNCHANGED <<objects, servers>>

RemoveInterface(i) ==
  /\ Call
  /\ LET new == [config EXCEPT !.interfaces = Restrict(@, DOMAIN @ \ {i})]
     IN  \/ i \notin DOMAIN config.interfaces /\ Refuse
         \/ i \in DOMAIN config.interfaces /\ Change(new)
         \/ /\ i \in DOMAIN config.interfaces
            /\ Save(new)
            /\ threads' = Restrict(threads, DOMAIN threads \ {i})
            /\ Multiplex(new)
            /\ UNCHANGED <<objects, servers, failed>>

\* Mutant of Reserve: the interface is not stopped first.
ReserveRunning(new, i) ==
  \/ Change(new)
  \/ /\ Save(new)
     /\ StartInterface(new, threads, i)
     /\ UNCHANGED <<objects, servers>>

\* The interface is stopped and started again with a new handler.
Reserve(new, i) ==
  \/ Change(new)
  \/ /\ Save(new)
     /\ StartInterface(new, Restrict(threads, DOMAIN threads \ {i}), i)
     /\ UNCHANGED <<objects, servers>>

AddInstanceToInterface(i, x) ==
  /\ Call
  /\ IF i \in DOMAIN config.interfaces /\ x \notin config.interfaces[i]
     THEN Reserve([config EXCEPT !.interfaces[i] = @ \cup {x}], i)
     ELSE Refuse

RemoveInstanceFromInterface(i, x) ==
  /\ Call
  /\ IF i \in DOMAIN config.interfaces /\ x \in config.interfaces[i]
     THEN Reserve([config EXCEPT !.interfaces[i] = @ \ {x}], i)
     ELSE Refuse

-----------------------------------------------------------------------------
(* Bridges.                                                                *)

HasBridge(x, y) ==
  \E b \in Range(config.bridges) : b.caller = x /\ b.callee = y

\* Mutant of AddBridge: the caller keeps the conductor api it has.
AddBridgeOnly(b) ==
  /\ Call
  /\ IF HasBridge(b.caller, b.callee)
     THEN Refuse
     ELSE ChangeOnly([config EXCEPT !.bridges = Append(@, b)])

\* The caller gets a new conductor api after the save; if the callee or the
\* caller was never created that panics or fails.
AddBridge(b) ==
  /\ Call
  /\ LET new == [config EXCEPT !.bridges = Append(@, b)]
         possible == /\ CalleesPresent(new, instances, b.caller)
                     /\ b.caller \in DOMAIN instances
     IN  \/ HasBridge(b.caller, b.callee) /\ Refuse
         \/ ~HasBridge(b.caller, b.callee) /\ Change(new)
         \/ /\ ~HasBridge(b.caller, b.callee)
            /\ Save(new)
            /\ object' = IF possible
                         THEN [object EXCEPT ![instances[b.caller]].api =
                                 Callees(new, instances, b.caller),
                               ![instances[b.caller]].cut = {}]
                         ELSE object
            /\ failed' = IF possible THEN failed ELSE failed \cup {"api"}
            /\ UNCHANGED <<instances, surface, servers>>

\* The objects after the bridges of the caller x with these handles were removed:
\* its conductor api is not built anew and keeps what it has.
Cut(obj, x, hs) ==
  [o \in DOMAIN obj |-> IF x \in DOMAIN instances /\ o = instances[x]
                         THEN [obj[o] EXCEPT !.cut = @ \cup hs]
                         ELSE obj[o]]

\* The configuration without the bridge from x to y.
Unbridged(x, y) ==
  [config EXCEPT !.bridges =
     Only(@, {b \in Range(@) : b.caller # x \/ b.callee # y})]

RemoveBridge(x, y) ==
  /\ Call
  /\ LET gone == {b \in Range(config.bridges) : b.caller = x /\ b.callee = y}
     IN  \/ ~HasBridge(x, y) /\ Refuse
         \/ HasBridge(x, y) /\ Change(Unbridged(x, y))
         \/ /\ HasBridge(x, y)
            /\ Save(Unbridged(x, y))
            /\ object' = Cut(object, x, {b.handle : b \in gone})
            /\ UNCHANGED <<instances, surface, servers, failed>>

-----------------------------------------------------------------------------
(* UI bundles and interfaces.                                              *)

ServerState == {"new", "running", "stopped"}

InstallUiBundle(u) ==
  Call /\ ChangeOnly([config EXCEPT !.bundles = @ \cup {u}])

\* The code does not check that the id is new; here it is.
AddUiInterface(v, u, S) ==
  /\ Call
  /\ \A w \in config.uis : w.id # v
  /\ LET new == [config EXCEPT !.uis = @ \cup
                             {[id |-> v, bundle |-> u, dna |-> S]}]
     IN  \/ Change(new)
         \/ /\ Save(new)
            /\ servers' = Insert(servers, v, "new")
            /\ UNCHANGED <<objects, surface, failed>>

\* stop of a static server keeps the shutdown signal: sending on it again panics
\* once the thread that listened has ended.
ServerStopped(v) ==
  [w \in DOMAIN servers |->
     IF w = v /\ servers[w] = "running" THEN "stopped" ELSE servers[w]]

StopPanics(v) == v \in DOMAIN servers /\ servers[v] = "stopped"

\* remove_ui_interface stops the server, then changes the configuration, then
\* drops the server.
RemoveUiInterface(v) ==
  /\ Call
  /\ LET mine == {w \in config.uis : w.id = v}
         new == [config EXCEPT !.uis = @ \ mine]
     IN  \/ mine # {} /\ StopPanics(v) /\ Refuse
         \/ /\ SaveFails(new)
            /\ servers' = IF mine = {} THEN servers ELSE ServerStopped(v)
         \/ /\ Save(new)
            /\ servers' = Restrict(servers, DOMAIN servers \ {v})
            /\ UNCHANGED <<objects, surface, failed>>

\* The new configuration is a copy made before the UI interfaces of the bundle
\* are removed: it still mentions them, so if there were any it is inconsistent;
\* the bundle stays and the removed interfaces stay removed. The removals may
\* stop half way, in some order, at one that fails.
UninstallUiBundle(u) ==
  /\ Call
  /\ LET mine == {w.id : w \in {i \in config.uis : i.bundle = u}}
         Fewer(ids) == [config EXCEPT !.uis = {w \in @ : w.id \notin ids}]
     IN  \/ u \notin config.bundles /\ Refuse
         \/ /\ u \in config.bundles
            /\ mine = {}
            /\ ChangeOnly([config EXCEPT !.bundles = @ \ {u}])
         \/ /\ u \in config.bundles
            /\ mine # {}
            /\ \E gone \in SUBSET mine :
                 /\ gone = mine \/ \E v \in mine \ gone : StopPanics(v)
                 /\ IF gone = {} THEN UNCHANGED <<config, saved>>
                                 ELSE Save(Fewer(gone))
                 /\ servers' = Restrict(servers, DOMAIN servers \ gone)
                 /\ UNCHANGED <<objects, surface, failed>>
         \/ /\ u \in config.bundles
            /\ \E gone \in (SUBSET mine) \ {{}}, v \in mine :
                 /\ v \in gone
                 /\ SaveFailsOver(Fewer(gone),
                      IF gone = {v} THEN saved ELSE File(Fewer(gone \ {v})))
                 /\ servers' = Restrict(ServerStopped(v),
                                       DOMAIN servers \ (gone \ {v}))

StartUiInterface(v) ==
  /\ Call
  /\ IF v \in DOMAIN servers
     THEN /\ servers' = [servers EXCEPT ![v] = "running"]
          /\ UNCHANGED <<config, saved, objects, surface, failed>>
     ELSE Refuse

StopUiInterface(v) ==
  /\ Call
  /\ servers' = ServerStopped(v)
  /\ UNCHANGED <<config, saved, objects, surface, failed>>

-----------------------------------------------------------------------------
(* The process.                                                            *)

Position(c, x) == CHOOSE n \in DOMAIN c.instances : c.instances[n].id = x

\* start_all_instances goes through the instances in the order of the file.
StartsInOrder(c) ==
  \A n \in DOMAIN c.instances :
    CanStart(c, {c.instances[m].id : m \in 1..(n - 1)},
             c.instances[n].id, c.instances[n].dna)

\* load_configuration, boot_from_config and start_all_instances succeed.
Bootable(file) ==
  file.whole /\ Consistent(file.config) /\ StartsInOrder(file.config)

\* boot_from_config, then all instances, interfaces and servers. Objects are
\* created callees first; here they are numbered as in the file.
Boot ==
  /\ ~up
  /\ Bootable(saved)
  /\ config' = saved.config
  /\ instances' = [x \in InstanceIds(config') |-> Position(config', x)]
  /\ object' = [o \in DOMAIN config'.instances |->
       [dna |-> config'.instances[o].dna,
        alive |-> TRUE, active |-> TRUE, network |-> TRUE,
        api |-> Callees(config', instances', config'.instances[o].id),
        cut |-> {}]]
  /\ threads' = [i \in DOMAIN config'.interfaces |->
                   Serves(config', instances', i)]
  /\ multiplexers' = {[interfaces |-> config'.interfaces, killed |-> FALSE]}
  /\ servers' = [v \in {w.id : w \in config'.uis} |-> "running"]
  /\ up' = TRUE
  /\ failed' = {}
  /\ UNCHANGED <<saved, ops>>

\* The process ends, orderly or not, between two admin functions.
Exit ==
  /\ up
  /\ up' = FALSE
  /\ config' = saved.config
  /\ instances' = << >>
  /\ object' = << >>
  /\ threads' = << >>
  /\ multiplexers' = {}
  /\ servers' = << >>
  /\ UNCHANGED <<saved, failed, ops>>

Init ==
  /\ up = FALSE
  /\ config = BootConfig
  /\ saved = File(BootConfig)
  /\ instances = << >>
  /\ object = << >>
  /\ threads = << >>
  /\ multiplexers = {}
  /\ servers = << >>
  /\ failed = {}
  /\ ops = 0

AdminDna ==
  \/ \E d \in Dnas : InstallDna(d) \/ UninstallDna(d)
  \/ \E g \in Agents : AddAgent(g) \/ RemoveAgent(g)

AdminInstance ==
  \E x \in Instances :
    \/ \E d \in Dnas, g \in Agents : AddInstance(x, d, g)
    \/ RemoveInstance(x)
    \/ StartInstance(x)
    \/ StopInstance(x)

AdminInterface ==
  \E i \in Interfaces :
    \/ AddInterface(i)
    \/ RemoveInterface(i)
    \/ \E x \in Instances :
         AddInstanceToInterface(i, x) \/ RemoveInstanceFromInterface(i, x)

AdminBridge ==
  \/ \E b \in Bridge : AddBridge(b)
  \/ \E x, y \in Instances : RemoveBridge(x, y)

AdminUi ==
  \/ \E u \in Bundles : InstallUiBundle(u) \/ UninstallUiBundle(u)
  \/ \E v \in UiInterfaces, u \in Bundles, S \in Connection : AddUiInterface(v, u, S)
  \/ \E v \in UiInterfaces :
       RemoveUiInterface(v) \/ StartUiInterface(v) \/ StopUiInterface(v)

Next ==
  \/ Boot
  \/ Exit
  \/ MultiplexerEnds
  \/ AdminDna
  \/ AdminInstance
  \/ AdminInterface
  \/ AdminBridge
  \/ AdminUi

Spec == Init /\ [][Next]_vars

-----------------------------------------------------------------------------
(* Properties.                                                             *)

\* The variables have the types of the code's fields, and what the map of
\* instances holds are objects that have not been killed.
TypeOK ==
  /\ up \in BOOLEAN
  /\ config \in Config
  /\ saved \in [whole : BOOLEAN, config : Config]
  /\ object \in Seq(ObjectState)
  /\ DOMAIN instances \subseteq Instances
  /\ \A x \in DOMAIN instances :
       instances[x] \in DOMAIN object /\ object[instances[x]].alive
  /\ DOMAIN threads \subseteq Interfaces
  /\ \A i \in DOMAIN threads : Range(threads[i]) \subseteq DOMAIN object
  /\ multiplexers \subseteq Multiplexer
  /\ \A v \in DOMAIN servers : v \in UiInterfaces /\ servers[v] \in ServerState
  /\ failed \subseteq {"save", "instantiate", "bind", "api"}
  /\ ops \in 0..MaxOps

\* Every instance is listed after the callees of the bridges that have a handle
\* it requires.
CalleesFirst(c) ==
  \A n \in DOMAIN c.instances : \A b \in Range(c.bridges) :
    b.handle \in Requires[c.instances[n].dna]
      => b.callee \in {c.instances[m].id : m \in 1..(n - 1)}

\* Unless a save_config has failed, the conductor can be started from its file
\* whenever the process ends, however the admin functions that led there ended,
\* if the file lists callees first: start_all_instances goes by the file's order
\* and add_bridge does not look at it. And unless also the creation of an
\* instance has failed, the file holds the configuration the process runs with
\* ("After any change the conductor's config file gets saved").
Restartable ==
  /\ "save" \notin failed /\ CalleesFirst(saved.config) => Bootable(saved)
  /\ up /\ {"save", "instantiate"} \cap failed = {} => saved = File(config)

\* While nothing has failed, exactly the configured interfaces have a thread
\* ("every interface that is configured is also active"), and for each
\* configured instance that exists it serves the object that is in the
\* conductor's map, not one that was removed and created again.
InterfacesServeConfig ==
  up /\ failed = {} =>
    /\ DOMAIN threads = DOMAIN config.interfaces
    /\ \A i \in DOMAIN threads :
         \A x \in config.interfaces[i] \cap DOMAIN instances :
           x \in DOMAIN threads[i] /\ threads[i][x] = instances[x]

\* While nothing has failed, there is a multiplexer that has not been killed, and
\* every such sends the signals of an instance to every interface that is
\* configured to serve it. So a signal passes an interface by only if a killed
\* multiplexer takes it in its last pass.
SignalsReachInterfaces ==
  up /\ failed = {} =>
    /\ \E m \in multiplexers : ~m.killed
    /\ \A m \in multiplexers : ~m.killed =>
         \A i \in DOMAIN config.interfaces :
           i \in DOMAIN m.interfaces /\ config.interfaces[i] \subseteq m.interfaces[i]

\* A call of the object o of the bridge b's caller reaches the object that the map
\* holds for the callee of a configured bridge with that caller and handle.
Reaches(c, map, o, b) ==
  \E k \in Range(c.bridges) :
    /\ k.caller = b.caller /\ k.handle = b.handle
    /\ k.callee \in DOMAIN map
    /\ o.api[b.handle] = map[k.callee]

\* While nothing has failed, a call over a configured bridge reaches an instance
\* that this caller is bridged to by this handle, and the object of it that is in
\* the conductor's map now, not one that was removed and created again, unless a
\* bridge of that caller and handle was removed and the caller's conductor api
\* has not been built again since: remove_bridge leaves the removed callee in it.
BridgesResolve ==
  up /\ failed = {} =>
    \A b \in Range(config.bridges) :
      /\ {b.caller, b.callee} \subseteq DOMAIN instances
      /\ LET o == object[instances[b.caller]]
         IN  b.handle \in o.cut \/ Reaches(config, instances, o, b)

\* A step that takes an instance out of the configuration leaves its object
\* stopped, while nothing has failed: uninstall_dna and remove_agent, which leave
\* it in the map, and remove_instance, which does not.
RetiredIsStopped ==
  [][\A x \in DOMAIN instances :
       x \in InstanceIds(config) /\ x \notin InstanceIds(config') /\ failed' = {} /\ up'
         => ~object'[instances[x]].active]_vars
==============================================================================
