--------------------------- MODULE Conductor_proofs ---------------------------
(***************************************************************************)
(* Theorems about Conductor, for any DNAs, agents, instances, interfaces,  *)
(* bridges and UIs, and any number of admin functions and restarts.        *)
(***************************************************************************)
EXTENDS Conductor, SequenceFacts, FiniteSetTheorems, TLAPS

-----------------------------------------------------------------------------
(* Filtered sequences.                                                     *)

\* A filtered sequence has the elements of the sequence that pass the filter.
LEMMA OnlyFacts ==
  ASSUME NEW T, NEW s \in Seq(T), NEW S
  PROVE  /\ Only(s, S) \in Seq(T)
         /\ Range(Only(s, S)) = Range(s) \cap S
<1> DEFINE kept == {n \in DOMAIN s : s[n] \in S}
           upto(n) == {m \in kept : m =< n}
           rank == [n \in kept |-> Cardinality(upto(n))]
           N == Cardinality(kept)
           at(j) == CHOOSE n \in kept : rank[n] = j
<1>1. kept \subseteq 1..Len(s) /\ kept \subseteq Int
  OBVIOUS
<1>2. IsFiniteSet(kept) /\ N \in Nat
  <2>1. IsFiniteSet(1..Len(s))
    BY FS_Interval
  <2> QED
    BY <1>1, <2>1, FS_Subset, FS_CardinalityType
<1>3. ASSUME NEW n \in kept
      PROVE  IsFiniteSet(upto(n)) /\ Cardinality(upto(n)) \in 1..N
  <2>1. upto(n) \subseteq kept /\ n \in upto(n)
    BY <1>1
  <2> HIDE DEF upto, kept
  <2>2. IsFiniteSet(upto(n)) /\ Cardinality(upto(n)) =< N /\ Cardinality(upto(n)) \in Nat
    BY <1>2, <2>1, FS_Subset, FS_CardinalityType
  <2>3. Cardinality(upto(n)) # 0
    BY <2>1, <2>2, FS_EmptySet
  <2> QED
    BY <1>2, <2>2, <2>3
<1>4. ASSUME NEW n \in kept, NEW m \in kept, n < m
      PROVE  Cardinality(upto(n)) # Cardinality(upto(m))
  <2>1. upto(n) \subseteq upto(m) /\ m \in upto(m) /\ m \notin upto(n)
    BY <1>1, <1>4
  <2> HIDE DEF upto, kept
  <2> QED
    BY <1>3, <2>1, FS_Subset
<1>5. rank \in Injection(kept, 1..N)
  <2>1. rank \in [kept -> 1..N]
    BY <1>3
  <2>2. ASSUME NEW n \in kept, NEW m \in kept, rank[n] = rank[m]
        PROVE  n = m
    <3>1. rank[n] = Cardinality(upto(n)) /\ rank[m] = Cardinality(upto(m))
      OBVIOUS
    <3>2. n \in Int /\ m \in Int
      BY <1>1
    <3> HIDE DEF rank, upto, kept
    <3>3. ~(n < m) /\ ~(m < n)
      BY <1>4, <2>2, <3>1
    <3> QED
      BY <3>2, <3>3
  <2> HIDE DEF rank, kept, N
  <2> QED
    BY <2>1, <2>2 DEF Injection, IsInjective
<1>6. rank \in Surjection(kept, 1..N)
  <2> HIDE DEF rank, kept
  <2>1. IsFiniteSet(1..N) /\ Cardinality(1..N) = N
    BY <1>2, FS_Interval
  <2> QED
    BY <1>5, <2>1, FS_Injection
<1>7. ASSUME NEW j \in 1..N
      PROVE  at(j) \in kept /\ rank[at(j)] = j
  <2>1. \E n \in kept : rank[n] = j
    BY <1>6 DEF Surjection
  <2> HIDE DEF rank, kept
  <2> QED
    BY <2>1
<1>8. ASSUME NEW n \in kept
      PROVE  rank[n] \in 1..N /\ at(rank[n]) = n
  <2> HIDE DEF rank, kept, N
  <2>1. rank[n] \in 1..N
    BY <1>5 DEF Injection
  <2>2. at(rank[n]) \in kept /\ rank[at(rank[n])] = rank[n]
    BY <1>7, <2>1
  <2> HIDE DEF at
  <2> QED
    BY <1>5, <2>1, <2>2 DEF Injection, IsInjective
<1>9. Only(s, S) = [j \in 1..N |-> s[at(j)]]
  BY DEF Only
<1> HIDE DEF rank, N, at
<1>10. Only(s, S) \in Seq(T)
  BY <1>2, <1>7, <1>9
<1>11. Range(Only(s, S)) = {s[n] : n \in kept}
  BY <1>7, <1>8, <1>9 DEF Range
<1> QED
  BY <1>10, <1>11 DEF Range

-----------------------------------------------------------------------------
(* Configurations.                                                         *)

\* A map of interfaces is a function to sets of instances.
LEMMA InterfaceMaps ==
  ASSUME NEW f
  PROVE  f \in InterfaceMap
           <=> DOMAIN f \subseteq Interfaces /\ f \in [DOMAIN f -> SUBSET Instances]
BY DEF InterfaceMap

\* The fields of a configuration.
LEMMA ConfigFields ==
  ASSUME NEW c \in Config
  PROVE  /\ c.dnas \subseteq Dnas /\ c.agents \subseteq Agents
         /\ c.instances \in Seq(InstanceConfig)
         /\ DOMAIN c.interfaces \subseteq Interfaces
         /\ c.interfaces \in [DOMAIN c.interfaces -> SUBSET Instances]
         /\ c.interfaces \in InterfaceMap
         /\ c.bridges \in Seq(Bridge)
         /\ c.bundles \subseteq Bundles /\ c.uis \subseteq UiInterface
BY InterfaceMaps DEF Config

\* What save_remove_instance leaves: the ids are gone from the list of instances
\* and from the interfaces, and everything else is there.
LEMMA WithoutFacts ==
  ASSUME NEW c \in Config, NEW ids
  PROVE  /\ Without(c, ids) \in Config
         /\ Without(c, ids).bridges = c.bridges
         /\ DOMAIN Without(c, ids).interfaces = DOMAIN c.interfaces
         /\ \A i \in DOMAIN c.interfaces : Without(c, ids).interfaces[i] = c.interfaces[i] \ ids
         /\ InstanceIds(Without(c, ids)) = InstanceIds(c) \ ids
<1> DEFINE S == {i \in Range(c.instances) : i.id \notin ids}
           kept == Only(c.instances, S)
           ifs == [i \in DOMAIN c.interfaces |-> c.interfaces[i] \ ids]
<1>1. Without(c, ids) = [c EXCEPT !.instances = kept, !.interfaces = ifs]
  BY DEF Without
<1>2. kept \in Seq(InstanceConfig) /\ Range(kept) = S
  <2>1. c.instances \in Seq(InstanceConfig)
    BY ConfigFields
  <2> QED
    BY <2>1, OnlyFacts
<1>3. ifs \in InterfaceMap
  <2>1. DOMAIN ifs \subseteq Interfaces /\ ifs \in [DOMAIN ifs -> SUBSET Instances]
    BY ConfigFields
  <2> HIDE DEF ifs
  <2> QED
    BY <2>1, InterfaceMaps
<1> HIDE DEF kept, ifs
<1>4. Without(c, ids) \in Config
  BY <1>1, <1>2, <1>3 DEF Config
<1>5. /\ Without(c, ids).instances = kept
      /\ Without(c, ids).interfaces = ifs
      /\ Without(c, ids).bridges = c.bridges
  BY <1>1 DEF Config
<1>6. InstanceIds(Without(c, ids)) = InstanceIds(c) \ ids
  BY <1>2, <1>5 DEF InstanceIds
<1> QED
  BY <1>4, <1>5, <1>6 DEF ifs

\* check_consistency says nothing against fewer UI interfaces.
LEMMA FewerUis ==
  ASSUME NEW c \in Config, Consistent(c), NEW U \in SUBSET c.uis
  PROVE  [c EXCEPT !.uis = U] \in Config /\ Consistent([c EXCEPT !.uis = U])
<1> DEFINE d == [c EXCEPT !.uis = U]
<1>1. d \in Config
  BY DEF Config
<1>2. /\ d.instances = c.instances /\ d.agents = c.agents /\ d.dnas = c.dnas
      /\ d.interfaces = c.interfaces /\ d.bridges = c.bridges
      /\ d.bundles = c.bundles /\ d.uis = U
  BY DEF Config
<1> HIDE DEF d
<1>3. InstanceIds(d) = InstanceIds(c)
  BY <1>2 DEF InstanceIds
<1>4. \A x : DnaOf(d, x) = DnaOf(c, x)
  BY <1>2 DEF DnaOf
<1>5. Acyclic(d) <=> Acyclic(c)
  BY <1>2, <1>3 DEF Acyclic
<1>6. \A b : BridgeFits(d, b) <=> BridgeFits(c, b)
  BY <1>3, <1>4 DEF BridgeFits
<1>7. \A h : HasHandle(d, h) <=> HasHandle(c, h)
  BY <1>2 DEF HasHandle
<1>8. Consistent(d)
  BY <1>2, <1>3, <1>5, <1>6, <1>7 DEF Consistent
<1> QED
  BY <1>1, <1>8 DEF d

\* Nor against an empty configuration.
LEMMA TruncatedFacts ==
  /\ Truncated \in [whole : BOOLEAN, config : Config]
  /\ Consistent(Truncated.config)
<1> DEFINE c == Truncated.config
<1>1. /\ c.instances = << >> /\ c.agents = {} /\ c.dnas = {}
      /\ c.interfaces = << >> /\ c.bridges = << >>
      /\ c.bundles = {} /\ c.uis = {}
  BY DEF Truncated
<1>2. << >> \in InterfaceMap
  <2>1. << >> \in [{} -> SUBSET Instances]
    OBVIOUS
  <2> QED
    BY <2>1 DEF InterfaceMap
<1>3. Truncated \in [whole : BOOLEAN, config : Config]
  <2>1. << >> \in Seq(InstanceConfig) /\ << >> \in Seq(Bridge)
    OBVIOUS
  <2>2. c \in Config
    BY <1>2, <2>1 DEF Truncated, Config
  <2> QED
    BY <2>2 DEF Truncated
<1> HIDE DEF c
<1>4. InstanceIds(c) = {} /\ Range(c.instances) = {} /\ Range(c.bridges) = {}
  BY <1>1 DEF InstanceIds, Range
<1>5. Acyclic(c)
  BY <1>4 DEF Acyclic
<1>6. Consistent(c)
  BY <1>1, <1>4, <1>5 DEF Consistent
<1> QED
  BY <1>3, <1>6 DEF c

\* The ids in a consistent configuration are different, and a bridge is between
\* two of them.
LEMMA ConsistentFacts ==
  ASSUME NEW c, Consistent(c)
  PROVE  /\ \A m, n \in DOMAIN c.instances : c.instances[m].id = c.instances[n].id => m = n
         /\ \A b \in Range(c.bridges) : {b.caller, b.callee} \subseteq InstanceIds(c)
         /\ \A i \in DOMAIN c.interfaces : c.interfaces[i] \subseteq InstanceIds(c)
BY DEF Consistent, BridgeFits

-----------------------------------------------------------------------------
(* The inductive invariant.                                                *)

\* No two ids share an instance object.
MapIsInjective ==
  \A x, y \in DOMAIN instances : instances[x] = instances[y] => x = y

\* A process that does not run has no instances.
DownIsEmpty == ~up => DOMAIN instances = {}

\* The configuration in memory and the one of a whole file pass check_consistency.
StaysConsistent == Consistent(config) /\ Consistent(saved.config)

\* Only a failed save cuts off the file, and only a failed save or creation of an
\* instance makes it differ from the configuration in memory.
FileKeepsUp ==
  /\ "save" \in failed \/ saved.whole
  /\ up /\ {"save", "instantiate"} \cap failed = {} => saved = File(config)

IInv ==
  /\ TypeOK
  /\ StaysConsistent
  /\ FileKeepsUp
  /\ InterfacesServeConfig
  /\ SignalsReachInterfaces
  /\ BridgesResolve
  /\ MapIsInjective
  /\ DownIsEmpty

Failures == {"save", "instantiate", "bind", "api"}

ServersTyped == \A v \in DOMAIN servers : v \in UiInterfaces /\ servers[v] \in ServerState

\* The file is whole or not, and what it holds passes check_consistency.
FileTyped == saved \in [whole : BOOLEAN, config : Config] /\ Consistent(saved.config)

\* What all admin functions have in common: the process runs on, and whatever they
\* leave as configuration was checked.
Called ==
  /\ up /\ up'
  /\ ops' \in 0..MaxOps
  /\ config' \in Config
  /\ Consistent(config')
  /\ FileTyped'
  /\ FileKeepsUp'
  /\ ServersTyped'

\* Objects are started or stopped, and nothing else.
Switched ==
  /\ object' \in Seq(ObjectState)
  /\ Len(object') = Len(object)
  /\ \A o \in DOMAIN object : /\ object'[o].api = object[o].api
                              /\ object'[o].cut = object[o].cut
                              /\ object'[o].alive = object[o].alive

\* There is a multiplexer that is not killed, and each such works with f.
Current(ms, f) ==
  /\ ms \subseteq Multiplexer
  /\ \E m \in ms : ~m.killed
  /\ \A m \in ms : ~m.killed => m.interfaces = f

\* start_signal_multiplexer leaves only the new multiplexer alive.
LEMMA MultiplexFacts ==
  ASSUME multiplexers \subseteq Multiplexer, NEW c \in Config, Multiplex(c)
  PROVE  Current(multiplexers', c.interfaces)
<1> DEFINE new == [interfaces |-> c.interfaces, killed |-> FALSE]
           old == {[m EXCEPT !.killed = TRUE] : m \in multiplexers}
<1>1. new \in Multiplexer /\ ~new.killed /\ new.interfaces = c.interfaces
  BY ConfigFields DEF Multiplexer
<1>2. ASSUME NEW m \in multiplexers
      PROVE  [m EXCEPT !.killed = TRUE] \in Multiplexer /\ [m EXCEPT !.killed = TRUE].killed
  BY DEF Multiplexer
<1>3. \A m \in old : m \in Multiplexer /\ m.killed
  BY <1>2
<1>4. multiplexers' = old \cup {new}
  BY DEF Multiplex
<1> HIDE DEF old, new
<1> QED
  BY <1>1, <1>3, <1>4 DEF Current

\* With such multiplexers signals reach the interfaces.
LEMMA CurrentReaches ==
  ASSUME Current(multiplexers', config'.interfaces)
  PROVE  SignalsReachInterfaces' /\ multiplexers' \subseteq Multiplexer
BY DEF Current, SignalsReachInterfaces

\* The process that is not started yet: the invariant holds.
LEMMA InitIInv == Init => IInv
<1> SUFFICES ASSUME Init
             PROVE  IInv
  OBVIOUS
<1>1. /\ up = FALSE /\ config = BootConfig /\ saved = File(BootConfig)
      /\ instances = << >> /\ object = << >> /\ threads = << >> /\ multiplexers = {}
      /\ servers = << >> /\ failed = {} /\ ops = 0
  BY DEF Init
<1>2. DOMAIN << >> = {}
  OBVIOUS
<1>3. TypeOK
  <2>1. File(BootConfig) \in [whole : BOOLEAN, config : Config]
    BY BootAssumption DEF File
  <2>2. << >> \in Seq(ObjectState) /\ 0 \in 0..MaxOps
    BY BoundAssumption
  <2> QED
    BY <1>1, <1>2, <2>1, <2>2, BootAssumption DEF TypeOK
<1>4. StaysConsistent /\ FileKeepsUp
  BY <1>1, BootAssumption DEF StaysConsistent, FileKeepsUp, File
<1> QED
  BY <1>1, <1>2, <1>3, <1>4
  DEF IInv, InterfacesServeConfig, SignalsReachInterfaces, BridgesResolve,
      MapIsInjective, DownIsEmpty

\* A function that fails after the configuration was replaced leaves the invariant,
\* which then promises nothing of interfaces, signals and bridges.
LEMMA FailKeeps ==
  ASSUME IInv, Called, UNCHANGED <<objects, surface>>,
         NEW f \in Failures, failed' = failed \cup {f}
  PROVE  IInv'
<1>1. TypeOK'
  BY DEF IInv, TypeOK, Called, FileTyped, ServersTyped, Failures, objects, surface
<1>2. StaysConsistent' /\ FileKeepsUp'
  BY DEF StaysConsistent, Called, FileTyped
<1>3. failed' # {}
  OBVIOUS
<1>4. MapIsInjective' /\ DownIsEmpty'
  BY DEF IInv, MapIsInjective, DownIsEmpty, Called, objects
<1> QED
  BY <1>1, <1>2, <1>3, <1>4
  DEF IInv, InterfacesServeConfig, SignalsReachInterfaces, BridgesResolve

\* A function that at most starts or stops objects and takes instances from
\* interfaces.
LEMMA SoftKeeps ==
  ASSUME IInv, Called, Switched, UNCHANGED <<instances, surface, failed>>,
         DOMAIN config'.interfaces = DOMAIN config.interfaces,
         \A i \in DOMAIN config.interfaces : config'.interfaces[i] \subseteq config.interfaces[i],
         config'.bridges = config.bridges
  PROVE  IInv'
<1>1. object \in Seq(ObjectState) /\ object' \in Seq(ObjectState) /\ DOMAIN object' = DOMAIN object
  BY DEF IInv, TypeOK, Switched
<1>2. TypeOK'
  <2>1. \A x \in DOMAIN instances : instances[x] \in DOMAIN object' /\ object'[instances[x]].alive
    BY <1>1, Zenon DEF IInv, TypeOK, Switched
  <2>2. \A i \in DOMAIN threads : Range(threads[i]) \subseteq DOMAIN object'
    BY <1>1, Zenon DEF IInv, TypeOK
  <2> QED
    BY <1>1, <2>1, <2>2 DEF IInv, TypeOK, Called, FileTyped, ServersTyped, surface
<1>3. StaysConsistent' /\ FileKeepsUp'
  BY DEF StaysConsistent, Called, FileTyped
<1>4. InterfacesServeConfig'
  BY DEF IInv, InterfacesServeConfig, Called, surface
<1>5. SignalsReachInterfaces'
  BY DEF IInv, SignalsReachInterfaces, Called, surface
<1>6. BridgesResolve'
  <2> SUFFICES ASSUME failed = {}, NEW b \in Range(config.bridges)
               PROVE  /\ {b.caller, b.callee} \subseteq DOMAIN instances
                      /\ \/ b.handle \in object'[instances[b.caller]].cut
                         \/ Reaches(config', instances, object'[instances[b.caller]], b)
    BY DEF BridgesResolve
  <2>1. /\ {b.caller, b.callee} \subseteq DOMAIN instances
        /\ \/ b.handle \in object[instances[b.caller]].cut
           \/ Reaches(config, instances, object[instances[b.caller]], b)
    BY DEF IInv, BridgesResolve, Called
  <2>2. instances[b.caller] \in DOMAIN object
    BY <2>1 DEF IInv, TypeOK
  <2> QED
    BY <2>1, <2>2 DEF Switched, Reaches
<1>7. MapIsInjective' /\ DownIsEmpty'
  BY DEF IInv, MapIsInjective, DownIsEmpty, Called
<1> QED
  BY <1>2, <1>3, <1>4, <1>5, <1>6, <1>7 DEF IInv

-----------------------------------------------------------------------------
(* How admin functions end.                                                *)

\* Nothing is switched when no object is touched.
LEMMA NotSwitched ==
  ASSUME IInv, UNCHANGED object
  PROVE  Switched
BY DEF IInv, TypeOK, Switched

\* The state that a call starts from, and what it may leave.
LEMMA CallFacts ==
  ASSUME IInv, Call
  PROVE  /\ up /\ up' /\ ops' \in 0..MaxOps
         /\ config \in Config /\ Consistent(config)
         /\ FileTyped /\ FileKeepsUp /\ ServersTyped
<1>1. up /\ up' /\ ops < MaxOps /\ ops' = ops + 1
  BY DEF Call
<1>2. ops \in 0..MaxOps
  BY DEF IInv, TypeOK
<1>3. ops' \in 0..MaxOps
  BY <1>1, <1>2, BoundAssumption
<1> QED
  BY <1>1, <1>3 DEF IInv, TypeOK, StaysConsistent, FileTyped, ServersTyped

\* A function that leaves the configuration as it is.
LEMMA SwitchKeeps ==
  ASSUME IInv, Call, UNCHANGED <<config, saved, instances, surface, failed>>, Switched, ServersTyped'
  PROVE  IInv'
<1>1. Called
  BY CallFacts DEF Called, FileTyped, FileKeepsUp
<1> QED
  BY <1>1, SoftKeeps

\* A function that is refused.
LEMMA RefusedIInv ==
  ASSUME IInv, Call, Refuse
  PROVE  IInv'
<1>1. UNCHANGED <<config, saved, instances, object, surface, servers, failed>>
  BY DEF Refuse, objects
<1>2. ServersTyped'
  BY <1>1, CallFacts DEF ServersTyped
<1> QED
  BY <1>1, <1>2, NotSwitched, SwitchKeeps

\* A save that fails leaves the new configuration in use over the old file, or
\* over one that was cut off: both keep the invariant.
LEMMA SaveFailsKeeps ==
  ASSUME IInv, Call, NEW new \in Config,
         NEW old \in [whole : BOOLEAN, config : Config], Consistent(old.config),
         SaveFailsOver(new, old), ServersTyped'
  PROVE  IInv'
<1>1. /\ Consistent(new) /\ config' = new
      /\ saved' \in {old, Truncated}
      /\ failed' = failed \cup {"save"}
      /\ UNCHANGED <<objects, surface>>
  BY DEF SaveFailsOver, Accept
<1>2. FileTyped' /\ FileKeepsUp'
  BY <1>1, TruncatedFacts DEF FileTyped, FileKeepsUp
<1>3. Called
  BY <1>1, <1>2, CallFacts DEF Called
<1> QED
  BY <1>1, <1>3, FailKeeps DEF Failures

\* The two ways in which a change ends early.
LEMMA ChangeKeeps ==
  ASSUME IInv, Call, NEW new \in Config, Change(new)
  PROVE  IInv'
<1>1. CASE Refuse
  BY <1>1, RefusedIInv
<1>2. CASE SaveFails(new) /\ UNCHANGED servers
  <2>1. ServersTyped'
    BY <1>2, CallFacts DEF ServersTyped
  <2> QED
    BY <1>2, <2>1, CallFacts, SaveFailsKeeps DEF SaveFails, FileTyped
<1> QED
  BY <1>1, <1>2 DEF Change

\* What a call may leave when the new configuration was saved.
LEMMA SaveFacts ==
  ASSUME IInv, Call, NEW new \in Config, Save(new), ServersTyped'
  PROVE  Called /\ config' = new
<1>1. Consistent(new) /\ config' = new /\ saved' = File(new)
  BY DEF Save, Accept
<1>2. FileTyped' /\ FileKeepsUp'
  BY <1>1 DEF FileTyped, FileKeepsUp, File
<1> QED
  BY <1>1, <1>2, CallFacts DEF Called

\* A change that leaves the bridges, and at most takes instances from interfaces.
LEMMA SmallerKeeps ==
  ASSUME IInv, Call, NEW new \in Config, Save(new), Switched,
         UNCHANGED <<instances, surface, failed>>, ServersTyped',
         DOMAIN new.interfaces = DOMAIN config.interfaces,
         \A i \in DOMAIN config.interfaces : new.interfaces[i] \subseteq config.interfaces[i],
         new.bridges = config.bridges
  PROVE  IInv'
<1>1. Called /\ config' = new
  BY SaveFacts
<1> QED
  BY <1>1, SoftKeeps

\* A change of the configuration alone, that leaves interfaces and bridges as they
\* are, keeps the invariant.
LEMMA ChangeOnlyKeeps ==
  ASSUME IInv, Call, NEW new \in Config, ChangeOnly(new),
         new.interfaces = config.interfaces, new.bridges = config.bridges
  PROVE  IInv'
<1>1. CASE Change(new)
  BY <1>1, ChangeKeeps
<1>2. CASE Save(new) /\ UNCHANGED <<objects, surface, servers, failed>>
  <2>1. UNCHANGED <<instances, object, surface, servers, failed>>
    BY <1>2 DEF objects
  <2>2. ServersTyped'
    BY <2>1, CallFacts DEF ServersTyped
  <2> QED
    BY <1>2, <2>1, <2>2, NotSwitched, SmallerKeeps
<1> QED
  BY <1>1, <1>2 DEF ChangeOnly

\* stop of objects changes no more than that, and they are not active then.
LEMMA StoppedFacts ==
  ASSUME NEW obj \in Seq(ObjectState), NEW os
  PROVE  /\ Stopped(obj, os) \in Seq(ObjectState)
         /\ Len(Stopped(obj, os)) = Len(obj)
         /\ \A o \in DOMAIN obj : /\ Stopped(obj, os)[o].api = obj[o].api
                                  /\ Stopped(obj, os)[o].cut = obj[o].cut
                                  /\ Stopped(obj, os)[o].alive = obj[o].alive
                                  /\ o \in os => ~Stopped(obj, os)[o].active
<1> DEFINE stop == Stopped(obj, os)
<1>1. ASSUME NEW o \in DOMAIN obj
      PROVE  /\ stop[o] \in ObjectState
             /\ stop[o].api = obj[o].api
             /\ stop[o].cut = obj[o].cut
             /\ stop[o].alive = obj[o].alive
             /\ o \in os => ~stop[o].active
  <2>1. obj[o] \in ObjectState
    OBVIOUS
  <2>2. stop[o] = IF o \in os /\ obj[o].active
                  THEN [obj[o] EXCEPT !.active = FALSE, !.network = FALSE] ELSE obj[o]
    BY DEF Stopped
  <2> QED
    BY <2>1, <2>2 DEF ObjectState
<1>2. DOMAIN stop = 1..Len(obj) /\ stop = [o \in 1..Len(obj) |-> stop[o]]
  BY DEF Stopped
<1>3. stop \in Seq(ObjectState) /\ Len(stop) = Len(obj)
  <2>1. DOMAIN obj = 1..Len(obj) /\ Len(obj) \in Nat
    OBVIOUS
  <2> HIDE DEF stop
  <2>2. stop \in [1..Len(obj) -> ObjectState]
    BY <1>1, <1>2, <2>1
  <2> QED
    BY <2>1, <2>2
<1> HIDE DEF stop
<1> QED
  BY <1>1, <1>3 DEF stop

\* uninstall_dna and remove_agent.
LEMMA RetireKeeps ==
  ASSUME IInv, Call, NEW c \in Config, NEW ids, Retire(Without(c, ids), ids),
         c.interfaces = config.interfaces, c.bridges = config.bridges
  PROVE  IInv'
<1> DEFINE new == Without(c, ids)
<1>1. /\ new \in Config
      /\ DOMAIN new.interfaces = DOMAIN config.interfaces
      /\ \A i \in DOMAIN config.interfaces : new.interfaces[i] \subseteq config.interfaces[i]
      /\ new.bridges = config.bridges
  BY WithoutFacts
<1> HIDE DEF new
<1>2. CASE Change(new)
  BY <1>1, <1>2, ChangeKeeps
<1>3. CASE /\ Save(new)
           /\ object' = Stopped(object, ObjectsOf(ids))
           /\ UNCHANGED <<instances, surface, servers, failed>>
  <2>1. object \in Seq(ObjectState)
    BY DEF IInv, TypeOK
  <2>2. Switched
    BY <1>3, <2>1, StoppedFacts DEF Switched
  <2>3. ServersTyped'
    BY <1>3, CallFacts DEF ServersTyped
  <2> QED
    BY <1>1, <1>3, <2>2, <2>3, SmallerKeeps
<1> QED
  BY <1>2, <1>3 DEF Retire, new

-----------------------------------------------------------------------------
(* DNAs and agents.                                                        *)

\* install_dna_from_file keeps the invariant.
LEMMA InstallDnaIInv ==
  ASSUME IInv, NEW d \in Dnas, InstallDna(d)
  PROVE  IInv'
<1> DEFINE new == [config EXCEPT !.dnas = @ \cup {d}]
<1>1. Call
  BY DEF InstallDna
<1>2. new \in Config /\ new.interfaces = config.interfaces /\ new.bridges = config.bridges
  BY <1>1, CallFacts DEF Config
<1>3. Refuse \/ ChangeOnly(new)
  BY DEF InstallDna
<1> QED
  BY <1>1, <1>2, <1>3, RefusedIInv, ChangeOnlyKeeps

\* uninstall_dna keeps the invariant.
LEMMA UninstallDnaIInv ==
  ASSUME IInv, NEW d \in Dnas, UninstallDna(d)
  PROVE  IInv'
<1> DEFINE c == [config EXCEPT !.dnas = @ \ {d}]
           ids == {i.id : i \in {j \in Range(config.instances) : j.dna = d}}
<1>1. Call /\ Retire(Without(c, ids), ids)
  BY DEF UninstallDna
<1>2. c \in Config /\ c.interfaces = config.interfaces /\ c.bridges = config.bridges
  BY <1>1, CallFacts DEF Config
<1> HIDE DEF c, ids
<1> QED
  BY <1>1, <1>2, RetireKeeps

\* add_agent keeps the invariant.
LEMMA AddAgentIInv ==
  ASSUME IInv, NEW g \in Agents, AddAgent(g)
  PROVE  IInv'
<1> DEFINE new == [config EXCEPT !.agents = @ \cup {g}]
<1>1. Call
  BY DEF AddAgent
<1>2. new \in Config /\ new.interfaces = config.interfaces /\ new.bridges = config.bridges
  BY <1>1, CallFacts DEF Config
<1>3. Refuse \/ ChangeOnly(new)
  BY DEF AddAgent
<1> QED
  BY <1>1, <1>2, <1>3, RefusedIInv, ChangeOnlyKeeps

\* remove_agent keeps the invariant.
LEMMA RemoveAgentIInv ==
  ASSUME IInv, NEW g \in Agents, RemoveAgent(g)
  PROVE  IInv'
<1> DEFINE c == [config EXCEPT !.agents = @ \ {g}]
           ids == {i.id : i \in {j \in Range(config.instances) : j.agent = g}}
<1>1. Call /\ (Refuse \/ Retire(Without(c, ids), ids))
  BY DEF RemoveAgent
<1>2. c \in Config /\ c.interfaces = config.interfaces /\ c.bridges = config.bridges
  BY <1>1, CallFacts DEF Config
<1> HIDE DEF c, ids
<1> QED
  BY <1>1, <1>2, RefusedIInv, RetireKeeps

-----------------------------------------------------------------------------
(* Instances.                                                              *)

\* The callees in a conductor api are objects, or none, and every bridge of the
\* caller finds one of its callees there.
LEMMA CalleesFacts ==
  ASSUME NEW c \in Config, NEW map, NEW x,
         CalleesPresent(c, map, x), \A y \in DOMAIN map : map[y] \in Nat \ {0}
  PROVE  /\ Callees(c, map, x) \in [Handles -> Nat]
         /\ \A b \in Range(c.bridges) : b.caller = x =>
              \E k \in Range(c.bridges) :
                /\ k.caller = x /\ k.handle = b.handle /\ k.callee \in DOMAIN map
                /\ Callees(c, map, x)[b.handle] = map[k.callee]
<1> DEFINE mine(h) == {i \in DOMAIN c.bridges : c.bridges[i].caller = x /\ c.bridges[i].handle = h}
           last(h) == CHOOSE i \in mine(h) : \A j \in mine(h) : j =< i
<1>1. c.bridges \in Seq(Bridge)
  BY ConfigFields
<1>2. ASSUME NEW h \in Handles, mine(h) # {}
      PROVE  /\ map[c.bridges[last(h)].callee] \in Nat \ {0}
             /\ c.bridges[last(h)] \in Range(c.bridges)
             /\ c.bridges[last(h)].caller = x /\ c.bridges[last(h)].handle = h
             /\ c.bridges[last(h)].callee \in DOMAIN map
  <2>1. mine(h) \subseteq 1..Len(c.bridges) /\ Len(c.bridges) \in Nat
    BY <1>1
  <2>2. \E i \in mine(h) : \A j \in mine(h) : j =< i
    <3> HIDE DEF mine
    <3> QED
      BY <1>2, <2>1, LargestIndex
  <2>3. last(h) \in mine(h)
    <3> HIDE DEF mine
    <3> QED
      BY <2>2
  <2>4. /\ c.bridges[last(h)] \in Range(c.bridges)
        /\ c.bridges[last(h)].caller = x /\ c.bridges[last(h)].handle = h
    <3> HIDE DEF last
    <3> QED
      BY <2>3 DEF Range
  <2> HIDE DEF last, mine
  <2> QED
    BY <2>4 DEF CalleesPresent
<1>3. Callees(c, map, x) =
        [h \in Handles |-> IF mine(h) = {} THEN None ELSE map[c.bridges[last(h)].callee]]
  BY DEF Callees
<1>4. Callees(c, map, x) \in [Handles -> Nat]
  <2> HIDE DEF mine, last
  <2> QED
    BY <1>2, <1>3 DEF None
<1>5. ASSUME NEW b \in Range(c.bridges), b.caller = x
      PROVE  \E k \in Range(c.bridges) :
               /\ k.caller = x /\ k.handle = b.handle /\ k.callee \in DOMAIN map
               /\ Callees(c, map, x)[b.handle] = map[k.callee]
  <2>1. b.handle \in Handles
    <3>1. b \in Bridge
      BY <1>1, <1>5 DEF Range
    <3> QED
      BY <3>1 DEF Bridge
  <2>2. mine(b.handle) # {}
    BY <1>1, <1>5 DEF Range
  <2> HIDE DEF mine, last
  <2>3. Callees(c, map, x)[b.handle] = map[c.bridges[last(b.handle)].callee]
    BY <1>3, <2>1, <2>2
  <2> QED
    BY <1>2, <2>1, <2>2, <2>3
<1> QED
  BY <1>4, <1>5

\* An instance is created: an object of its own, alive and with its callees.
LEMMA InstantiateFacts ==
  ASSUME IInv, NEW c \in Config, NEW x \in Instances, NEW d \in Dnas, Instantiate(c, x, d)
  PROVE  /\ object' \in Seq(ObjectState)
         /\ Len(object') = Len(object) + 1
         /\ \A o \in DOMAIN object : o \in DOMAIN object' /\ object'[o] = object[o]
         /\ DOMAIN instances' = DOMAIN instances \cup {x}
         /\ \A y \in DOMAIN instances : y # x => instances'[y] = instances[y]
         /\ \A y \in DOMAIN instances' : instances'[y] \in DOMAIN object' /\ object'[instances'[y]].alive
         /\ MapIsInjective'
<1> DEFINE obj == [dna |-> d, alive |-> TRUE, active |-> FALSE, network |-> TRUE,
                   api |-> Callees(c, instances, x), cut |-> {}]
<1>1. /\ CalleesPresent(c, instances, x)
      /\ instances' = Insert(instances, x, Len(object) + 1)
      /\ object' = Append(object, obj)
  BY DEF Instantiate
<1>2. object \in Seq(ObjectState)
  BY DEF IInv, TypeOK
<1>3. \A y \in DOMAIN instances : instances[y] \in DOMAIN object /\ object[instances[y]].alive
  BY DEF IInv, TypeOK
<1>4. obj \in ObjectState /\ obj.alive
  <2>1. \A y \in DOMAIN instances : instances[y] \in Nat \ {0}
    BY <1>2, <1>3
  <2>2. Callees(c, instances, x) \in [Handles -> Nat]
    BY <1>1, <2>1, CalleesFacts
  <2> QED
    BY <2>2 DEF ObjectState
<1> HIDE DEF obj
<1>5. /\ object' \in Seq(ObjectState)
      /\ Len(object') = Len(object) + 1
      /\ \A o \in DOMAIN object : o \in DOMAIN object' /\ object'[o] = object[o]
      /\ Len(object) + 1 \in DOMAIN object' /\ object'[Len(object) + 1] = obj
      /\ Len(object) + 1 \notin DOMAIN object
  BY <1>1, <1>2, <1>4
<1>6. /\ DOMAIN instances' = DOMAIN instances \cup {x}
      /\ instances'[x] = Len(object) + 1
      /\ \A y \in DOMAIN instances : y # x => instances'[y] = instances[y]
  BY <1>1 DEF Insert
<1>7. ASSUME NEW y \in DOMAIN instances'
      PROVE  instances'[y] \in DOMAIN object' /\ object'[instances'[y]].alive
  <2>1. CASE y = x
    BY <1>4, <1>5, <1>6, <2>1
  <2>2. CASE y # x
    BY <1>3, <1>5, <1>6, <2>2
  <2> QED
    BY <2>1, <2>2
<1>8. MapIsInjective'
  <2> SUFFICES ASSUME NEW y \in DOMAIN instances', NEW z \in DOMAIN instances',
                      instances'[y] = instances'[z]
               PROVE  y = z
    BY DEF MapIsInjective
  <2>1. CASE y # x /\ z # x
    BY <1>6, <2>1 DEF IInv, MapIsInjective
  <2>2. CASE y = x \/ z = x
    BY <1>3, <1>5, <1>6, <2>2
  <2> QED
    BY <2>1, <2>2
<1> QED
  BY <1>5, <1>6, <1>7, <1>8

\* The threads serve objects there are, also when there is one more.
LEMMA ThreadsTyped ==
  ASSUME IInv, NEW obj, DOMAIN object \subseteq DOMAIN obj
  PROVE  /\ DOMAIN threads \subseteq Interfaces
         /\ \A i \in DOMAIN threads : Range(threads[i]) \subseteq DOMAIN obj
BY DEF IInv, TypeOK

\* add_instance, with the creation of the object failing or not.
LEMMA AddInstanceIInv ==
  ASSUME IInv, NEW x \in Instances, NEW d \in Dnas, NEW g \in Agents, AddInstance(x, d, g)
  PROVE  IInv'
<1> DEFINE rec == [id |-> x, dna |-> d, agent |-> g]
           new == [config EXCEPT !.instances = Append(@, rec)]
<1>1. Call
  BY DEF AddInstance
<1>2. config \in Config /\ config.instances \in Seq(InstanceConfig)
  BY <1>1, CallFacts, ConfigFields
<1>3. /\ new \in Config
      /\ new.interfaces = config.interfaces
      /\ new.bridges = config.bridges
      /\ new.instances = Append(config.instances, rec)
  <2>1. Append(config.instances, rec) \in Seq(InstanceConfig)
    BY <1>2 DEF InstanceConfig
  <2> HIDE DEF rec
  <2> QED
    BY <1>2, <2>1 DEF Config
<1>4. ASSUME Consistent(new)
      PROVE  x \notin InstanceIds(config)
  <2> SUFFICES ASSUME NEW n \in DOMAIN config.instances, config.instances[n].id = x
               PROVE  FALSE
    BY DEF InstanceIds, Range
  <2>1. /\ n \in DOMAIN new.instances
        /\ Len(config.instances) + 1 \in DOMAIN new.instances
        /\ new.instances[n].id = x
        /\ new.instances[Len(config.instances) + 1].id = x
        /\ n # Len(config.instances) + 1
    BY <1>2, <1>3
  <2> QED
    BY <1>4, <2>1, ConsistentFacts
<1> HIDE DEF new
<1>5. /\ \/ Change(new)
         \/ /\ Accept(new)
            /\ saved' \in {saved, File(new)}
            /\ failed' = failed \cup {"instantiate"}
            /\ UNCHANGED <<objects, surface, servers>>
         \/ /\ Accept(new)
            /\ Instantiate(new, x, d)
            /\ saved' \in {saved, Truncated}
            /\ failed' = failed \cup {"save"}
            /\ UNCHANGED <<surface, servers>>
         \/ /\ Save(new)
            /\ Instantiate(new, x, d)
            /\ Multiplex(new)
            /\ UNCHANGED <<threads, servers, failed>>
  BY DEF AddInstance, new
<1>6. ASSUME Accept(new), saved' \in {saved, File(new), Truncated}, UNCHANGED servers,
             \/ failed' = failed \cup {"save"}
             \/ failed' = failed \cup {"instantiate"} /\ saved' \in {saved, File(new)}
             \/ failed' = failed /\ saved' = File(new)
      PROVE  Called /\ config' = new
  <2>1. Consistent(new) /\ config' = new
    BY <1>6 DEF Accept
  <2>2. ServersTyped'
    BY <1>1, <1>6, CallFacts DEF ServersTyped
  <2>3. FileTyped'
    <3>1. CASE saved' = saved
      BY <1>1, <3>1, CallFacts DEF FileTyped
    <3>2. CASE saved' = File(new)
      BY <1>3, <2>1, <3>2 DEF FileTyped, File
    <3>3. CASE saved' = Truncated
      BY <3>3, TruncatedFacts DEF FileTyped
    <3> QED
      BY <1>6, <3>1, <3>2, <3>3
  <2>4. FileKeepsUp'
    <3>1. File(new).whole
      BY DEF File
    <3>2. FileKeepsUp
      BY <1>1, CallFacts
    <3> QED
      BY <1>6, <2>1, <3>1, <3>2 DEF FileKeepsUp
  <2> QED
    BY <1>1, <1>3, <2>1, <2>2, <2>3, <2>4, CallFacts DEF Called
<1>7. ASSUME Accept(new), Instantiate(new, x, d), Called, config' = new,
             failed' \subseteq Failures, multiplexers' \subseteq Multiplexer, UNCHANGED threads,
             failed' = {} => failed = {} /\ Current(multiplexers', new.interfaces)
      PROVE  IInv'
  <2>1. TypeOK'
    <3>1. /\ DOMAIN threads \subseteq Interfaces
          /\ \A i \in DOMAIN threads : Range(threads[i]) \subseteq DOMAIN object'
      BY <1>3, <1>7, InstantiateFacts, ThreadsTyped
    <3>2. DOMAIN instances' \subseteq Instances
      <4>1. DOMAIN instances' = DOMAIN instances \cup {x}
        BY <1>3, <1>7, InstantiateFacts
      <4> QED
        BY <4>1 DEF IInv, TypeOK
    <3>3. /\ object' \in Seq(ObjectState)
          /\ \A y \in DOMAIN instances' : instances'[y] \in DOMAIN object' /\ object'[instances'[y]].alive
      BY <1>3, <1>7, InstantiateFacts
    <3> QED
      BY <1>7, <3>1, <3>2, <3>3 DEF TypeOK, Called, FileTyped, ServersTyped, Failures
  <2>2. StaysConsistent' /\ FileKeepsUp'
    BY <1>7 DEF StaysConsistent, Called, FileTyped
  <2>3. MapIsInjective' /\ DownIsEmpty'
    BY <1>3, <1>7, InstantiateFacts DEF DownIsEmpty, Called
  <2>4. x \notin InstanceIds(config)
    BY <1>4, <1>7 DEF Accept
  <2>5. Consistent(config)
    BY DEF IInv, StaysConsistent
  <2>6. InterfacesServeConfig'
    <3> SUFFICES ASSUME failed' = {}
                 PROVE  /\ DOMAIN threads' = DOMAIN config'.interfaces
                        /\ \A i \in DOMAIN threads' :
                             \A y \in config'.interfaces[i] \cap DOMAIN instances' :
                               y \in DOMAIN threads'[i] /\ threads'[i][y] = instances'[y]
      BY DEF InterfacesServeConfig
    <3>1. /\ DOMAIN threads = DOMAIN config.interfaces
          /\ \A i \in DOMAIN threads :
               \A y \in config.interfaces[i] \cap DOMAIN instances :
                 y \in DOMAIN threads[i] /\ threads[i][y] = instances[y]
      BY <1>7 DEF IInv, InterfacesServeConfig, Called
    <3>2. \A i \in DOMAIN config.interfaces : x \notin config.interfaces[i]
      BY <2>4, <2>5, ConsistentFacts
    <3>3. /\ DOMAIN instances' = DOMAIN instances \cup {x}
          /\ \A y \in DOMAIN instances : y # x => instances'[y] = instances[y]
      BY <1>3, <1>7, InstantiateFacts
    <3> QED
      BY <1>3, <1>7, <3>1, <3>2, <3>3
  <2>7. SignalsReachInterfaces'
    BY <1>7 DEF SignalsReachInterfaces, Current
  <2>8. BridgesResolve'
    <3> SUFFICES ASSUME failed' = {}, NEW b \in Range(config'.bridges)
                 PROVE  /\ {b.caller, b.callee} \subseteq DOMAIN instances'
                        /\ \/ b.handle \in object'[instances'[b.caller]].cut
                           \/ Reaches(config', instances', object'[instances'[b.caller]], b)
      BY DEF BridgesResolve
    <3>1. b \in Range(config.bridges)
      BY <1>3, <1>7
    <3>2. /\ {b.caller, b.callee} \subseteq DOMAIN instances
          /\ \/ b.handle \in object[instances[b.caller]].cut
             \/ Reaches(config, instances, object[instances[b.caller]], b)
      BY <1>7, <3>1 DEF IInv, BridgesResolve, Called
    <3>3. b.caller # x /\ \A k \in Range(config.bridges) : k.callee # x
      BY <2>4, <2>5, <3>1, ConsistentFacts
    <3>4. instances[b.caller] \in DOMAIN object
      BY <3>2 DEF IInv, TypeOK
    <3>5. /\ DOMAIN instances' = DOMAIN instances \cup {x}
          /\ instances'[b.caller] = instances[b.caller]
          /\ object'[instances[b.caller]] = object[instances[b.caller]]
      BY <1>3, <1>7, <3>2, <3>3, <3>4, InstantiateFacts
    <3>6. \A y \in DOMAIN instances : y # x => instances'[y] = instances[y]
      BY <1>3, <1>7, InstantiateFacts
    <3>7. config'.bridges = config.bridges
      BY <1>3, <1>7
    <3> QED
      BY <3>2, <3>3, <3>5, <3>6, <3>7 DEF Reaches
  <2> QED
    BY <2>1, <2>2, <2>3, <2>6, <2>7, <2>8 DEF IInv
<1>8. failed \subseteq Failures /\ multiplexers \subseteq Multiplexer
  BY DEF IInv, TypeOK, Failures
<1>9. CASE Change(new)
  BY <1>1, <1>3, <1>9, ChangeKeeps
<1>10. CASE /\ Accept(new)
            /\ saved' \in {saved, File(new)}
            /\ failed' = failed \cup {"instantiate"}
            /\ UNCHANGED <<objects, surface, servers>>
  <2>1. Called
    BY <1>6, <1>10
  <2> QED
    BY <1>10, <2>1, FailKeeps DEF Failures
<1>11. CASE /\ Accept(new)
            /\ Instantiate(new, x, d)
            /\ saved' \in {saved, Truncated}
            /\ failed' = failed \cup {"save"}
            /\ UNCHANGED <<surface, servers>>
  <2>1. Called /\ config' = new
    BY <1>6, <1>11
  <2>2. failed' \subseteq Failures /\ failed' # {} /\ UNCHANGED <<threads, multiplexers>>
    BY <1>8, <1>11 DEF Failures, surface
  <2> QED
    BY <1>7, <1>8, <1>11, <2>1, <2>2
<1>12. CASE /\ Save(new)
            /\ Instantiate(new, x, d)
            /\ Multiplex(new)
            /\ UNCHANGED <<threads, servers, failed>>
  <2>1. Accept(new) /\ Called /\ config' = new
    BY <1>6, <1>12 DEF Save
  <2>2. Current(multiplexers', new.interfaces) /\ multiplexers' \subseteq Multiplexer
    BY <1>3, <1>8, <1>12, MultiplexFacts DEF Current
  <2> QED
    BY <1>7, <1>8, <1>12, <2>1, <2>2
<1> QED
  BY <1>5, <1>9, <1>10, <1>11, <1>12

\* kill of objects leaves the others.
LEMMA KilledFacts ==
  ASSUME NEW obj \in Seq(ObjectState), NEW os
  PROVE  /\ Killed(obj, os) \in Seq(ObjectState)
         /\ DOMAIN Killed(obj, os) = DOMAIN obj
         /\ \A o \in DOMAIN obj : /\ Killed(obj, os)[o].api = obj[o].api
                                  /\ Killed(obj, os)[o].cut = obj[o].cut
                                  /\ o \notin os => Killed(obj, os)[o] = obj[o]
                                  /\ o \in os => ~Killed(obj, os)[o].active
<1> DEFINE new == Killed(obj, os)
<1>1. DOMAIN obj = 1..Len(obj) /\ Len(obj) \in Nat
  OBVIOUS
<1>2. Stopped(obj, os) \in Seq(ObjectState) /\ DOMAIN Stopped(obj, os) = DOMAIN obj
  BY <1>1, StoppedFacts
<1>3. ASSUME NEW o \in DOMAIN obj
      PROVE  /\ new[o] \in ObjectState
             /\ new[o].api = obj[o].api
             /\ new[o].cut = obj[o].cut
             /\ o \notin os => new[o] = obj[o]
             /\ o \in os => ~new[o].active
  <2> DEFINE stop == Stopped(obj, os)[o]
  <2>1. obj[o] \in ObjectState
    OBVIOUS
  <2>2. stop \in ObjectState /\ stop.api = obj[o].api /\ stop.cut = obj[o].cut /\ (o \in os => ~stop.active)
    BY <1>2, StoppedFacts
  <2>3. new[o] = IF o \in os THEN [stop EXCEPT !.alive = FALSE] ELSE obj[o]
    BY DEF Killed
  <2> HIDE DEF stop
  <2> QED
    BY <2>1, <2>2, <2>3 DEF ObjectState
<1>4. DOMAIN new = DOMAIN obj /\ new = [o \in DOMAIN obj |-> new[o]]
  BY DEF Killed
<1> HIDE DEF new
<1>5. new \in [1..Len(obj) -> ObjectState]
  BY <1>1, <1>3, <1>4
<1>6. new \in Seq(ObjectState)
  BY <1>1, <1>5
<1> QED
  BY <1>3, <1>4, <1>6 DEF new

\* remove_instance.
LEMMA RemoveInstanceIInv ==
  ASSUME IInv, NEW x \in Instances, RemoveInstance(x)
  PROVE  IInv'
<1> DEFINE new == Without(config, {x})
<1>1. Call
  BY DEF RemoveInstance
<1>2. config \in Config
  BY <1>1, CallFacts
<1>3. /\ new \in Config
      /\ new.bridges = config.bridges
      /\ DOMAIN new.interfaces = DOMAIN config.interfaces
      /\ \A i \in DOMAIN config.interfaces : new.interfaces[i] = config.interfaces[i] \ {x}
      /\ InstanceIds(new) = InstanceIds(config) \ {x}
  BY <1>2, WithoutFacts
<1> HIDE DEF new
<1>4. CASE Change(new)
  BY <1>1, <1>3, <1>4, ChangeKeeps
<1>5. CASE /\ Save(new)
           /\ instances' = Restrict(instances, DOMAIN instances \ {x})
           /\ object' = Killed(object, ObjectsOf({x}))
           /\ Multiplex(new)
           /\ UNCHANGED <<threads, servers, failed>>
  <2>1. Called /\ config' = new
    <3>1. ServersTyped'
      BY <1>1, <1>5, CallFacts DEF ServersTyped
    <3> QED
      BY <1>1, <1>3, <1>5, <3>1, SaveFacts
  <2>2. /\ DOMAIN instances' = DOMAIN instances \ {x}
        /\ \A y \in DOMAIN instances' : instances'[y] = instances[y]
    BY <1>5 DEF Restrict
  <2>3. \A y \in DOMAIN instances : instances[y] \in DOMAIN object /\ object[instances[y]].alive
    BY DEF IInv, TypeOK
  <2>4. /\ object' \in Seq(ObjectState)
        /\ DOMAIN object' = DOMAIN object
        /\ \A o \in DOMAIN object : /\ object'[o].api = object[o].api
                                    /\ object'[o].cut = object[o].cut
                                    /\ o \notin ObjectsOf({x}) => object'[o] = object[o]
    <3>1. object \in Seq(ObjectState)
      BY DEF IInv, TypeOK
    <3> QED
      BY <1>5, <3>1, KilledFacts
  <2>12. Current(multiplexers', config'.interfaces)
    BY <1>3, <1>5, <2>1, MultiplexFacts DEF IInv, TypeOK
  <2>5. ASSUME NEW y \in DOMAIN instances'
        PROVE  instances'[y] \in DOMAIN object' /\ object'[instances'[y]].alive
    <3>1. y \in DOMAIN instances /\ y # x /\ instances'[y] = instances[y]
      BY <2>2
    <3>2. instances[y] \notin ObjectsOf({x})
      BY <3>1 DEF ObjectsOf, IInv, MapIsInjective
    <3> QED
      BY <2>3, <2>4, <3>1, <3>2
  <2>6. TypeOK'
    <3>1. /\ DOMAIN threads \subseteq Interfaces
          /\ \A i \in DOMAIN threads : Range(threads[i]) \subseteq DOMAIN object'
      BY <2>4, ThreadsTyped
    <3>2. DOMAIN instances' \subseteq Instances
      BY <2>2 DEF IInv, TypeOK
    <3>3. multiplexers' \subseteq Multiplexer
      BY <2>12, CurrentReaches
    <3>4. failed' \subseteq Failures
      BY <1>5 DEF IInv, TypeOK, Failures
    <3> QED
      BY <1>5, <2>1, <2>4, <2>5, <3>1, <3>2, <3>3, <3>4
      DEF TypeOK, Called, FileTyped, ServersTyped, Failures
  <2>7. StaysConsistent' /\ FileKeepsUp'
    BY <2>1 DEF StaysConsistent, Called, FileTyped
  <2>8. MapIsInjective' /\ DownIsEmpty'
    BY <2>1, <2>2 DEF IInv, MapIsInjective, DownIsEmpty, Called
  <2>9. InterfacesServeConfig'
    <3> SUFFICES ASSUME failed = {}
                 PROVE  /\ DOMAIN threads = DOMAIN config'.interfaces
                        /\ \A i \in DOMAIN threads :
                             \A y \in config'.interfaces[i] \cap DOMAIN instances' :
                               y \in DOMAIN threads[i] /\ threads[i][y] = instances'[y]
      BY <1>5 DEF InterfacesServeConfig
    <3>1. /\ DOMAIN threads = DOMAIN config.interfaces
          /\ \A i \in DOMAIN threads :
               \A y \in config.interfaces[i] \cap DOMAIN instances :
                 y \in DOMAIN threads[i] /\ threads[i][y] = instances[y]
      BY <2>1 DEF IInv, InterfacesServeConfig, Called
    <3> QED
      BY <1>3, <2>1, <2>2, <3>1
  <2>10. SignalsReachInterfaces'
    BY <2>12, CurrentReaches
  <2>11. BridgesResolve'
    <3> SUFFICES ASSUME failed = {}, NEW b \in Range(config'.bridges)
                 PROVE  /\ {b.caller, b.callee} \subseteq DOMAIN instances'
                        /\ \/ b.handle \in object'[instances'[b.caller]].cut
                           \/ Reaches(config', instances', object'[instances'[b.caller]], b)
      BY <1>5 DEF BridgesResolve
    <3>1. b \in Range(config.bridges)
      BY <1>3, <2>1
    <3>2. /\ {b.caller, b.callee} \subseteq DOMAIN instances
          /\ \/ b.handle \in object[instances[b.caller]].cut
             \/ Reaches(config, instances, object[instances[b.caller]], b)
      BY <2>1, <3>1 DEF IInv, BridgesResolve, Called
    <3>3. b.caller # x /\ b.callee # x /\ \A k \in Range(config.bridges) : k.callee # x
      <4>1. \A k \in Range(config'.bridges) : {k.caller, k.callee} \subseteq InstanceIds(config')
        BY <2>1, ConsistentFacts DEF Called
      <4> QED
        BY <1>3, <2>1, <4>1
    <3>4. instances'[b.caller] = instances[b.caller] /\ instances[b.caller] \in DOMAIN object
      BY <2>2, <2>3, <3>2, <3>3
    <3>5. config'.bridges = config.bridges
      BY <1>3, <2>1
    <3> QED
      BY <2>2, <2>4, <3>2, <3>3, <3>4, <3>5 DEF Reaches
  <2> QED
    BY <2>6, <2>7, <2>8, <2>9, <2>10, <2>11 DEF IInv
<1> QED
  BY <1>4, <1>5 DEF RemoveInstance, new

\* start_instance keeps the invariant.
LEMMA StartInstanceIInv ==
  ASSUME IInv, NEW x \in Instances, StartInstance(x)
  PROVE  IInv'
<1>1. Call
  BY DEF StartInstance
<1>2. CASE /\ x \in DOMAIN instances
           /\ object' = [object EXCEPT ![instances[x]].active = TRUE]
           /\ UNCHANGED <<config, saved, instances, surface, servers, failed>>
  <2>1. object \in Seq(ObjectState) /\ instances[x] \in DOMAIN object
    BY <1>2 DEF IInv, TypeOK
  <2>2. object[instances[x]] \in ObjectState
    BY <2>1
  <2>3. [object[instances[x]] EXCEPT !.active = TRUE] \in ObjectState
    BY <2>2 DEF ObjectState
  <2>4. /\ [object[instances[x]] EXCEPT !.active = TRUE].api = object[instances[x]].api
        /\ [object[instances[x]] EXCEPT !.active = TRUE].cut = object[instances[x]].cut
        /\ [object[instances[x]] EXCEPT !.active = TRUE].alive = object[instances[x]].alive
    BY <2>2 DEF ObjectState
  <2>5. Switched
    BY <1>2, <2>1, <2>3, <2>4 DEF Switched
  <2>6. ServersTyped'
    BY <1>1, <1>2, CallFacts DEF ServersTyped
  <2> QED
    BY <1>1, <1>2, <2>5, <2>6, SwitchKeeps
<1> QED
  BY <1>1, <1>2, RefusedIInv DEF StartInstance

\* stop_instance keeps the invariant.
LEMMA StopInstanceIInv ==
  ASSUME IInv, NEW x \in Instances, StopInstance(x)
  PROVE  IInv'
<1>1. Call
  BY DEF StopInstance
<1>2. CASE /\ object' = Stopped(object, {instances[x]})
           /\ UNCHANGED <<config, saved, instances, surface, servers, failed>>
  <2>1. object \in Seq(ObjectState)
    BY DEF IInv, TypeOK
  <2>2. Switched
    BY <1>2, <2>1, StoppedFacts DEF Switched
  <2>3. ServersTyped'
    BY <1>1, <1>2, CallFacts DEF ServersTyped
  <2> QED
    BY <1>1, <1>2, <2>2, <2>3, SwitchKeeps
<1> QED
  BY <1>1, <1>2, RefusedIInv DEF StopInstance

-----------------------------------------------------------------------------
(* Interfaces.                                                             *)

\* What remains to be shown when objects and bridges stay as they are.
LEMMA SurfaceKeeps ==
  ASSUME IInv, Called, UNCHANGED objects,
         config'.bridges = config.bridges,
         failed' \subseteq Failures, failed' = {} => failed = {},
         DOMAIN threads' \subseteq Interfaces, multiplexers' \subseteq Multiplexer,
         \A i \in DOMAIN threads' : Range(threads'[i]) \subseteq DOMAIN object,
         InterfacesServeConfig', SignalsReachInterfaces'
  PROVE  IInv'
<1>1. TypeOK'
  BY DEF IInv, TypeOK, Called, FileTyped, ServersTyped, Failures, objects
<1>2. StaysConsistent' /\ FileKeepsUp'
  BY DEF StaysConsistent, Called, FileTyped
<1>3. MapIsInjective' /\ DownIsEmpty'
  BY DEF IInv, MapIsInjective, DownIsEmpty, Called, objects
<1>4. BridgesResolve'
  BY DEF IInv, BridgesResolve, Reaches, Called, objects
<1> QED
  BY <1>1, <1>2, <1>3, <1>4 DEF IInv

\* start_interface of i and the restart of the multiplexer, where before are the
\* threads without the one of i.
LEMMA StartKeeps ==
  ASSUME IInv, Called, UNCHANGED objects, NEW i \in Interfaces, NEW before,
         \A j \in DOMAIN before : j \in DOMAIN threads /\ before[j] = threads[j],
         DOMAIN threads \ {i} \subseteq DOMAIN before,
         failed = {} => i \notin DOMAIN before,
         DOMAIN config'.interfaces = DOMAIN config.interfaces \cup {i},
         \A j \in DOMAIN config.interfaces : j # i => config'.interfaces[j] = config.interfaces[j],
         config'.bridges = config.bridges,
         StartInterface(config', before, i)
  PROVE  IInv'
<1> DEFINE serves == Serves(config', instances, i)
<1>1. \/ /\ threads' = Insert(before, i, serves)
         /\ Current(multiplexers', config'.interfaces)
         /\ failed' = failed
      \/ /\ threads' = before
         /\ multiplexers' = multiplexers
         /\ failed' = failed \cup {"bind"}
      \/ /\ i \in DOMAIN before
         /\ threads' = before
         /\ multiplexers' = multiplexers
         /\ failed' = failed
  <2>1. Multiplex(config') => Current(multiplexers', config'.interfaces)
    BY MultiplexFacts DEF IInv, TypeOK, Called
  <2> QED
    BY <2>1 DEF StartInterface
<1>2. /\ DOMAIN serves = config'.interfaces[i] \cap DOMAIN instances
      /\ \A x \in DOMAIN serves : serves[x] = instances[x]
      /\ Range(serves) \subseteq DOMAIN object
  <2>1. /\ DOMAIN serves = config'.interfaces[i] \cap DOMAIN instances
        /\ \A x \in DOMAIN serves : serves[x] = instances[x]
    BY DEF Serves
  <2>2. \A x \in DOMAIN instances : instances[x] \in DOMAIN object
    BY DEF IInv, TypeOK
  <2> HIDE DEF serves
  <2> QED
    BY <2>1, <2>2 DEF Range
<1>3. failed \subseteq Failures /\ DOMAIN threads \subseteq Interfaces /\ multiplexers \subseteq Multiplexer
  BY DEF IInv, TypeOK, Failures
<1>4. \A j \in DOMAIN threads : Range(threads[j]) \subseteq DOMAIN object
  BY DEF IInv, TypeOK
<1>5. DOMAIN config'.interfaces \subseteq Interfaces
  BY ConfigFields DEF Called
<1> HIDE DEF serves
<1>6. CASE /\ threads' = Insert(before, i, serves)
           /\ Current(multiplexers', config'.interfaces)
           /\ failed' = failed
  <2>1. /\ DOMAIN threads' = DOMAIN before \cup {i}
        /\ threads'[i] = serves
        /\ \A j \in DOMAIN before : j # i => threads'[j] = threads[j]
    BY <1>6 DEF Insert
  <2>2. DOMAIN threads' \subseteq Interfaces
    BY <1>3, <2>1
  <2>3. \A j \in DOMAIN threads' : Range(threads'[j]) \subseteq DOMAIN object
    BY <1>2, <1>4, <2>1
  <2>4. SignalsReachInterfaces' /\ multiplexers' \subseteq Multiplexer
    BY <1>6, CurrentReaches
  <2>5. InterfacesServeConfig'
    <3> SUFFICES ASSUME failed = {}
                 PROVE  /\ DOMAIN threads' = DOMAIN config'.interfaces
                        /\ \A j \in DOMAIN threads' :
                             \A x \in config'.interfaces[j] \cap DOMAIN instances :
                               x \in DOMAIN threads'[j] /\ threads'[j][x] = instances[x]
      BY <1>6 DEF InterfacesServeConfig, objects
    <3>1. /\ DOMAIN threads = DOMAIN config.interfaces
          /\ \A j \in DOMAIN threads :
               \A x \in config.interfaces[j] \cap DOMAIN instances :
                 x \in DOMAIN threads[j] /\ threads[j][x] = instances[x]
      BY DEF IInv, InterfacesServeConfig, Called
    <3>2. DOMAIN threads' = DOMAIN config'.interfaces
      BY <2>1, <3>1
    <3>3. ASSUME NEW j \in DOMAIN threads', NEW x \in config'.interfaces[j] \cap DOMAIN instances
          PROVE  x \in DOMAIN threads'[j] /\ threads'[j][x] = instances[x]
      <4>1. CASE j = i
        BY <1>2, <2>1, <4>1
      <4>2. CASE j # i
        BY <2>1, <3>1, <4>2
      <4> QED
        BY <4>1, <4>2
    <3> QED
      BY <3>2, <3>3
  <2> QED
    BY <1>3, <1>5, <1>6, <2>2, <2>3, <2>4, <2>5, SurfaceKeeps
<1>7. CASE threads' = before /\ multiplexers' = multiplexers /\ failed' # {} /\ failed' \subseteq Failures
  <2>1. InterfacesServeConfig' /\ SignalsReachInterfaces'
    BY <1>7 DEF InterfacesServeConfig, SignalsReachInterfaces
  <2>2. DOMAIN threads' \subseteq Interfaces
    BY <1>3, <1>7
  <2>3. \A j \in DOMAIN threads' : Range(threads'[j]) \subseteq DOMAIN object
    BY <1>4, <1>7
  <2> QED
    BY <1>3, <1>7, <2>1, <2>2, <2>3, SurfaceKeeps
<1> QED
  BY <1>1, <1>3, <1>6, <1>7 DEF Failures

\* A map of interfaces in a configuration can be replaced by another.
LEMMA WithInterfaces ==
  ASSUME NEW c \in Config, NEW f, DOMAIN f \subseteq Interfaces, f \in [DOMAIN f -> SUBSET Instances]
  PROVE  /\ [c EXCEPT !.interfaces = f] \in Config
         /\ [c EXCEPT !.interfaces = f].interfaces = f
         /\ [c EXCEPT !.interfaces = f].bridges = c.bridges
<1>1. f \in InterfaceMap
  BY InterfaceMaps
<1> QED
  BY <1>1 DEF Config

\* add_interface keeps the invariant.
LEMMA AddInterfaceIInv ==
  ASSUME IInv, NEW i \in Interfaces, AddInterface(i)
  PROVE  IInv'
<1> DEFINE ifs == Insert(config.interfaces, i, {})
           new == [config EXCEPT !.interfaces = ifs]
<1>1. Call
  BY DEF AddInterface
<1>2. /\ DOMAIN ifs = DOMAIN config.interfaces \cup {i}
      /\ \A j \in DOMAIN config.interfaces : j # i => ifs[j] = config.interfaces[j]
  BY DEF Insert
<1>3. DOMAIN ifs \subseteq Interfaces /\ ifs \in [DOMAIN ifs -> SUBSET Instances]
  <2>1. /\ DOMAIN config.interfaces \subseteq Interfaces
        /\ config.interfaces \in [DOMAIN config.interfaces -> SUBSET Instances]
    BY <1>1, CallFacts, ConfigFields
  <2> QED
    BY <2>1 DEF Insert
<1> HIDE DEF ifs
<1>4. new \in Config /\ new.interfaces = ifs /\ new.bridges = config.bridges
  BY <1>1, <1>3, CallFacts, WithInterfaces
<1>5. \/ Refuse
      \/ Change(new)
      \/ /\ i \notin DOMAIN config.interfaces
         /\ Save(new)
         /\ StartInterface(new, threads, i)
         /\ UNCHANGED <<objects, servers>>
  BY DEF AddInterface, ifs
<1> HIDE DEF new
<1>6. CASE /\ i \notin DOMAIN config.interfaces
           /\ Save(new)
           /\ StartInterface(new, threads, i)
           /\ UNCHANGED <<objects, servers>>
  <2>1. ServersTyped'
    BY <1>1, <1>6, CallFacts DEF ServersTyped
  <2>2. Called /\ config' = new
    BY <1>1, <1>4, <1>6, <2>1, SaveFacts
  <2>3. failed = {} => i \notin DOMAIN threads
    BY <1>6, <2>2 DEF IInv, InterfacesServeConfig, Called
  <2>4. StartInterface(config', threads, i)
    BY <1>6, <2>2
  <2> QED
    BY <1>2, <1>4, <1>6, <2>2, <2>3, <2>4, StartKeeps
<1> QED
  BY <1>1, <1>4, <1>5, <1>6, RefusedIInv, ChangeKeeps

\* remove_interface keeps the invariant.
LEMMA RemoveInterfaceIInv ==
  ASSUME IInv, NEW i \in Interfaces, RemoveInterface(i)
  PROVE  IInv'
<1> DEFINE ifs == Restrict(config.interfaces, DOMAIN config.interfaces \ {i})
           new == [config EXCEPT !.interfaces = ifs]
<1>1. Call
  BY DEF RemoveInterface
<1>2. /\ DOMAIN ifs = DOMAIN config.interfaces \ {i}
      /\ \A j \in DOMAIN ifs : ifs[j] = config.interfaces[j]
  BY DEF Restrict
<1>3. DOMAIN ifs \subseteq Interfaces /\ ifs \in [DOMAIN ifs -> SUBSET Instances]
  <2>1. /\ DOMAIN config.interfaces \subseteq Interfaces
        /\ config.interfaces \in [DOMAIN config.interfaces -> SUBSET Instances]
    BY <1>1, CallFacts, ConfigFields
  <2> QED
    BY <2>1 DEF Restrict
<1> HIDE DEF ifs
<1>4. new \in Config /\ new.interfaces = ifs /\ new.bridges = config.bridges
  BY <1>1, <1>3, CallFacts, WithInterfaces
<1>5. \/ Refuse
      \/ Change(new)
      \/ /\ Save(new)
         /\ threads' = Restrict(threads, DOMAIN threads \ {i})
         /\ Multiplex(new)
         /\ UNCHANGED <<objects, servers, failed>>
  BY DEF RemoveInterface, ifs
<1> HIDE DEF new
<1>6. CASE /\ Save(new)
           /\ threads' = Restrict(threads, DOMAIN threads \ {i})
           /\ Multiplex(new)
           /\ UNCHANGED <<objects, servers, failed>>
  <2>1. ServersTyped'
    BY <1>1, <1>6, CallFacts DEF ServersTyped
  <2>2. Called /\ config' = new /\ Current(multiplexers', config'.interfaces)
    BY <1>1, <1>4, <1>6, <2>1, SaveFacts, MultiplexFacts DEF IInv, TypeOK
  <2>3. /\ DOMAIN threads' = DOMAIN threads \ {i}
        /\ \A j \in DOMAIN threads' : threads'[j] = threads[j]
    BY <1>6 DEF Restrict
  <2>4. /\ DOMAIN threads \subseteq Interfaces /\ failed \subseteq Failures
        /\ \A j \in DOMAIN threads : Range(threads[j]) \subseteq DOMAIN object
    BY DEF IInv, TypeOK, Failures
  <2>5. SignalsReachInterfaces' /\ multiplexers' \subseteq Multiplexer
    BY <2>2, CurrentReaches
  <2>6. InterfacesServeConfig'
    <3> SUFFICES ASSUME failed = {}
                 PROVE  /\ DOMAIN threads' = DOMAIN config'.interfaces
                        /\ \A j \in DOMAIN threads' :
                             \A x \in config'.interfaces[j] \cap DOMAIN instances :
                               x \in DOMAIN threads'[j] /\ threads'[j][x] = instances[x]
      BY <1>6 DEF InterfacesServeConfig, objects
    <3>1. /\ DOMAIN threads = DOMAIN config.interfaces
          /\ \A j \in DOMAIN threads :
               \A x \in config.interfaces[j] \cap DOMAIN instances :
                 x \in DOMAIN threads[j] /\ threads[j][x] = instances[x]
      BY <2>2 DEF IInv, InterfacesServeConfig, Called
    <3> QED
      BY <1>2, <1>4, <2>2, <2>3, <3>1
  <2>7. DOMAIN threads' \subseteq Interfaces
    BY <2>3, <2>4
  <2>8. \A j \in DOMAIN threads' : Range(threads'[j]) \subseteq DOMAIN object
    BY <2>3, <2>4
  <2> QED
    BY <1>4, <1>6, <2>2, <2>4, <2>5, <2>6, <2>7, <2>8, SurfaceKeeps
<1> QED
  BY <1>1, <1>4, <1>5, <1>6, RefusedIInv, ChangeKeeps

\* The instances that one interface serves are changed.
LEMMA ReserveIInv ==
  ASSUME IInv, Call, NEW i \in DOMAIN config.interfaces, NEW S \in SUBSET Instances,
         Reserve([config EXCEPT !.interfaces[i] = S], i)
  PROVE  IInv'
<1> DEFINE ifs == [config.interfaces EXCEPT ![i] = S]
           new == [config EXCEPT !.interfaces = ifs]
           before == Restrict(threads, DOMAIN threads \ {i})
<1>1. /\ DOMAIN config.interfaces \subseteq Interfaces
      /\ config.interfaces \in [DOMAIN config.interfaces -> SUBSET Instances]
  BY CallFacts, ConfigFields
<1>2. /\ DOMAIN ifs = DOMAIN config.interfaces \cup {i}
      /\ \A j \in DOMAIN config.interfaces : j # i => ifs[j] = config.interfaces[j]
      /\ DOMAIN ifs \subseteq Interfaces /\ ifs \in [DOMAIN ifs -> SUBSET Instances]
  BY <1>1
<1>3. Reserve(new, i)
  OBVIOUS
<1> HIDE DEF ifs
<1>4. new \in Config /\ new.interfaces = ifs /\ new.bridges = config.bridges
  BY <1>2, CallFacts, WithInterfaces
<1> HIDE DEF new
<1>5. CASE Change(new)
  BY <1>4, <1>5, ChangeKeeps
<1>6. CASE /\ Save(new)
           /\ StartInterface(new, before, i)
           /\ UNCHANGED <<objects, servers>>
  <2>1. ServersTyped'
    BY <1>6, CallFacts DEF ServersTyped
  <2>2. Called /\ config' = new
    BY <1>4, <1>6, <2>1, SaveFacts
  <2>3. /\ DOMAIN before = DOMAIN threads \ {i}
        /\ \A j \in DOMAIN before : j \in DOMAIN threads /\ before[j] = threads[j]
    BY DEF Restrict
  <2>4. StartInterface(config', before, i)
    BY <1>6, <2>2
  <2> HIDE DEF before
  <2> QED
    BY <1>1, <1>2, <1>4, <1>6, <2>2, <2>3, <2>4, StartKeeps
<1> QED
  BY <1>3, <1>5, <1>6 DEF Reserve

\* add_instance_to_interface keeps the invariant.
LEMMA AddInstanceToInterfaceIInv ==
  ASSUME IInv, NEW i \in Interfaces, NEW x \in Instances, AddInstanceToInterface(i, x)
  PROVE  IInv'
<1>1. Call
  BY DEF AddInstanceToInterface
<1>2. CASE /\ i \in DOMAIN config.interfaces
           /\ Reserve([config EXCEPT !.interfaces[i] = @ \cup {x}], i)
  <2> DEFINE S == config.interfaces[i] \cup {x}
  <2>1. S \in SUBSET Instances
    BY <1>1, <1>2, CallFacts, ConfigFields
  <2>2. Reserve([config EXCEPT !.interfaces[i] = S], i)
    BY <1>2
  <2> HIDE DEF S
  <2> QED
    BY <1>1, <1>2, <2>1, <2>2, ReserveIInv
<1> QED
  BY <1>1, <1>2, RefusedIInv DEF AddInstanceToInterface

\* remove_instance_from_interface keeps the invariant.
LEMMA RemoveInstanceFromInterfaceIInv ==
  ASSUME IInv, NEW i \in Interfaces, NEW x \in Instances, RemoveInstanceFromInterface(i, x)
  PROVE  IInv'
<1>1. Call
  BY DEF RemoveInstanceFromInterface
<1>2. CASE /\ i \in DOMAIN config.interfaces
           /\ Reserve([config EXCEPT !.interfaces[i] = @ \ {x}], i)
  <2> DEFINE S == config.interfaces[i] \ {x}
  <2>1. S \in SUBSET Instances
    BY <1>1, <1>2, CallFacts, ConfigFields
  <2>2. Reserve([config EXCEPT !.interfaces[i] = S], i)
    BY <1>2
  <2> HIDE DEF S
  <2> QED
    BY <1>1, <1>2, <2>1, <2>2, ReserveIInv
<1> QED
  BY <1>1, <1>2, RefusedIInv DEF RemoveInstanceFromInterface

-----------------------------------------------------------------------------
(* Bridges.                                                                *)

\* add_bridge keeps the invariant.
LEMMA AddBridgeIInv ==
  ASSUME IInv, NEW b \in Bridge, AddBridge(b)
  PROVE  IInv'
<1> DEFINE bs == Append(config.bridges, b)
           new == [config EXCEPT !.bridges = bs]
           api == Callees(new, instances, b.caller)
           possible == CalleesPresent(new, instances, b.caller) /\ b.caller \in DOMAIN instances
<1>1. Call
  BY DEF AddBridge
<1>2. config.bridges \in Seq(Bridge) /\ config \in Config
  BY <1>1, CallFacts, ConfigFields
<1>3. bs \in Seq(Bridge) /\ Range(bs) = Range(config.bridges) \cup {b}
  <2>1. bs \in Seq(Bridge)
    BY <1>2
  <2>2. /\ DOMAIN bs = DOMAIN config.bridges \cup {Len(config.bridges) + 1}
        /\ \A n \in DOMAIN config.bridges : bs[n] = config.bridges[n]
        /\ bs[Len(config.bridges) + 1] = b
    BY <1>2
  <2> HIDE DEF bs
  <2> QED
    BY <2>1, <2>2 DEF Range
<1>4. \/ Refuse
      \/ Change(new)
      \/ /\ Save(new)
         /\ object' = IF possible THEN [object EXCEPT ![instances[b.caller]].api = api,
                                                  ![instances[b.caller]].cut = {}] ELSE object
         /\ failed' = IF possible THEN failed ELSE failed \cup {"api"}
         /\ UNCHANGED <<instances, surface, servers>>
  BY DEF AddBridge
<1> HIDE DEF bs
<1>5. new \in Config /\ new.bridges = bs /\ new.interfaces = config.interfaces
  BY <1>2, <1>3 DEF Config
<1> HIDE DEF new, api, possible
<1>6. CASE /\ Save(new)
           /\ object' = IF possible THEN [object EXCEPT ![instances[b.caller]].api = api,
                                                  ![instances[b.caller]].cut = {}] ELSE object
           /\ failed' = IF possible THEN failed ELSE failed \cup {"api"}
           /\ UNCHANGED <<instances, surface, servers>>
  <2>1. Called /\ config' = new
    <3>1. ServersTyped'
      BY <1>1, <1>6, CallFacts DEF ServersTyped
    <3> QED
      BY <1>1, <1>5, <1>6, <3>1, SaveFacts
  <2>2. CASE ~possible
    <3>1. UNCHANGED <<objects, surface>> /\ failed' = failed \cup {"api"}
      BY <1>6, <2>2 DEF objects
    <3> QED
      BY <2>1, <3>1, FailKeeps DEF Failures
  <2>3. CASE possible
    <3> DEFINE k == instances[b.caller]
               obj == [object[k] EXCEPT !.api = api, !.cut = {}]
    <3>1. /\ b.caller \in DOMAIN instances /\ k \in DOMAIN object
          /\ object \in Seq(ObjectState)
          /\ \A x \in DOMAIN instances : instances[x] \in DOMAIN object /\ object[instances[x]].alive
      BY <2>3 DEF possible, IInv, TypeOK
    <3>2. /\ api \in [Handles -> Nat]
          /\ \A c \in Range(new.bridges) : c.caller = b.caller =>
               \E j \in Range(new.bridges) :
                 /\ j.caller = b.caller /\ j.handle = c.handle /\ j.callee \in DOMAIN instances
                 /\ api[c.handle] = instances[j.callee]
      <4>1. \A x \in DOMAIN instances : instances[x] \in Nat \ {0}
        BY <3>1
      <4> QED
        BY <1>5, <2>3, <4>1, CalleesFacts DEF possible, api
    <3>3. obj \in ObjectState /\ obj.api = api /\ obj.alive = object[k].alive
      <4>1. object[k] \in ObjectState
        BY <3>1
      <4> HIDE DEF k
      <4> QED
        BY <3>2, <4>1 DEF ObjectState
    <3>4. object' = [object EXCEPT ![k] = obj]
      BY <1>6, <2>3
    <3> HIDE DEF obj, k
    <3>5. /\ object' \in Seq(ObjectState) /\ DOMAIN object' = DOMAIN object
          /\ object'[k] = obj
          /\ \A o \in DOMAIN object : o # k => object'[o] = object[o]
      BY <3>1, <3>3, <3>4
    <3>6. UNCHANGED <<instances, threads, multiplexers, failed>>
      BY <1>6, <2>3 DEF surface
    <3>7. TypeOK'
      <4>1. \A x \in DOMAIN instances : instances[x] \in DOMAIN object' /\ object'[instances[x]].alive
        BY <3>1, <3>3, <3>5
      <4>2. \A i \in DOMAIN threads : Range(threads[i]) \subseteq DOMAIN object'
        BY <3>5, ThreadsTyped
      <4> QED
        BY <2>1, <3>5, <3>6, <4>1, <4>2 DEF IInv, TypeOK, Called, FileTyped, ServersTyped
    <3>8. StaysConsistent' /\ FileKeepsUp'
      BY <2>1 DEF StaysConsistent, Called, FileTyped
    <3>9. MapIsInjective' /\ DownIsEmpty'
      BY <2>1, <3>6 DEF IInv, MapIsInjective, DownIsEmpty, Called
    <3>10. InterfacesServeConfig' /\ SignalsReachInterfaces'
      BY <1>5, <2>1, <3>6 DEF IInv, InterfacesServeConfig, SignalsReachInterfaces, Called
    <3>11. BridgesResolve'
      <4> SUFFICES ASSUME failed = {}, NEW c \in Range(new.bridges)
                   PROVE  /\ {c.caller, c.callee} \subseteq DOMAIN instances
                          /\ \/ c.handle \in object'[instances[c.caller]].cut
                             \/ Reaches(config', instances, object'[instances[c.caller]], c)
        BY <2>1, <3>6 DEF BridgesResolve
      <4>1. CASE c.caller = b.caller
        <5>1. c.callee \in DOMAIN instances
          BY <2>3, <4>1 DEF possible, CalleesPresent
        <5>2. object'[instances[c.caller]].api = api
          BY <3>3, <3>5, <4>1 DEF k
        <5>3. Reaches(config', instances, object'[instances[c.caller]], c)
          BY <2>1, <3>2, <4>1, <5>2 DEF Reaches
        <5> QED
          BY <3>1, <4>1, <5>1, <5>3
      <4>2. CASE c.caller # b.caller
        <5>1. c \in Range(config.bridges)
          BY <1>3, <1>5, <4>2
        <5>2. /\ {c.caller, c.callee} \subseteq DOMAIN instances
              /\ \/ c.handle \in object[instances[c.caller]].cut
                 \/ Reaches(config, instances, object[instances[c.caller]], c)
          BY <2>1, <5>1 DEF IInv, BridgesResolve, Called
        <5>3. instances[c.caller] # k
          BY <3>1, <4>2, <5>2 DEF k, IInv, MapIsInjective
        <5>4. Range(config.bridges) \subseteq Range(config'.bridges)
          BY <1>3, <1>5, <2>1
        <5> QED
          BY <3>1, <3>5, <5>2, <5>3, <5>4 DEF Reaches
      <4> QED
        BY <4>1, <4>2
    <3> QED
      BY <3>7, <3>8, <3>9, <3>10, <3>11 DEF IInv
  <2> QED
    BY <2>2, <2>3
<1> QED
  BY <1>1, <1>4, <1>5, <1>6, RefusedIInv, ChangeKeeps

\* remove_bridge keeps the invariant: what the caller's conductor api still holds
\* of the removed bridge is marked as cut.
LEMMA RemoveBridgeIInv ==
  ASSUME IInv, NEW x \in Instances, NEW y \in Instances, RemoveBridge(x, y)
  PROVE  IInv'
<1> DEFINE S == {b \in Range(config.bridges) : b.caller # x \/ b.callee # y}
           gone == {b \in Range(config.bridges) : b.caller = x /\ b.callee = y}
           hs == {b.handle : b \in gone}
           bs == Only(config.bridges, S)
           new == [config EXCEPT !.bridges = bs]
<1>1. Call
  BY DEF RemoveBridge
<1>2. config.bridges \in Seq(Bridge) /\ config \in Config
  BY <1>1, CallFacts, ConfigFields
<1>3. \/ Refuse
      \/ Change(new)
      \/ /\ Save(new)
         /\ object' = Cut(object, x, hs)
         /\ UNCHANGED <<instances, surface, servers, failed>>
  BY DEF RemoveBridge, Unbridged
<1>4. bs \in Seq(Bridge) /\ Range(bs) = S
  <2>1. S = Range(config.bridges) \cap S
    OBVIOUS
  <2> HIDE DEF S
  <2> QED
    BY <1>2, <2>1, OnlyFacts
<1> HIDE DEF bs
<1>5. new \in Config /\ new.bridges = bs /\ new.interfaces = config.interfaces
  BY <1>2, <1>4 DEF Config
<1>6. hs \subseteq Handles
  <2>1. \A b \in Range(config.bridges) : b \in Bridge
    BY <1>2 DEF Range
  <2> QED
    BY <2>1 DEF Bridge
<1>7. \A b \in Range(config.bridges) : b \in S \/ (b.caller = x /\ b.handle \in hs)
  OBVIOUS
<1> HIDE DEF new, hs, gone
<1>8. CASE /\ Save(new)
           /\ object' = Cut(object, x, hs)
           /\ UNCHANGED <<instances, surface, servers, failed>>
  <2>1. Called /\ config' = new
    <3>1. ServersTyped'
      BY <1>1, <1>8, CallFacts DEF ServersTyped
    <3> QED
      BY <1>1, <1>5, <1>8, <3>1, SaveFacts
  <2>2. object \in Seq(ObjectState)
    BY DEF IInv, TypeOK
  <2>3. ASSUME NEW o \in DOMAIN object
        PROVE  /\ object'[o] \in ObjectState
               /\ object'[o].api = object[o].api /\ object'[o].alive = object[o].alive
               /\ object[o].cut \subseteq object'[o].cut
               /\ x \in DOMAIN instances /\ o = instances[x] => hs \subseteq object'[o].cut
    <3>1. object[o] \in ObjectState
      BY <2>2
    <3>2. object'[o] = IF x \in DOMAIN instances /\ o = instances[x]
                       THEN [object[o] EXCEPT !.cut = @ \cup hs] ELSE object[o]
      BY <1>8 DEF Cut
    <3> QED
      BY <1>6, <3>1, <3>2 DEF ObjectState
  <2>4. object' \in Seq(ObjectState) /\ DOMAIN object' = DOMAIN object
    <3>1. DOMAIN object = 1..Len(object) /\ Len(object) \in Nat
      BY <2>2
    <3>2. DOMAIN object' = DOMAIN object /\ object' = [o \in DOMAIN object |-> object'[o]]
      BY <1>8 DEF Cut
    <3>3. object' \in [1..Len(object) -> ObjectState]
      BY <2>3, <3>1, <3>2
    <3> QED
      BY <3>1, <3>2, <3>3
  <2>5. UNCHANGED <<instances, threads, multiplexers, failed>>
    BY <1>8 DEF surface
  <2>6. TypeOK'
    <3>1. \A z \in DOMAIN instances : instances[z] \in DOMAIN object' /\ object'[instances[z]].alive
      BY <2>3, <2>4 DEF IInv, TypeOK
    <3>2. \A i \in DOMAIN threads : Range(threads[i]) \subseteq DOMAIN object'
      BY <2>4, ThreadsTyped
    <3> QED
      BY <2>1, <2>4, <2>5, <3>1, <3>2 DEF IInv, TypeOK, Called, FileTyped, ServersTyped
  <2>7. StaysConsistent' /\ FileKeepsUp'
    BY <2>1 DEF StaysConsistent, Called, FileTyped
  <2>8. MapIsInjective' /\ DownIsEmpty'
    BY <2>1, <2>5 DEF IInv, MapIsInjective, DownIsEmpty, Called
  <2>9. InterfacesServeConfig' /\ SignalsReachInterfaces'
    BY <1>5, <2>1, <2>5 DEF IInv, InterfacesServeConfig, SignalsReachInterfaces, Called
  <2>10. BridgesResolve'
    <3> SUFFICES ASSUME failed = {}, NEW b \in Range(config'.bridges)
                 PROVE  /\ {b.caller, b.callee} \subseteq DOMAIN instances
                        /\ \/ b.handle \in object'[instances[b.caller]].cut
                           \/ Reaches(config', instances, object'[instances[b.caller]], b)
      BY <2>5 DEF BridgesResolve
    <3>1. Range(config'.bridges) = S /\ b \in Range(config.bridges)
      BY <1>4, <1>5, <2>1
    <3>2. /\ {b.caller, b.callee} \subseteq DOMAIN instances
          /\ \/ b.handle \in object[instances[b.caller]].cut
             \/ Reaches(config, instances, object[instances[b.caller]], b)
      BY <2>1, <3>1 DEF IInv, BridgesResolve, Called
    <3>3. instances[b.caller] \in DOMAIN object
      BY <3>2 DEF IInv, TypeOK
    <3> HIDE DEF S
    <3> QED
      BY <1>7, <2>3, <3>1, <3>2, <3>3 DEF Reaches
  <2> QED
    BY <2>6, <2>7, <2>8, <2>9, <2>10 DEF IInv
<1> QED
  BY <1>1, <1>3, <1>5, <1>8, RefusedIInv, ChangeKeeps

-----------------------------------------------------------------------------
(* UI bundles and interfaces.                                              *)

\* install_ui_bundle keeps the invariant.
LEMMA InstallUiBundleIInv ==
  ASSUME IInv, NEW u \in Bundles, InstallUiBundle(u)
  PROVE  IInv'
<1> DEFINE new == [config EXCEPT !.bundles = @ \cup {u}]
<1>1. Call /\ ChangeOnly(new)
  BY DEF InstallUiBundle
<1>2. new \in Config /\ new.interfaces = config.interfaces /\ new.bridges = config.bridges
  BY <1>1, CallFacts DEF Config
<1> HIDE DEF new
<1> QED
  BY <1>1, <1>2, ChangeOnlyKeeps

\* A change of the UI interfaces that is saved.
LEMMA UisKeep ==
  ASSUME IInv, Call, NEW U \in SUBSET UiInterface, Save([config EXCEPT !.uis = U]),
         UNCHANGED <<objects, surface, failed>>, ServersTyped'
  PROVE  IInv'
<1> DEFINE new == [config EXCEPT !.uis = U]
<1>1. new \in Config /\ new.interfaces = config.interfaces /\ new.bridges = config.bridges
  BY CallFacts DEF Config
<1>2. Save(new)
  OBVIOUS
<1> HIDE DEF new
<1>3. UNCHANGED <<instances, object, surface, failed>>
  BY DEF objects
<1> QED
  BY <1>1, <1>2, <1>3, NotSwitched, SmallerKeeps

\* add_ui_interface keeps the invariant.
LEMMA AddUiInterfaceIInv ==
  ASSUME IInv, NEW v \in UiInterfaces, NEW u \in Bundles, NEW S \in Connection,
         AddUiInterface(v, u, S)
  PROVE  IInv'
<1> DEFINE U == config.uis \cup {[id |-> v, bundle |-> u, dna |-> S]}
           new == [config EXCEPT !.uis = U]
<1>1. Call
  BY DEF AddUiInterface
<1>2. config \in Config /\ U \in SUBSET UiInterface
  <2>1. [id |-> v, bundle |-> u, dna |-> S] \in UiInterface
    BY DEF UiInterface
  <2> QED
    BY <1>1, <2>1, CallFacts, ConfigFields
<1>3. \/ Change(new)
      \/ /\ Save(new)
         /\ servers' = Insert(servers, v, "new")
         /\ UNCHANGED <<objects, surface, failed>>
  BY DEF AddUiInterface
<1> HIDE DEF U
<1>4. new \in Config
  BY <1>2 DEF Config
<1>5. CASE /\ Save(new)
           /\ servers' = Insert(servers, v, "new")
           /\ UNCHANGED <<objects, surface, failed>>
  <2>1. ServersTyped'
    <3>1. ServersTyped
      BY <1>1, CallFacts
    <3> QED
      BY <1>5, <3>1 DEF ServersTyped, Insert, ServerState
  <2> QED
    BY <1>1, <1>2, <1>5, <2>1, UisKeep
<1> QED
  BY <1>1, <1>3, <1>4, <1>5, ChangeKeeps

\* Stopping a static server, or dropping servers, leaves the others.
LEMMA ServersLeft ==
  ASSUME ServersTyped, NEW v, NEW D \in SUBSET DOMAIN servers
  PROVE  /\ DOMAIN ServerStopped(v) = DOMAIN servers
         /\ \A w \in DOMAIN servers : w \in UiInterfaces /\ ServerStopped(v)[w] \in ServerState
         /\ \A w \in DOMAIN Restrict(servers, D) :
              w \in UiInterfaces /\ Restrict(servers, D)[w] \in ServerState
         /\ \A w \in DOMAIN Restrict(ServerStopped(v), D) :
              w \in UiInterfaces /\ Restrict(ServerStopped(v), D)[w] \in ServerState
<1>1. /\ DOMAIN ServerStopped(v) = DOMAIN servers
      /\ \A w \in DOMAIN servers : w \in UiInterfaces /\ ServerStopped(v)[w] \in ServerState
  BY DEF ServerStopped, ServersTyped, ServerState
<1>2. \A w \in DOMAIN servers : w \in UiInterfaces /\ servers[w] \in ServerState
  BY DEF ServersTyped
<1> QED
  BY <1>1, <1>2 DEF Restrict

\* remove_ui_interface keeps the invariant.
LEMMA RemoveUiInterfaceIInv ==
  ASSUME IInv, NEW v \in UiInterfaces, RemoveUiInterface(v)
  PROVE  IInv'
<1> DEFINE mine == {w \in config.uis : w.id = v}
           U == config.uis \ mine
           new == [config EXCEPT !.uis = U]
<1>1. Call
  BY DEF RemoveUiInterface
<1>2. config \in Config /\ U \in SUBSET UiInterface
  BY <1>1, CallFacts, ConfigFields
<1>3. \/ Refuse
      \/ SaveFails(new) /\ (servers' = servers \/ servers' = ServerStopped(v))
      \/ /\ Save(new)
         /\ servers' = Restrict(servers, DOMAIN servers \ {v})
         /\ UNCHANGED <<objects, surface, failed>>
  BY DEF RemoveUiInterface
<1> HIDE DEF U
<1>4. new \in Config
  BY <1>2 DEF Config
<1>5. ServersTyped /\ FileTyped
  BY <1>1, CallFacts
<1>6. CASE SaveFails(new) /\ (servers' = servers \/ servers' = ServerStopped(v))
  <2>1. ServersTyped'
    BY <1>5, <1>6, ServersLeft DEF ServersTyped
  <2> HIDE DEF new
  <2> QED
    BY <1>1, <1>4, <1>5, <1>6, <2>1, SaveFailsKeeps DEF SaveFails, FileTyped
<1>7. CASE /\ Save(new)
           /\ servers' = Restrict(servers, DOMAIN servers \ {v})
           /\ UNCHANGED <<objects, surface, failed>>
  <2>1. ServersTyped'
    BY <1>5, <1>7, ServersLeft DEF ServersTyped
  <2> QED
    BY <1>1, <1>2, <1>7, <2>1, UisKeep
<1> QED
  BY <1>1, <1>3, <1>6, <1>7, RefusedIInv

\* uninstall_ui_bundle, stopping at any of the removals it makes.
LEMMA UninstallUiBundleIInv ==
  ASSUME IInv, NEW u \in Bundles, UninstallUiBundle(u)
  PROVE  IInv'
<1> DEFINE mine == {w.id : w \in {i \in config.uis : i.bundle = u}}
           left(ids) == {w \in config.uis : w.id \notin ids}
           Fewer(ids) == [config EXCEPT !.uis = left(ids)]
           bare == [config EXCEPT !.bundles = @ \ {u}]
<1>1. Call
  BY DEF UninstallUiBundle
<1>2. config \in Config /\ Consistent(config) /\ ServersTyped /\ FileTyped
  BY <1>1, CallFacts
<1>3. \A ids : left(ids) \in SUBSET config.uis /\ left(ids) \in SUBSET UiInterface
  BY <1>2, ConfigFields
<1>4. ASSUME NEW ids
      PROVE  Fewer(ids) \in Config /\ Consistent(Fewer(ids))
  <2> HIDE DEF left
  <2> QED
    BY <1>2, <1>3, FewerUis
<1>5. bare \in Config /\ bare.interfaces = config.interfaces /\ bare.bridges = config.bridges
  BY <1>2 DEF Config
<1>6. \/ Refuse
      \/ ChangeOnly(bare)
      \/ \E gone \in SUBSET mine :
           /\ IF gone = {} THEN UNCHANGED <<config, saved>> ELSE Save(Fewer(gone))
           /\ servers' = Restrict(servers, DOMAIN servers \ gone)
           /\ UNCHANGED <<objects, surface, failed>>
      \/ \E gone \in (SUBSET mine) \ {{}}, v \in mine :
           /\ SaveFailsOver(Fewer(gone), IF gone = {v} THEN saved ELSE File(Fewer(gone \ {v})))
           /\ servers' = Restrict(ServerStopped(v), DOMAIN servers \ (gone \ {v}))
  BY DEF UninstallUiBundle
<1> HIDE DEF bare, left
<1>7. CASE \E gone \in SUBSET mine :
             /\ IF gone = {} THEN UNCHANGED <<config, saved>> ELSE Save(Fewer(gone))
             /\ servers' = Restrict(servers, DOMAIN servers \ gone)
             /\ UNCHANGED <<objects, surface, failed>>
  <2>1. PICK gone \in SUBSET mine :
          /\ IF gone = {} THEN UNCHANGED <<config, saved>> ELSE Save(Fewer(gone))
          /\ servers' = Restrict(servers, DOMAIN servers \ gone)
          /\ UNCHANGED <<objects, surface, failed>>
    BY <1>7
  <2>2. ServersTyped'
    BY <1>2, <2>1, ServersLeft DEF ServersTyped
  <2>3. CASE UNCHANGED <<config, saved>>
    <3>1. UNCHANGED <<config, saved, instances, object, surface, failed>>
      BY <2>1, <2>3 DEF objects
    <3> QED
      BY <1>1, <2>2, <3>1, NotSwitched, SwitchKeeps
  <2>4. CASE Save(Fewer(gone))
    BY <1>1, <1>3, <2>1, <2>2, <2>4, UisKeep
  <2> QED
    BY <2>1, <2>3, <2>4
<1>8. CASE \E gone \in (SUBSET mine) \ {{}}, v \in mine :
             /\ SaveFailsOver(Fewer(gone), IF gone = {v} THEN saved ELSE File(Fewer(gone \ {v})))
             /\ servers' = Restrict(ServerStopped(v), DOMAIN servers \ (gone \ {v}))
  <2>1. PICK gone \in (SUBSET mine) \ {{}}, v \in mine :
          /\ SaveFailsOver(Fewer(gone), IF gone = {v} THEN saved ELSE File(Fewer(gone \ {v})))
          /\ servers' = Restrict(ServerStopped(v), DOMAIN servers \ (gone \ {v}))
    BY <1>8
  <2> DEFINE old == IF gone = {v} THEN saved ELSE File(Fewer(gone \ {v}))
             new == Fewer(gone)
  <2>2. old \in [whole : BOOLEAN, config : Config] /\ Consistent(old.config)
    <3>1. Fewer(gone \ {v}) \in Config /\ Consistent(Fewer(gone \ {v}))
      BY <1>4
    <3> HIDE DEF Fewer
    <3> QED
      BY <1>2, <3>1 DEF FileTyped, File
  <2>3. new \in Config /\ SaveFailsOver(new, old)
    BY <1>4, <2>1
  <2>4. ServersTyped'
    BY <1>2, <2>1, ServersLeft DEF ServersTyped
  <2> HIDE DEF old, new
  <2> QED
    BY <1>1, <2>2, <2>3, <2>4, SaveFailsKeeps
<1> QED
  BY <1>1, <1>5, <1>6, <1>7, <1>8, RefusedIInv, ChangeOnlyKeeps

\* start_ui_interface keeps the invariant.
LEMMA StartUiInterfaceIInv ==
  ASSUME IInv, NEW v \in UiInterfaces, StartUiInterface(v)
  PROVE  IInv'
<1>1. Call
  BY DEF StartUiInterface
<1>2. CASE /\ v \in DOMAIN servers
           /\ servers' = [servers EXCEPT ![v] = "running"]
           /\ UNCHANGED <<config, saved, objects, surface, failed>>
  <2>1. ServersTyped
    BY <1>1, CallFacts
  <2>2. ServersTyped'
    BY <1>2, <2>1 DEF ServersTyped, ServerState
  <2>3. UNCHANGED <<config, saved, instances, object, surface, failed>>
    BY <1>2 DEF objects
  <2> QED
    BY <1>1, <2>2, <2>3, NotSwitched, SwitchKeeps
<1> QED
  BY <1>1, <1>2, RefusedIInv DEF StartUiInterface

\* stop_ui_interface keeps the invariant.
LEMMA StopUiInterfaceIInv ==
  ASSUME IInv, NEW v \in UiInterfaces, StopUiInterface(v)
  PROVE  IInv'
<1>1. /\ Call
      /\ servers' = ServerStopped(v)
      /\ UNCHANGED <<config, saved, instances, object, surface, failed>>
  BY DEF StopUiInterface, objects
<1>2. ServersTyped'
  <2>1. ServersTyped
    BY <1>1, CallFacts
  <2> QED
    BY <1>1, <2>1, ServersLeft DEF ServersTyped
<1> QED
  BY <1>1, <1>2, NotSwitched, SwitchKeeps

-----------------------------------------------------------------------------
(* The process.                                                            *)

\* What is started from a file that can be started agrees with it.
LEMMA BootIInv ==
  ASSUME IInv, Boot
  PROVE  IInv'
<1> DEFINE c == saved.config
           map == [x \in InstanceIds(c) |-> Position(c, x)]
<1>1. Consistent(c) /\ c \in Config /\ FileTyped'
  BY DEF Boot, Bootable, IInv, TypeOK, FileTyped, StaysConsistent
<1>2. c.instances \in Seq(InstanceConfig)
  BY <1>1, ConfigFields
<1>3. /\ config' = c /\ instances' = map
      /\ object' = [o \in DOMAIN c.instances |->
           [dna |-> c.instances[o].dna, alive |-> TRUE, active |-> TRUE, network |-> TRUE,
            api |-> Callees(c, map, c.instances[o].id), cut |-> {}]]
      /\ threads' = [i \in DOMAIN c.interfaces |-> Serves(c, map, i)]
      /\ multiplexers' = {[interfaces |-> c.interfaces, killed |-> FALSE]}
      /\ servers' = [v \in {w.id : w \in c.uis} |-> "running"]
      /\ up' = TRUE /\ failed' = {} /\ ops' = ops
  BY DEF Boot
<1> HIDE DEF c
<1>4. ASSUME NEW x \in InstanceIds(c)
      PROVE  Position(c, x) \in DOMAIN c.instances /\ c.instances[Position(c, x)].id = x
  <2>1. \E n \in DOMAIN c.instances : c.instances[n].id = x
    BY DEF InstanceIds, Range
  <2> QED
    BY <2>1 DEF Position
<1>5. DOMAIN map = InstanceIds(c) /\ \A x \in InstanceIds(c) : map[x] = Position(c, x)
  OBVIOUS
<1> HIDE DEF map
<1>6. \A y \in DOMAIN map : map[y] \in Nat \ {0}
  BY <1>2, <1>4, <1>5
<1>7. \A x : CalleesPresent(c, map, x)
  BY <1>1, <1>5, ConsistentFacts DEF CalleesPresent
<1>8. ASSUME NEW x
      PROVE  /\ Callees(c, map, x) \in [Handles -> Nat]
             /\ \A b \in Range(c.bridges) : b.caller = x =>
                  \E k \in Range(c.bridges) :
                    /\ k.caller = x /\ k.handle = b.handle /\ k.callee \in DOMAIN map
                    /\ Callees(c, map, x)[b.handle] = map[k.callee]
  BY <1>1, <1>6, <1>7, CalleesFacts
<1>9. /\ object' \in Seq(ObjectState) /\ DOMAIN object' = DOMAIN c.instances
      /\ \A o \in DOMAIN c.instances : /\ object'[o].alive
                                       /\ object'[o].api = Callees(c, map, c.instances[o].id)
  <2>1. ASSUME NEW o \in DOMAIN c.instances
        PROVE  [dna |-> c.instances[o].dna, alive |-> TRUE, active |-> TRUE, network |-> TRUE,
                api |-> Callees(c, map, c.instances[o].id), cut |-> {}] \in ObjectState
    <3>1. c.instances[o] \in InstanceConfig
      BY <1>2
    <3>2. c.instances[o].dna \in Dnas
      BY <3>1 DEF InstanceConfig
    <3> QED
      BY <1>8, <3>2 DEF ObjectState
  <2>2. DOMAIN c.instances = 1..Len(c.instances) /\ Len(c.instances) \in Nat
    BY <1>2
  <2>3. object' \in [1..Len(c.instances) -> ObjectState]
    BY <1>3, <2>1, <2>2
  <2>4. object' \in Seq(ObjectState)
    BY <2>2, <2>3
  <2> QED
    BY <1>3, <2>4
<1>10. \A x \in DOMAIN instances' : instances'[x] \in DOMAIN object' /\ object'[instances'[x]].alive
  BY <1>3, <1>4, <1>5, <1>9
<1>11. /\ DOMAIN threads' = DOMAIN c.interfaces
       /\ \A i \in DOMAIN threads' :
            /\ DOMAIN threads'[i] = c.interfaces[i] \cap DOMAIN map
            /\ \A x \in DOMAIN threads'[i] : threads'[i][x] = map[x]
  BY <1>3 DEF Serves
<1>12. TypeOK'
  <2>1. DOMAIN instances' \subseteq Instances
    <3>1. \A i \in Range(c.instances) : i \in InstanceConfig
      BY <1>2 DEF Range
    <3> QED
      BY <1>3, <1>5, <3>1 DEF InstanceIds, InstanceConfig
  <2>2. \A i \in DOMAIN threads' : Range(threads'[i]) \subseteq DOMAIN object'
    <3> SUFFICES ASSUME NEW i \in DOMAIN threads', NEW x \in DOMAIN threads'[i]
                 PROVE  threads'[i][x] \in DOMAIN object'
      BY DEF Range
    <3>1. x \in DOMAIN map /\ threads'[i][x] = map[x]
      BY <1>11
    <3>2. instances' = map
      BY <1>3
    <3> QED
      BY <1>10, <3>1, <3>2
  <2>3. DOMAIN threads' \subseteq Interfaces /\ multiplexers' \subseteq Multiplexer
    BY <1>1, <1>3, ConfigFields DEF Multiplexer
  <2>4. ServersTyped'
    <3>1. \A w \in c.uis : w.id \in UiInterfaces
      BY <1>1, ConfigFields DEF UiInterface
    <3> QED
      BY <1>3, <3>1 DEF ServersTyped, ServerState
  <2>5. ops \in 0..MaxOps
    BY DEF IInv, TypeOK
  <2> QED
    BY <1>1, <1>3, <1>9, <1>10, <2>1, <2>2, <2>3, <2>4, <2>5 DEF TypeOK, FileTyped, ServersTyped
<1>13. StaysConsistent' /\ FileKeepsUp'
  <2>1. StaysConsistent'
    BY <1>1, <1>3 DEF StaysConsistent, FileTyped
  <2>2. saved.whole /\ saved' = saved
    BY DEF Boot, Bootable
  <2>3. saved = File(c)
    BY <2>2 DEF IInv, TypeOK, File, c
  <2> QED
    BY <1>3, <2>1, <2>2, <2>3 DEF FileKeepsUp
<1>14. InterfacesServeConfig'
  <2>1. config' = c /\ instances' = map
    BY <1>3
  <2> SUFFICES ASSUME NEW i \in DOMAIN threads', NEW x \in c.interfaces[i] \cap DOMAIN map
               PROVE  x \in DOMAIN threads'[i] /\ threads'[i][x] = map[x]
    BY <1>11, <2>1 DEF InterfacesServeConfig
  <2> QED
    BY <1>11
<1>15. SignalsReachInterfaces'
  BY <1>3 DEF SignalsReachInterfaces
<1>16. BridgesResolve'
  <2> SUFFICES ASSUME NEW b \in Range(c.bridges)
               PROVE  /\ {b.caller, b.callee} \subseteq DOMAIN map
                      /\ Reaches(c, map, object'[map[b.caller]], b)
    BY <1>3 DEF BridgesResolve
  <2>1. {b.caller, b.callee} \subseteq DOMAIN map
    BY <1>1, <1>5, ConsistentFacts
  <2>2. map[b.caller] \in DOMAIN c.instances /\ c.instances[map[b.caller]].id = b.caller
    BY <1>4, <1>5, <2>1
  <2>3. object'[map[b.caller]].api = Callees(c, map, b.caller)
    BY <1>9, <2>2
  <2> QED
    BY <1>8, <2>1, <2>3 DEF Reaches
<1>17. MapIsInjective' /\ DownIsEmpty'
  <2>1. \A x, y \in DOMAIN map : map[x] = map[y] => x = y
    BY <1>4, <1>5
  <2> QED
    BY <1>3, <2>1 DEF MapIsInjective, DownIsEmpty
<1> QED
  BY <1>12, <1>13, <1>14, <1>15, <1>16, <1>17 DEF IInv

\* The end of the process keeps the invariant.
LEMMA ExitIInv ==
  ASSUME IInv, Exit
  PROVE  IInv'
<1>1. /\ up' = FALSE /\ config' = saved.config
      /\ instances' = << >> /\ object' = << >> /\ threads' = << >>
      /\ multiplexers' = {} /\ servers' = << >>
      /\ UNCHANGED <<saved, failed, ops>>
  BY DEF Exit
<1>2. DOMAIN << >> = {} /\ << >> \in Seq(ObjectState)
  OBVIOUS
<1>3. TypeOK'
  BY <1>1, <1>2 DEF IInv, TypeOK
<1>4. StaysConsistent' /\ FileKeepsUp'
  BY <1>1 DEF IInv, StaysConsistent, FileKeepsUp
<1> QED
  BY <1>1, <1>2, <1>3, <1>4
  DEF IInv, InterfacesServeConfig, SignalsReachInterfaces, BridgesResolve,
      MapIsInjective, DownIsEmpty

\* The end of a multiplexer that was killed keeps the invariant.
LEMMA MultiplexerEndsIInv ==
  ASSUME IInv, MultiplexerEnds
  PROVE  IInv'
<1>1. UNCHANGED <<up, config, saved, instances, object, threads, servers, failed, ops>>
  BY DEF MultiplexerEnds, objects
<1>2. PICK m \in multiplexers : m.killed /\ multiplexers' = multiplexers \ {m}
  BY DEF MultiplexerEnds
<1>3. TypeOK'
  BY <1>1, <1>2 DEF IInv, TypeOK
<1>4. SignalsReachInterfaces'
  BY <1>1, <1>2 DEF IInv, SignalsReachInterfaces
<1> QED
  BY <1>1, <1>3, <1>4
  DEF IInv, StaysConsistent, FileKeepsUp, InterfacesServeConfig, BridgesResolve, Reaches,
      MapIsInjective, DownIsEmpty

\* Every step keeps the invariant.
LEMMA NextIInv ==
  ASSUME IInv, [Next]_vars
  PROVE  IInv'
<1>1. CASE UNCHANGED vars
  BY <1>1
  DEF vars, IInv, TypeOK, StaysConsistent, FileKeepsUp, InterfacesServeConfig,
      SignalsReachInterfaces, BridgesResolve, Reaches, MapIsInjective, DownIsEmpty
<1>2. CASE AdminDna
  BY <1>2, InstallDnaIInv, UninstallDnaIInv, AddAgentIInv, RemoveAgentIInv DEF AdminDna
<1>3. CASE AdminInstance
  BY <1>3, AddInstanceIInv, RemoveInstanceIInv, StartInstanceIInv, StopInstanceIInv
  DEF AdminInstance
<1>4. CASE AdminInterface
  BY <1>4, AddInterfaceIInv, RemoveInterfaceIInv, AddInstanceToInterfaceIInv,
     RemoveInstanceFromInterfaceIInv
  DEF AdminInterface
<1>5. CASE AdminBridge
  BY <1>5, AddBridgeIInv, RemoveBridgeIInv DEF AdminBridge
<1>6. CASE AdminUi
  BY <1>6, InstallUiBundleIInv, UninstallUiBundleIInv, AddUiInterfaceIInv,
     RemoveUiInterfaceIInv, StartUiInterfaceIInv, StopUiInterfaceIInv
  DEF AdminUi
<1> QED
  BY <1>1, <1>2, <1>3, <1>4, <1>5, <1>6, BootIInv, ExitIInv, MultiplexerEndsIInv DEF Next

-----------------------------------------------------------------------------
(* Instances that leave the configuration.                                 *)

\* What RetiredIsStopped says of a step.
StopsRetired ==
  \A x \in DOMAIN instances :
    x \in InstanceIds(config) /\ x \notin InstanceIds(config') /\ failed' = {} /\ up'
      => ~object'[instances[x]].active

\* The list of instances is as it was, or something failed half way.
Spared == config'.instances = config.instances \/ failed' # {}

\* Where no instance is taken out of the list, none has to be stopped.
LEMMA SparedStops ==
  ASSUME Spared
  PROVE  StopsRetired
BY DEF Spared, StopsRetired, InstanceIds

\* A function that returns an error changes no list.
LEMMA RefuseSpares ==
  ASSUME Refuse
  PROVE  Spared
BY DEF Refuse, Spared

\* A change that is refused, or whose save fails, takes out no instance.
LEMMA ChangeSpares ==
  ASSUME NEW new, Change(new)
  PROVE  Spared
BY RefuseSpares DEF Change, SaveFails, SaveFailsOver, Spared

\* A change to other parts of the configuration takes out no instance.
LEMMA ChangeOnlySpares ==
  ASSUME NEW new, ChangeOnly(new), new.instances = config.instances
  PROVE  Spared
BY ChangeSpares DEF ChangeOnly, Save, Accept, Spared

\* What is taken out of the list by Retire is stopped.
LEMMA RetireStops ==
  ASSUME IInv, NEW c \in Config, NEW ids, Retire(Without(c, ids), ids),
         c.instances = config.instances
  PROVE  StopsRetired
<1> DEFINE new == Without(c, ids)
<1>1. InstanceIds(new) = InstanceIds(config) \ ids
  BY WithoutFacts DEF InstanceIds
<1> HIDE DEF new
<1>2. CASE Change(new)
  BY <1>2, ChangeSpares, SparedStops
<1>3. CASE Save(new) /\ object' = Stopped(object, ObjectsOf(ids))
  <2> SUFFICES ASSUME NEW x \in DOMAIN instances,
                      x \in InstanceIds(config), x \notin InstanceIds(config')
               PROVE  ~object'[instances[x]].active
    BY DEF StopsRetired
  <2>1. x \in ids
    BY <1>1, <1>3 DEF Save, Accept
  <2>2. instances[x] \in DOMAIN object /\ object \in Seq(ObjectState)
    BY DEF IInv, TypeOK
  <2>3. instances[x] \in ObjectsOf(ids)
    BY <2>1 DEF ObjectsOf
  <2> QED
    BY <1>3, <2>2, <2>3, StoppedFacts
<1> QED
  BY <1>2, <1>3 DEF Retire, new

\* The functions on DNAs stop the instances they take out.
LEMMA AdminDnaStops ==
  ASSUME IInv, AdminDna
  PROVE  StopsRetired
<1>1. config \in Config
  BY DEF IInv, TypeOK
<1>2. ASSUME NEW d \in Dnas, InstallDna(d) \/ UninstallDna(d)
      PROVE  StopsRetired
  <2> DEFINE c == [config EXCEPT !.dnas = @ \ {d}]
             new == [config EXCEPT !.dnas = @ \cup {d}]
             ids == {i.id : i \in {j \in Range(config.instances) : j.dna = d}}
  <2>1. Refuse \/ ChangeOnly(new) \/ Retire(Without(c, ids), ids)
    BY <1>2 DEF InstallDna, UninstallDna
  <2>2. c \in Config /\ c.instances = config.instances /\ new.instances = config.instances
    BY <1>1 DEF Config
  <2> HIDE DEF c, new, ids
  <2> QED
    BY <2>1, <2>2, RefuseSpares, ChangeOnlySpares, SparedStops, RetireStops
<1>3. ASSUME NEW g \in Agents, AddAgent(g) \/ RemoveAgent(g)
      PROVE  StopsRetired
  <2> DEFINE c == [config EXCEPT !.agents = @ \ {g}]
             new == [config EXCEPT !.agents = @ \cup {g}]
             ids == {i.id : i \in {j \in Range(config.instances) : j.agent = g}}
  <2>1. Refuse \/ ChangeOnly(new) \/ Retire(Without(c, ids), ids)
    BY <1>3 DEF AddAgent, RemoveAgent
  <2>2. c \in Config /\ c.instances = config.instances /\ new.instances = config.instances
    BY <1>1 DEF Config
  <2> HIDE DEF c, new, ids
  <2> QED
    BY <2>1, <2>2, RefuseSpares, ChangeOnlySpares, SparedStops, RetireStops
<1> QED
  BY <1>2, <1>3 DEF AdminDna

\* add_instance takes no instance out of the list.
LEMMA AddInstanceStops ==
  ASSUME IInv, NEW x \in Instances, NEW d \in Dnas, NEW g \in Agents, AddInstance(x, d, g)
  PROVE  StopsRetired
<1> DEFINE e == [id |-> x, dna |-> d, agent |-> g]
           new == [config EXCEPT !.instances = Append(@, e)]
<1>1. Refuse \/ config' = new
  BY DEF AddInstance, Change, SaveFails, SaveFailsOver, Accept, Save
<1>2. config \in Config /\ config.instances \in Seq(InstanceConfig)
  BY ConfigFields DEF IInv, TypeOK
<1>3. new.instances = Append(config.instances, e)
  BY <1>2 DEF Config
<1>4. e \in InstanceConfig
  BY DEF InstanceConfig
<1> HIDE DEF e, new
<1>5. ASSUME NEW n \in DOMAIN config.instances
      PROVE  n \in DOMAIN new.instances /\ new.instances[n] = config.instances[n]
  BY <1>2, <1>3, <1>4
<1>6. InstanceIds(config) \subseteq InstanceIds(new)
  BY <1>5 DEF InstanceIds, Range
<1> QED
  BY <1>1, <1>6, RefuseSpares, SparedStops DEF StopsRetired

\* remove_instance stops the instance it takes out.
LEMMA RemoveInstanceStops ==
  ASSUME IInv, NEW y \in Instances, RemoveInstance(y)
  PROVE  StopsRetired
<1> DEFINE new == Without(config, {y})
<1>1. Change(new) \/ (Save(new) /\ object' = Killed(object, ObjectsOf({y})))
  BY DEF RemoveInstance
<1>2. InstanceIds(new) = InstanceIds(config) \ {y}
  BY WithoutFacts DEF IInv, TypeOK
<1> HIDE DEF new
<1>3. CASE Save(new) /\ object' = Killed(object, ObjectsOf({y}))
  <2> SUFFICES ASSUME NEW x \in DOMAIN instances,
                      x \in InstanceIds(config), x \notin InstanceIds(config')
               PROVE  ~object'[instances[x]].active
    BY DEF StopsRetired
  <2>1. x = y
    BY <1>2, <1>3 DEF Save, Accept
  <2>2. instances[x] \in DOMAIN object /\ object \in Seq(ObjectState)
    BY DEF IInv, TypeOK
  <2>3. instances[x] \in ObjectsOf({y})
    BY <2>1 DEF ObjectsOf
  <2> QED
    BY <1>3, <2>2, <2>3, KilledFacts
<1> QED
  BY <1>1, <1>3, ChangeSpares, SparedStops

\* The functions on instances stop the instances they take out.
LEMMA AdminInstanceStops ==
  ASSUME IInv, AdminInstance
  PROVE  StopsRetired
<1>1. ASSUME NEW x \in Instances, StartInstance(x) \/ StopInstance(x)
      PROVE  Spared
  BY <1>1, RefuseSpares DEF StartInstance, StopInstance, Spared
<1> QED
  BY <1>1, SparedStops, AddInstanceStops, RemoveInstanceStops DEF AdminInstance

\* The functions on interfaces take out no instance.
LEMMA AdminInterfaceSpares ==
  ASSUME IInv, AdminInterface
  PROVE  Spared
<1>1. config \in Config
  BY DEF IInv, TypeOK
<1>2. ASSUME NEW f
      PROVE  [config EXCEPT !.interfaces = f].instances = config.instances
  BY <1>1 DEF Config
<1>3. ASSUME NEW f, Change([config EXCEPT !.interfaces = f]) \/ Save([config EXCEPT !.interfaces = f])
      PROVE  Spared
  BY <1>2, <1>3, ChangeSpares DEF Save, Accept, Spared
<1>4. ASSUME NEW i \in Interfaces, AddInterface(i) \/ RemoveInterface(i)
      PROVE  Spared
  BY <1>3, <1>4, RefuseSpares DEF AddInterface, RemoveInterface
<1>5. ASSUME NEW i \in Interfaces, NEW x \in Instances,
             AddInstanceToInterface(i, x) \/ RemoveInstanceFromInterface(i, x)
      PROVE  Spared
  <2> DEFINE more == [config EXCEPT !.interfaces[i] = @ \cup {x}]
             less == [config EXCEPT !.interfaces[i] = @ \ {x}]
  <2>1. Refuse \/ Reserve(more, i) \/ Reserve(less, i)
    BY <1>5 DEF AddInstanceToInterface, RemoveInstanceFromInterface
  <2>2. more.instances = config.instances /\ less.instances = config.instances
    BY <1>1 DEF Config
  <2> HIDE DEF more, less
  <2> QED
    BY <2>1, <2>2, RefuseSpares, ChangeSpares DEF Reserve, Save, Accept, Spared
<1> QED
  BY <1>4, <1>5 DEF AdminInterface

\* The functions on bridges take out no instance.
LEMMA AdminBridgeSpares ==
  ASSUME IInv, AdminBridge
  PROVE  Spared
<1>1. config \in Config
  BY DEF IInv, TypeOK
<1>2. ASSUME NEW bs
      PROVE  [config EXCEPT !.bridges = bs].instances = config.instances
  BY <1>1 DEF Config
<1>3. ASSUME NEW b \in Bridge, AddBridge(b)
      PROVE  Spared
  <2> DEFINE new == [config EXCEPT !.bridges = Append(@, b)]
  <2>1. Refuse \/ Change(new) \/ Save(new)
    BY <1>3 DEF AddBridge
  <2>2. new.instances = config.instances
    BY <1>2
  <2> HIDE DEF new
  <2> QED
    BY <2>1, <2>2, RefuseSpares, ChangeSpares DEF Save, Accept, Spared
<1>4. ASSUME NEW x \in Instances, NEW y \in Instances, RemoveBridge(x, y)
      PROVE  Spared
  <2> DEFINE new == [config EXCEPT !.bridges =
                       Only(@, {b \in Range(@) : b.caller # x \/ b.callee # y})]
  <2>1. Refuse \/ Change(new) \/ Save(new)
    BY <1>4 DEF RemoveBridge, Unbridged
  <2>2. new.instances = config.instances
    BY <1>2
  <2> HIDE DEF new
  <2> QED
    BY <2>1, <2>2, RefuseSpares, ChangeSpares DEF Save, Accept, Spared
<1> QED
  BY <1>3, <1>4 DEF AdminBridge

\* The functions on UIs take out no instance.
LEMMA AdminUiSpares ==
  ASSUME IInv, AdminUi
  PROVE  Spared
<1>1. config \in Config
  BY DEF IInv, TypeOK
<1>2. ASSUME NEW U
      PROVE  /\ [config EXCEPT !.uis = U].instances = config.instances
             /\ [config EXCEPT !.bundles = U].instances = config.instances
  BY <1>1 DEF Config
<1>3. ASSUME NEW u \in Bundles, InstallUiBundle(u)
      PROVE  Spared
  BY <1>2, <1>3, ChangeOnlySpares DEF InstallUiBundle
<1>4. ASSUME NEW u \in Bundles, UninstallUiBundle(u)
      PROVE  Spared
  <2> DEFINE Fewer(ids) == [config EXCEPT !.uis = {w \in @ : w.id \notin ids}]
             less == [config EXCEPT !.bundles = @ \ {u}]
  <2>1. \/ Refuse
        \/ ChangeOnly(less)
        \/ UNCHANGED config
        \/ \E gone : Save(Fewer(gone))
        \/ failed' = failed \cup {"save"}
    BY <1>4 DEF UninstallUiBundle, SaveFailsOver
  <2>2. less.instances = config.instances
    BY <1>2
  <2>3. \A gone : Fewer(gone).instances = config.instances
    BY <1>2
  <2> HIDE DEF Fewer, less
  <2> QED
    BY <2>1, <2>2, <2>3, RefuseSpares, ChangeOnlySpares DEF Save, Accept, Spared
<1>5. ASSUME NEW v \in UiInterfaces, NEW u \in Bundles, NEW S \in Connection,
             AddUiInterface(v, u, S)
      PROVE  Spared
  <2> DEFINE new == [config EXCEPT !.uis = @ \cup {[id |-> v, bundle |-> u, dna |-> S]}]
  <2>1. Change(new) \/ Save(new)
    BY <1>5 DEF AddUiInterface
  <2>2. new.instances = config.instances
    BY <1>2
  <2> HIDE DEF new
  <2> QED
    BY <2>1, <2>2, ChangeSpares DEF Save, Accept, Spared
<1>6. ASSUME NEW v \in UiInterfaces, RemoveUiInterface(v)
      PROVE  Spared
  <2> DEFINE new == [config EXCEPT !.uis = @ \ {w \in config.uis : w.id = v}]
  <2>1. Refuse \/ SaveFails(new) \/ Save(new)
    BY <1>6 DEF RemoveUiInterface
  <2>2. new.instances = config.instances
    BY <1>2
  <2> HIDE DEF new
  <2> QED
    BY <2>1, <2>2, RefuseSpares DEF SaveFails, SaveFailsOver, Save, Accept, Spared
<1>7. ASSUME NEW v \in UiInterfaces, StartUiInterface(v) \/ StopUiInterface(v)
      PROVE  Spared
  BY <1>7, RefuseSpares DEF StartUiInterface, StopUiInterface, Spared
<1> QED
  BY <1>3, <1>4, <1>5, <1>6, <1>7 DEF AdminUi

\* Every step stops the instances it takes out of the list.
LEMMA NextStops ==
  ASSUME IInv, [Next]_vars
  PROVE  StopsRetired
<1>1. CASE UNCHANGED vars
  BY <1>1, SparedStops DEF vars, Spared
<1>2. CASE Boot
  BY <1>2 DEF Boot, IInv, DownIsEmpty, StopsRetired
<1>3. CASE Exit
  BY <1>3 DEF Exit, StopsRetired
<1>4. CASE MultiplexerEnds
  BY <1>4, SparedStops DEF MultiplexerEnds, Spared
<1> QED
  BY <1>1, <1>2, <1>3, <1>4, AdminDnaStops, AdminInstanceStops, AdminInterfaceSpares,
     AdminBridgeSpares, AdminUiSpares, SparedStops
  DEF Next

-----------------------------------------------------------------------------
(* Theorems.                                                               *)

\* The invariant of which the ones below are parts.
THEOREM ConductorInvariance == Spec => []IInv
<1> QED
  BY InitIInv, NextIInv, PTL DEF Spec

\* The variables keep their types, and no object that was killed stays in the
\* conductor's map of instances, whatever admin functions do: TypeOK.
THEOREM ConductorTypeCorrect == Spec => []TypeOK
<1>1. IInv => TypeOK
  BY DEF IInv
<1> QED
  BY ConductorInvariance, <1>1, PTL

\* A consistent configuration that lists callees first is one that
\* start_all_instances starts.
LEMMA CalleesFirstStarts ==
  ASSUME NEW c \in Config, Consistent(c), CalleesFirst(c)
  PROVE  StartsInOrder(c)
<1> SUFFICES ASSUME NEW n \in DOMAIN c.instances, NEW h \in Requires[c.instances[n].dna]
             PROVE  /\ HasHandle(c, h)
                    /\ c.bridges[FirstBridge(c, h)].callee # c.instances[n].id
                    /\ c.bridges[FirstBridge(c, h)].callee
                         \in {c.instances[m].id : m \in 1..(n - 1)}
  BY DEF StartsInOrder, CanStart
<1> DEFINE found == {j \in DOMAIN c.bridges : c.bridges[j].handle = h}
           first == FirstBridge(c, h)
<1>1. c.bridges \in Seq(Bridge) /\ c.instances \in Seq(InstanceConfig)
  BY ConfigFields
<1>2. HasHandle(c, h)
  <2>1. c.instances[n] \in Range(c.instances)
    BY DEF Range
  <2> QED
    BY <2>1 DEF Consistent
<1>3. found # {} /\ found \subseteq Nat
  BY <1>1, <1>2 DEF HasHandle, Range
<1>4. \E i \in found : \A j \in found : i =< j
  <2> HIDE DEF found
  <2> QED
    BY <1>3, LeastNatural
<1>5. first \in found
  <2>1. first = CHOOSE i \in found : \A j \in found : i =< j
    BY DEF FirstBridge
  <2> HIDE DEF found, first
  <2> QED
    BY <1>4, <2>1
<1> HIDE DEF first
<1>6. c.bridges[first] \in Range(c.bridges) /\ c.bridges[first].handle = h
  BY <1>5 DEF Range
<1>7. PICK m \in 1..(n - 1) : c.bridges[first].callee = c.instances[m].id
  BY <1>6 DEF CalleesFirst
<1>8. m \in DOMAIN c.instances /\ m # n
  BY <1>1
<1>9. c.instances[m].id # c.instances[n].id
  BY <1>8, ConsistentFacts
<1> QED
  BY <1>2, <1>7, <1>9 DEF first

\* Unless a save failed, the file can be started from when it lists callees first;
\* unless also a creation failed, it is the configuration in memory: Restartable.
THEOREM AlwaysRestartable == Spec => []Restartable
<1>1. ASSUME IInv
      PROVE  Restartable
  <2>1. saved.config \in Config /\ Consistent(saved.config) /\ FileKeepsUp
    BY <1>1 DEF IInv, TypeOK, StaysConsistent
  <2> QED
    BY <2>1, CalleesFirstStarts DEF Restartable, Bootable, FileKeepsUp
<1> QED
  BY ConductorInvariance, <1>1, PTL

\* While nothing has failed, exactly the configured interfaces have a thread, and
\* it serves the objects that are in the conductor's map and not ones that were
\* removed and created again: InterfacesServeConfig.
THEOREM InterfacesServed == Spec => []InterfacesServeConfig
<1>1. IInv => InterfacesServeConfig
  BY DEF IInv
<1> QED
  BY ConductorInvariance, <1>1, PTL

\* While nothing has failed, there is a multiplexer that was not killed, and it sends
\* every interface the signals of the instances it serves: SignalsReachInterfaces.
THEOREM SignalsArrive == Spec => []SignalsReachInterfaces
<1>1. IInv => SignalsReachInterfaces
  BY DEF IInv
<1> QED
  BY ConductorInvariance, <1>1, PTL

\* While nothing has failed, a call over a configured bridge reaches the object in
\* the map of an instance so bridged to, unless the caller's conductor api was made
\* before a bridge of that handle was removed: BridgesResolve.
THEOREM BridgesAlwaysResolve == Spec => []BridgesResolve
<1>1. IInv => BridgesResolve
  BY DEF IInv
<1> QED
  BY ConductorInvariance, <1>1, PTL

\* A step that takes an instance out of the configuration leaves its object
\* stopped, unless something has failed: RetiredIsStopped.
THEOREM RetiredAreStopped == Spec => RetiredIsStopped
<1>1. ASSUME IInv, [Next]_vars
      PROVE  \A x \in DOMAIN instances :
               x \in InstanceIds(config) /\ x \notin InstanceIds(config') /\ failed' = {} /\ up'
                 => ~object'[instances[x]].active
  BY <1>1, NextStops DEF StopsRetired
<1> QED
  BY ConductorInvariance, <1>1, PTL DEF Spec, RetiredIsStopped
==============================================================================
