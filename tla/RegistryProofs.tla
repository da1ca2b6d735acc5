-------------------------- MODULE RegistryProofs --------------------------
(***************************************************************************)
(* Safety of the registry cache for any number of processes, keys, sources *)
(* and mirrors.                                                            *)
(***************************************************************************)
EXTENDS Registry, SequenceTheorems, TLAPS

\* A process inside Resolve has a PURL to resolve.
Busy == \A p \in Procs : pc[p] \notin {"stopped", "lookup"} => todo[p] # <<>>

\* DiskCache.Set is called with metadata, never with nil.
Answers == \A p \in Procs : pc[p] \in Storing => mem[p][Key(p)] \in Metadata

TypeInv == StateOK /\ Busy /\ Answers

\* The three values that are not metadata are different.
LEMMA NilIsNoMetadata ==
  Unasked # NoMeta /\ Unasked \notin Metadata /\ NoMeta \notin Metadata
  BY RegistryAssumption

\* The key of a busy process is a key, and dropping it leaves a list of keys.
LEMMA KeyFacts ==
  ASSUME StateOK, NEW p \in Procs, todo[p] # <<>>
  PROVE  Key(p) \in Keys /\ Tail(todo[p]) \in Seq(Keys)
<1>1. todo[p] \in Seq(Keys)
  BY DEF StateOK
<1>2. QED BY <1>1, HeadTailProperties DEF Key

\* What ResolvedAs does to the types.
LEMMA ResolvedTypes ==
  ASSUME TypeInv, NEW p \in Procs, todo[p] # <<>>,
         NEW m \in {Unasked, NoMeta} \cup Metadata, ResolvedAs(p, m)
  PROVE  /\ todo' \in [Procs -> Seq(Keys)]
         /\ mem' \in [Procs -> [Keys -> {Unasked, NoMeta} \cup Metadata]]
         /\ src' \in [Procs -> Nat \ {0}]
         /\ tried' \in [Procs -> SUBSET Nat]
         /\ raw' \in [Procs -> SUBSET Nat]
         /\ pc' = [pc EXCEPT ![p] = "lookup"]
         /\ Busy' /\ Answers'
<1>1. Key(p) \in Keys /\ Tail(todo[p]) \in Seq(Keys)
  BY KeyFacts DEF TypeInv
<1>2. todo' \in [Procs -> Seq(Keys)]
  BY <1>1 DEF ResolvedAs, TypeInv, StateOK
<1>3. mem' \in [Procs -> [Keys -> {Unasked, NoMeta} \cup Metadata]]
  BY <1>1 DEF ResolvedAs, TypeInv, StateOK
<1>4. src' \in [Procs -> Nat \ {0}] /\ tried' \in [Procs -> SUBSET Nat] /\ raw' \in [Procs -> SUBSET Nat]
  BY DEF ResolvedAs, TypeInv, StateOK
<1>5. pc' = [pc EXCEPT ![p] = "lookup"]
  BY DEF ResolvedAs
<1>6. Busy'
  BY <1>5 DEF ResolvedAs, Busy, TypeInv, StateOK
<1>7. Answers'
  <2> SUFFICES ASSUME NEW q \in Procs, pc'[q] \in Storing
               PROVE  (mem[q][Key(q)])' \in Metadata
    BY DEF Answers
  <2>1. q # p /\ pc'[q] = pc[q]
    BY <1>5 DEF TypeInv, StateOK, Storing
  <2>2. mem'[q] = mem[q] /\ todo'[q] = todo[q]
    BY <2>1 DEF ResolvedAs, TypeInv, StateOK
  <2>3. QED BY <2>1, <2>2 DEF TypeInv, Answers, Key
<1>8. QED BY <1>2, <1>3, <1>4, <1>5, <1>6, <1>7

\* What StartWalk does to the types.
LEMMA WalkTypes ==
  ASSUME TypeInv, NEW p \in Procs, todo[p] # <<>>, StartWalk(p)
  PROVE  /\ pc' = [pc EXCEPT ![p] = "walk"]
         /\ src' \in [Procs -> Nat \ {0}]
         /\ walks' \in [Procs -> [Keys -> Nat]]
<1>1. Key(p) \in Keys
  BY KeyFacts DEF TypeInv
<1>2. QED BY <1>1 DEF StartWalk, TypeInv, StateOK

\* The types of what an exiting process leaves.
LEMMA ExitTypes ==
  ASSUME TypeInv, NEW p \in Procs, Exit(p), disturbed' \in BOOLEAN
  PROVE  TypeInv'
<1>1. todo' \in [Procs -> Seq(Keys)]
  BY DEF Exit, TypeInv, StateOK
<1>2. mem' \in [Procs -> [Keys -> {Unasked, NoMeta} \cup Metadata]] /\ walks' \in [Procs -> [Keys -> Nat]]
  BY DEF Exit, TypeInv, StateOK
<1>3. /\ src' \in [Procs -> Nat \ {0}] /\ tried' \in [Procs -> SUBSET Nat] /\ raw' \in [Procs -> SUBSET Nat]
      /\ fd' \in [Procs -> {NoFile} \cup Inodes]
  BY DEF Exit, TypeInv, StateOK
<1>4. pc' = [pc EXCEPT ![p] = "stopped"] /\ UNCHANGED <<config, disk, runs, fetched>>
  BY DEF Exit
<1>5. Busy'
  BY <1>4 DEF Exit, Busy, TypeInv, StateOK
<1>6. Answers'
  <2> SUFFICES ASSUME NEW q \in Procs, pc'[q] \in Storing
               PROVE  (mem[q][Key(q)])' \in Metadata
    BY DEF Answers
  <2>1. q # p /\ pc'[q] = pc[q]
    BY <1>4 DEF TypeInv, StateOK, Storing
  <2>2. mem'[q] = mem[q] /\ todo'[q] = todo[q]
    BY <2>1 DEF Exit, TypeInv, StateOK
  <2>3. QED BY <2>1, <2>2 DEF TypeInv, Answers, Key
<1>7. QED BY <1>1, <1>2, <1>3, <1>4, <1>5, <1>6 DEF TypeInv, StateOK, disk

\* The types after Resolve returns with m, for the actions that change none of
\* the files.
LEMMA ReturnTypes ==
  ASSUME TypeInv, NEW p \in Procs, todo[p] # <<>>,
         NEW m \in {Unasked, NoMeta} \cup Metadata, ResolvedAs(p, m),
         UNCHANGED <<config, runs, walks>>,
         fd' \in [Procs -> {NoFile} \cup Inodes],
         path' \in [Keys -> {NoFile} \cup Inodes], tmp' \in [Keys -> {NoFile} \cup Inodes],
         file' \in [Inodes -> {Torn} \cup Metadata], aged' \subseteq Inodes,
         fetched' \subseteq Metadata, disturbed' \in BOOLEAN
  PROVE  TypeInv'
<1>1. /\ todo' \in [Procs -> Seq(Keys)]
      /\ mem' \in [Procs -> [Keys -> {Unasked, NoMeta} \cup Metadata]]
      /\ src' \in [Procs -> Nat \ {0}]
      /\ tried' \in [Procs -> SUBSET Nat]
      /\ raw' \in [Procs -> SUBSET Nat]
      /\ pc' = [pc EXCEPT ![p] = "lookup"]
      /\ Busy' /\ Answers'
  BY ResolvedTypes
<1>2. QED BY <1>1 DEF TypeInv, StateOK

\* The types after a step within Resolve.
LEMMA GoOnTypes ==
  ASSUME TypeInv, NEW p \in Procs, todo[p] # <<>>,
         NEW c \in Storing \cup {"stat", "read", "remove", "walk", "request"},
         pc' = [pc EXCEPT ![p] = c],
         UNCHANGED <<config, runs, todo>>,
         c \in Storing => mem'[p][Key(p)] \in Metadata,
         \A q \in Procs \ {p} : mem'[q] = mem[q],
         mem' \in [Procs -> [Keys -> {Unasked, NoMeta} \cup Metadata]],
         src' \in [Procs -> Nat \ {0}], tried' \in [Procs -> SUBSET Nat], raw' \in [Procs -> SUBSET Nat],
         walks' \in [Procs -> [Keys -> Nat]],
         fd' \in [Procs -> {NoFile} \cup Inodes],
         path' \in [Keys -> {NoFile} \cup Inodes], tmp' \in [Keys -> {NoFile} \cup Inodes],
         file' \in [Inodes -> {Torn} \cup Metadata], aged' \subseteq Inodes,
         fetched' \subseteq Metadata, disturbed' \in BOOLEAN
  PROVE  TypeInv'
<1>1. Busy'
  BY DEF TypeInv, StateOK, Busy
<1>2. Answers'
  <2> SUFFICES ASSUME NEW q \in Procs, pc'[q] \in Storing
               PROVE  (mem[q][Key(q)])' \in Metadata
    BY DEF Answers
  <2>1. CASE q = p
    BY <2>1 DEF TypeInv, StateOK, Key
  <2>2. CASE q # p
    BY <2>2 DEF TypeInv, StateOK, Key, Answers
  <2>3. QED BY <2>1, <2>2
<1>3. QED BY <1>1, <1>2 DEF TypeInv, StateOK

\* The types after the walk goes on to the next source.
LEMMA NextSourceTypes ==
  ASSUME TypeInv, NEW p \in Procs, todo[p] # <<>>, NextSource(p),
         UNCHANGED <<config, todo, mem, tried, raw, fd, path, tmp, file, aged, runs, walks, fetched, disturbed>>
  PROVE  TypeInv'
<1>1. src' \in [Procs -> Nat \ {0}] /\ pc' = [pc EXCEPT ![p] = "walk"]
  BY DEF NextSource, TypeInv, StateOK
<1>2. "walk" \notin Storing
  BY DEF Storing
<1>3. QED BY <1>1, <1>2, GoOnTypes DEF TypeInv, StateOK

\* Endpoints are numbered: 0 is upstream, the mirrors are counted from 1.
LEMMA EndpointsAreNumbers ==
  ASSUME NEW c \in Configs
  PROVE  Endpoints(c) \subseteq Nat
<1>1. c.mirrors \in Seq(ModeChoices)
  BY RegistryAssumption
<1>2. DOMAIN c.mirrors \subseteq Nat
  BY <1>1
<1>3. QED BY <1>2 DEF Endpoints, Upstream

\* The inductive type invariant.
LEMMA TypeInvariant == Spec => []TypeInv
<1>1. Init => TypeInv
  <2> SUFFICES ASSUME Init PROVE TypeInv
    OBVIOUS
  <2>1. config \in [Procs -> Configs]
    BY RegistryAssumption DEF Init
  <2>2. todo \in [Procs -> Seq(Keys)] /\ mem \in [Procs -> [Keys -> {Unasked, NoMeta} \cup Metadata]]
    BY DEF Init
  <2>3. /\ src \in [Procs -> Nat \ {0}] /\ tried \in [Procs -> SUBSET Nat] /\ raw \in [Procs -> SUBSET Nat]
        /\ fd \in [Procs -> {NoFile} \cup Inodes] /\ path \in [Keys -> {NoFile} \cup Inodes]
        /\ tmp \in [Keys -> {NoFile} \cup Inodes]
    BY DEF Init
  <2>4. /\ file \in [Inodes -> {Torn} \cup Metadata] /\ aged \subseteq Inodes /\ fetched \subseteq Metadata
        /\ disturbed \in BOOLEAN /\ walks \in [Procs -> [Keys -> Nat]]
    BY DEF Init
  <2>5. runs \in 0 .. MaxRuns
    <3>1. MaxRuns \in Nat
      BY RegistryAssumption
    <3>2. QED BY <3>1 DEF Init
  <2>6. pc = [p \in Procs |-> "stopped"]
    BY DEF Init
  <2>7. QED BY <2>1, <2>2, <2>3, <2>4, <2>5, <2>6 DEF TypeInv, StateOK, Busy, Answers, Storing
<1>2. TypeInv /\ [Next]_vars => TypeInv'
  <2> SUFFICES ASSUME TypeInv, [Next]_vars PROVE TypeInv'
    OBVIOUS
  <2>0. /\ todo \in [Procs -> Seq(Keys)] /\ mem \in [Procs -> [Keys -> {Unasked, NoMeta} \cup Metadata]]
        /\ src \in [Procs -> Nat \ {0}] /\ tried \in [Procs -> SUBSET Nat] /\ raw \in [Procs -> SUBSET Nat]
        /\ fd \in [Procs -> {NoFile} \cup Inodes] /\ path \in [Keys -> {NoFile} \cup Inodes]
        /\ tmp \in [Keys -> {NoFile} \cup Inodes] /\ file \in [Inodes -> {Torn} \cup Metadata]
        /\ aged \subseteq Inodes /\ fetched \subseteq Metadata /\ disturbed \in BOOLEAN
        /\ walks \in [Procs -> [Keys -> Nat]] /\ config \in [Procs -> Configs]
        /\ {"stat", "read", "remove", "walk", "request"} \cap Storing = {}
    BY DEF TypeInv, StateOK, Storing
  <2>1. CASE Age
    <3>1. aged' \subseteq Inodes
      <4>1. PICK i \in Range(path) \ ({NoFile} \cup aged) : aged' = aged \cup {i}
        BY <2>1 DEF Age
      <4>2. Range(path) \subseteq {NoFile} \cup Inodes
        BY <2>0 DEF Range
      <4>3. QED BY <2>0, <4>1, <4>2
    <3>2. disturbed' = TRUE /\ UNCHANGED <<local, path, tmp, file, runs, walks, fetched>>
      BY <2>1 DEF Age
    <3>3. Busy' /\ Answers'
      BY <3>2 DEF TypeInv, Busy, Answers, Key, local
    <3>4. QED BY <3>1, <3>2, <3>3 DEF TypeInv, StateOK, local
  <2>2. ASSUME NEW p \in Procs, Start(p) PROVE TypeInv'
    <3>1. PICK c \in Configs, l \in Lists :
            /\ config' = [config EXCEPT ![p] = c]
            /\ todo' = [todo EXCEPT ![p] = l]
            /\ disturbed' = (disturbed \/ ~c.disk \/ \E q \in Procs : Running(q))
      BY <2>2 DEF Start
    <3>2. config' \in [Procs -> Configs] /\ disturbed' \in BOOLEAN
      BY <2>0, <3>1
    <3>3. todo' \in [Procs -> Seq(Keys)]
      BY <2>0, <3>1, RegistryAssumption
    <3>4. runs' \in 0 .. MaxRuns
      <4>1. MaxRuns \in Nat /\ runs \in 0 .. MaxRuns
        BY RegistryAssumption DEF TypeInv, StateOK
      <4>2. runs < MaxRuns /\ runs' = runs + 1
        BY <2>2 DEF Start
      <4>3. QED BY <4>1, <4>2
    <3>5. /\ pc' = [pc EXCEPT ![p] = "lookup"]
          /\ UNCHANGED <<mem, src, tried, raw, fd, disk, walks, fetched>>
      BY <2>2 DEF Start
    <3>6. Busy'
      BY <3>1, <3>5 DEF TypeInv, StateOK, Busy
    <3>7. Answers'
      BY <3>1, <3>5 DEF TypeInv, StateOK, Answers, Storing, Key
    <3>8. QED BY <3>2, <3>3, <3>4, <3>5, <3>6, <3>7 DEF TypeInv, StateOK, disk
  <2>3. ASSUME NEW p \in Procs, Kill(p) PROVE TypeInv'
    BY <2>3, ExitTypes DEF Kill
  <2>4. ASSUME NEW p \in Procs, Done(p) PROVE TypeInv'
    BY <2>0, <2>4, ExitTypes DEF Done
  <2>5. ASSUME NEW p \in Procs, Lookup(p) PROVE TypeInv'
    <3>1. todo[p] # <<>> /\ UNCHANGED <<config, fd, path, tmp, file, aged, runs, fetched, disturbed>>
      BY <2>5 DEF Lookup, disk
    <3>2. mem[p][Key(p)] \in {Unasked, NoMeta} \cup Metadata
      BY <2>0, <3>1, KeyFacts DEF TypeInv
    <3>3. CASE ResolvedAs(p, mem[p][Key(p)]) /\ UNCHANGED walks
      BY <2>0, <3>1, <3>2, <3>3, ReturnTypes
    <3>4. CASE pc' = [pc EXCEPT ![p] = "stat"] /\ UNCHANGED <<todo, mem, src, tried, raw, walks>>
      BY <2>0, <3>1, <3>4, GoOnTypes
    <3>5. CASE StartWalk(p) /\ UNCHANGED <<todo, mem, tried, raw>>
      BY <2>0, <3>1, <3>5, WalkTypes, GoOnTypes
    <3>6. QED BY <2>5, <3>3, <3>4, <3>5 DEF Lookup
  <2>6. ASSUME NEW p \in Procs, Stat(p) PROVE TypeInv'
    <3>1. todo[p] # <<>>
      BY <2>6 DEF Stat, TypeInv, Busy
    <3>2. UNCHANGED <<config, todo, mem, tried, raw, fd, path, tmp, file, aged, runs, fetched, disturbed>>
      BY <2>6 DEF Stat, disk
    <3>3. CASE StartWalk(p)
      BY <2>0, <3>1, <3>2, <3>3, WalkTypes, GoOnTypes
    <3>4. CASE /\ pc' = [pc EXCEPT ![p] = IF path[Key(p)] \in aged THEN "remove" ELSE "read"]
               /\ UNCHANGED <<src, walks>>
      <4>1. PICK c \in {"remove", "read"} : pc' = [pc EXCEPT ![p] = c]
        BY <3>4
      <4>2. QED BY <2>0, <3>1, <3>2, <3>4, <4>1, GoOnTypes
    <3>5. QED BY <2>6, <3>3, <3>4 DEF Stat
  <2>7. ASSUME NEW p \in Procs, Read(p) PROVE TypeInv'
    <3>1. todo[p] # <<>>
      BY <2>7 DEF Read, TypeInv, Busy
    <3>2. UNCHANGED <<config, fd, path, tmp, file, aged, runs, fetched, disturbed>>
      BY <2>7 DEF Read, disk
    <3>3. CASE StartWalk(p) /\ UNCHANGED <<todo, mem, tried, raw>>
      BY <2>0, <3>1, <3>2, <3>3, WalkTypes, GoOnTypes
    <3>4. CASE /\ path[Key(p)] # NoFile
               /\ file[path[Key(p)]] # Torn
               /\ ResolvedAs(p, file[path[Key(p)]])
               /\ UNCHANGED walks
      <4>1. Key(p) \in Keys
        BY <3>1, KeyFacts DEF TypeInv
      <4>2. file[path[Key(p)]] \in Metadata
        BY <2>0, <3>4, <4>1
      <4>3. QED BY <2>0, <3>1, <3>2, <3>4, <4>2, ReturnTypes
    <3>5. QED BY <2>7, <3>3, <3>4 DEF Read
  <2>8. ASSUME NEW p \in Procs, Corrupt(p) PROVE TypeInv'
    <3>1. todo[p] # <<>>
      BY <2>8 DEF Corrupt, ReadsTorn, TypeInv, Busy
    <3>2. QED BY <2>0, <2>8, <3>1, GoOnTypes DEF Corrupt, disk, ghosts
  <2>9. ASSUME NEW p \in Procs, Remove(p) PROVE TypeInv'
    <3>1. todo[p] # <<>>
      BY <2>9 DEF Remove, TypeInv, Busy
    <3>2. path' \in [Keys -> {NoFile} \cup Inodes]
      BY <2>0, <2>9 DEF Remove
    <3>3. StartWalk(p) /\ UNCHANGED <<config, todo, mem, tried, raw, fd, tmp, file, aged, runs, fetched, disturbed>>
      BY <2>9 DEF Remove
    <3>4. QED BY <2>0, <3>1, <3>2, <3>3, WalkTypes, GoOnTypes
  <2>10. ASSUME NEW p \in Procs, Walk(p) PROVE TypeInv'
    <3>1. todo[p] # <<>>
      BY <2>10 DEF Walk, TypeInv, Busy
    <3>2. UNCHANGED <<config, todo, mem, fd, path, tmp, file, aged, runs, walks, fetched, disturbed>>
      BY <2>10 DEF Walk, disk, ghosts
    <3>3. CASE /\ pc' = [pc EXCEPT ![p] = "request"] /\ tried' = [tried EXCEPT ![p] = {}]
               /\ raw' = [raw EXCEPT ![p] = {}] /\ UNCHANGED src
      <4>1. tried' \in [Procs -> SUBSET Nat] /\ raw' \in [Procs -> SUBSET Nat]
        BY <2>0, <3>3
      <4>2. QED BY <2>0, <3>1, <3>2, <3>3, <4>1, GoOnTypes
    <3>4. CASE NextSource(p) /\ UNCHANGED <<tried, raw>>
      BY <3>1, <3>2, <3>4, NextSourceTypes
    <3>5. QED BY <2>10, <3>3, <3>4 DEF Walk
  <2>11. ASSUME NEW p \in Procs, WalkEnds(p) PROVE TypeInv'
    <3>1. todo[p] # <<>>
      BY <2>11 DEF WalkEnds, TypeInv, Busy
    <3>2. QED BY <2>0, <2>11, <3>1, ReturnTypes DEF WalkEnds, disk, ghosts
  <2>12. ASSUME NEW p \in Procs, Request(p) PROVE TypeInv'
    <3>1. todo[p] # <<>> /\ UNCHANGED <<config, fd, path, tmp, file, aged, runs, walks, disturbed>>
      BY <2>12 DEF Request, TypeInv, Busy, disk
    <3>2. Key(p) \in Keys
      BY <3>1, KeyFacts DEF TypeInv
    <3>3. PICK here \in Endpoints(config[p]) \ tried[p] :
            \/ /\ tried' = [tried EXCEPT ![p] = @ \cup {here}]
               /\ raw' \in {raw, [raw EXCEPT ![p] = @ \cup {here}]}
               /\ UNCHANGED <<todo, pc, mem, src, fetched>>
            \/ \E from \in {raw[p], raw[p] \cup {here}} \ {{}} : Answered(p, from)
            \/ /\ raw[p] = {}
               /\ NextSource(p)
               /\ UNCHANGED <<todo, mem, tried, raw, fetched>>
      BY <2>12 DEF Request
    <3>4. here \in Nat /\ tried[p] \cup {here} \subseteq Nat /\ raw[p] \cup {here} \subseteq Nat
      <4>1. Endpoints(config[p]) \subseteq Nat
        BY <2>0, EndpointsAreNumbers
      <4>2. tried[p] \subseteq Nat /\ raw[p] \subseteq Nat
        BY <2>0
      <4>3. QED BY <3>3, <4>1, <4>2
    <3>5. CASE /\ tried' = [tried EXCEPT ![p] = @ \cup {here}]
               /\ raw' \in {raw, [raw EXCEPT ![p] = @ \cup {here}]}
               /\ UNCHANGED <<todo, pc, mem, src, fetched>>
      <4>1. tried' \in [Procs -> SUBSET Nat] /\ raw' \in [Procs -> SUBSET Nat]
        <5>1. tried \in [Procs -> SUBSET Nat] /\ raw \in [Procs -> SUBSET Nat]
          BY <2>0
        <5>2. tried' \in [Procs -> SUBSET Nat]
          BY <3>4, <3>5, <5>1
        <5>3. raw' \in [Procs -> SUBSET Nat]
          BY <3>4, <3>5, <5>1
        <5>4. QED BY <5>2, <5>3
      <4>2. Busy' /\ Answers'
        BY <3>5 DEF TypeInv, Busy, Answers, Key
      <4>3. QED BY <3>1, <3>5, <4>1, <4>2 DEF TypeInv, StateOK
    <3>6. ASSUME NEW from \in {raw[p], raw[p] \cup {here}}, Answered(p, from)
          PROVE  TypeInv'
      <4> DEFINE m == [key |-> Key(p), from |-> from]
      <4>1. m \in Metadata
        <5>1. from \in SUBSET Nat
          BY <3>4
        <5>2. QED BY <3>2, <5>1 DEF Metadata
      <4>2. fetched' = fetched \cup {m}
        BY <3>6 DEF Answered
      <4>3. fetched' \subseteq Metadata
        BY <2>0, <4>1, <4>2
      <4>4. CASE config[p].disk
        <5>1. /\ mem' = [mem EXCEPT ![p][Key(p)] = m]
              /\ pc' = [pc EXCEPT ![p] = "open"]
              /\ UNCHANGED <<todo, src, tried, raw>>
          BY <3>6, <4>4 DEF Answered
        <5> HIDE DEF m
        <5>2. mem' \in [Procs -> [Keys -> {Unasked, NoMeta} \cup Metadata]]
          BY <2>0, <3>2, <4>1, <5>1
        <5>3. "open" \in Storing /\ mem'[p][Key(p)] \in Metadata /\ \A q \in Procs \ {p} : mem'[q] = mem[q]
          BY <2>0, <3>2, <4>1, <5>1 DEF Storing
        <5>4. QED BY <2>0, <3>1, <4>3, <5>1, <5>2, <5>3, GoOnTypes
      <4>5. CASE ~config[p].disk
        <5>1. ResolvedAs(p, m)
          BY <3>6, <4>5 DEF Answered
        <5> HIDE DEF m
        <5>2. QED BY <2>0, <3>1, <4>1, <4>3, <5>1, ReturnTypes
      <4>6. QED BY <4>4, <4>5
    <3>7. CASE NextSource(p) /\ UNCHANGED <<todo, mem, tried, raw, fetched>>
      BY <2>0, <3>1, <3>7, NextSourceTypes
    <3>8. QED BY <3>3, <3>5, <3>6, <3>7
  <2>13. ASSUME NEW p \in Procs, RequestsFail(p) PROVE TypeInv'
    <3>1. todo[p] # <<>>
      BY <2>13 DEF RequestsFail, TypeInv, Busy
    <3>2. QED BY <2>13, <3>1, NextSourceTypes DEF RequestsFail, disk, ghosts
  <2>14. ASSUME NEW p \in Procs, OpenTmp(p) PROVE TypeInv'
    <3>1. todo[p] # <<>> /\ UNCHANGED <<config, todo, mem, src, tried, raw, path, runs, walks, fetched, disturbed>>
      BY <2>14 DEF OpenTmp, TypeInv, Busy, ghosts
    <3>2. Key(p) \in Keys
      BY <3>1, KeyFacts DEF TypeInv
    <3>3. PICK i \in TmpInode(Key(p)) :
            /\ tmp' = [tmp EXCEPT ![Key(p)] = i]
            /\ fd' = [fd EXCEPT ![p] = i]
            /\ file' = [file EXCEPT ![i] = Torn]
            /\ aged' = aged \ {i}
      BY <2>14 DEF OpenTmp
    <3>4. i \in Inodes
      BY <2>0, <3>2, <3>3 DEF TmpInode, Free
    <3>5. /\ tmp' \in [Keys -> {NoFile} \cup Inodes] /\ fd' \in [Procs -> {NoFile} \cup Inodes]
          /\ file' \in [Inodes -> {Torn} \cup Metadata] /\ aged' \subseteq Inodes
      BY <2>0, <3>3, <3>4
    <3>6. pc' = [pc EXCEPT ![p] = "write"] /\ "write" \in Storing /\ mem'[p][Key(p)] \in Metadata
      BY <2>14, <3>1 DEF OpenTmp, Storing, TypeInv, Answers
    <3>7. QED BY <2>0, <3>1, <3>5, <3>6, GoOnTypes
  <2>15. ASSUME NEW p \in Procs, OpenFails(p) PROVE TypeInv'
    <3>1. todo[p] # <<>>
      BY <2>15 DEF OpenFails, TypeInv, Busy
    <3>2. mem[p][Key(p)] \in {Unasked, NoMeta} \cup Metadata
      BY <2>0, <3>1, KeyFacts DEF TypeInv
    <3>3. QED BY <2>0, <2>15, <3>1, <3>2, ReturnTypes DEF OpenFails, SetReturns, disk
  <2>16. ASSUME NEW p \in Procs, Write(p) PROVE TypeInv'
    <3>1. todo[p] # <<>> /\ UNCHANGED <<config, todo, mem, src, tried, raw, path, tmp, runs, walks, fetched, disturbed>>
      BY <2>16 DEF Write, TypeInv, Busy, ghosts
    <3>2. /\ aged' = aged \ {fd[p]} /\ fd' = [fd EXCEPT ![p] = NoFile]
          /\ pc' = [pc EXCEPT ![p] = "rename"] /\ "rename" \in Storing
      BY <2>16 DEF Write, Storing
    <3>3. PICK b \in {mem[p][Key(p)]} \cup (IF file[fd[p]] = Torn THEN {} ELSE {Torn}) :
            file' = [file EXCEPT ![fd[p]] = b]
      BY <2>16 DEF Write
    <3>4. mem[p][Key(p)] \in Metadata /\ b \in {Torn} \cup Metadata
      BY <2>16, <3>3 DEF TypeInv, Answers, Write, Storing
    <3>5. file' \in [Inodes -> {Torn} \cup Metadata]
      BY <2>0, <3>3, <3>4
    <3>6. fd' \in [Procs -> {NoFile} \cup Inodes] /\ aged' \subseteq Inodes
      BY <2>0, <3>2
    <3>7. QED BY <2>0, <3>1, <3>2, <3>4, <3>5, <3>6, GoOnTypes
  <2>17. ASSUME NEW p \in Procs, WriteFails(p) PROVE TypeInv'
    <3>1. todo[p] # <<>>
      BY <2>17 DEF WriteFails, TypeInv, Busy
    <3>2. mem[p][Key(p)] \in {Unasked, NoMeta} \cup Metadata
      BY <2>0, <3>1, KeyFacts DEF TypeInv
    <3>3. fd' \in [Procs -> {NoFile} \cup Inodes] /\ file' \in [Inodes -> {Torn} \cup Metadata]
      BY <2>0, <2>17 DEF WriteFails
    <3>4. ResolvedAs(p, mem[p][Key(p)]) /\ UNCHANGED <<config, path, tmp, aged, runs, walks, fetched>> /\ disturbed' = TRUE
      BY <2>17 DEF WriteFails, SetReturns
    <3>5. QED BY <2>0, <3>1, <3>2, <3>3, <3>4, ReturnTypes
  <2>18. ASSUME NEW p \in Procs, Rename(p) PROVE TypeInv'
    <3>1. todo[p] # <<>> /\ UNCHANGED <<config, fd, file, aged, runs, walks, fetched, disturbed>>
      BY <2>18 DEF Rename, TypeInv, Busy, ghosts
    <3>2. Key(p) \in Keys /\ mem[p][Key(p)] \in {Unasked, NoMeta} \cup Metadata
      BY <2>0, <3>1, KeyFacts DEF TypeInv
    <3>3. CASE /\ path' = [path EXCEPT ![Key(p)] = tmp[Key(p)]]
               /\ tmp' = [tmp EXCEPT ![Key(p)] = NoFile]
               /\ SetReturns(p)
      <4>1. path' \in [Keys -> {NoFile} \cup Inodes] /\ tmp' \in [Keys -> {NoFile} \cup Inodes]
        BY <2>0, <3>2, <3>3
      <4>2. QED BY <2>0, <3>1, <3>2, <3>3, <4>1, ReturnTypes DEF SetReturns
    <3>4. CASE pc' = [pc EXCEPT ![p] = "unlink"] /\ UNCHANGED <<path, tmp, todo, mem, src, tried, raw>>
      <4>1. "unlink" \in Storing /\ mem'[p][Key(p)] \in Metadata
        BY <2>18, <3>4 DEF Storing, Rename, TypeInv, Answers
      <4>2. QED BY <2>0, <3>1, <3>4, <4>1, GoOnTypes
    <3>5. QED BY <2>18, <3>3, <3>4 DEF Rename
  <2>19. ASSUME NEW p \in Procs, Unlink(p) PROVE TypeInv'
    <3>1. todo[p] # <<>>
      BY <2>19 DEF Unlink, TypeInv, Busy
    <3>2. mem[p][Key(p)] \in {Unasked, NoMeta} \cup Metadata
      BY <2>0, <3>1, KeyFacts DEF TypeInv
    <3>3. tmp' \in [Keys -> {NoFile} \cup Inodes]
      BY <2>0, <2>19 DEF Unlink
    <3>4. QED BY <2>0, <2>19, <3>1, <3>2, <3>3, ReturnTypes DEF Unlink, SetReturns, ghosts
  <2>20. CASE UNCHANGED vars
    BY <2>20 DEF vars, local, disk, ghosts, TypeInv, StateOK, Busy, Answers, Key
  <2>21. QED
    BY <2>1, <2>2, <2>3, <2>4, <2>5, <2>6, <2>7, <2>8, <2>9, <2>10, <2>11, <2>12, <2>13,
       <2>14, <2>15, <2>16, <2>17, <2>18, <2>19, <2>20 DEF Next, Step
<1>3. QED BY <1>1, <1>2, PTL DEF Spec

-----------------------------------------------------------------------------
(***************************************************************************)
(* What the files hold.                                                    *)
(***************************************************************************)

Names(k) == {path[k], tmp[k]} \ {NoFile}

Answer(k) == {m \in fetched : m.key = k}

\* The names of different keys lead to different inodes.
Apart == \A k, l \in Keys : k # l => Names(k) \cap Names(l) = {}

\* A writer's inode, renamed or removed by others meanwhile or not, is never
\* reached through the names of another key.
Writer ==
  \A p \in Procs : pc[p] = "write" =>
    /\ fd[p] \in Inodes
    /\ \A l \in Keys : l # Key(p) => fd[p] \notin Names(l)

\* What a name leads to is torn, or an answer for its key.
Content == \A k \in Keys : \A i \in Names(k) : file[i] \in {Torn} \cup Answer(k)

FilesInv == Apart /\ Writer /\ Content

\* The walks of one run.
WalkInv(p) ==
  /\ \A k \in Keys :
       /\ walks[p][k] \in {0, 1}
       /\ mem[p][k] = NoMeta => walks[p][k] = 1
       /\ walks[p][k] = 1 /\ mem[p][k] = Unasked => pc[p] \in {"walk", "request"} /\ Key(p) = k
  /\ pc[p] \in {"walk", "request"} => walks[p][Key(p)] = 1
  /\ pc[p] \in {"stat", "read", "remove"} => mem[p][Key(p)] = Unasked

\* The endpoints a source has asked are the first ones of the chain.
TriedInv(p) ==
  /\ tried[p] # {} => config[p].network
  /\ pc[p] = "request" => config[p].network
  /\ pc[p] = "stopped" => tried[p] = {}
  /\ tried[p] \subseteq Endpoints(config[p])
  /\ \A e \in tried[p], d \in Endpoints(config[p]) : Precedes(config[p], d, e) => d \in tried[p]

\* A step that adds no name and writes nothing keeps the files in order.
LEMMA FilesKept ==
  ASSUME TypeInv, FilesInv, NEW p \in Procs,
         \A k \in Keys : Names(k)' \subseteq Names(k),
         \A i \in Inodes : file'[i] \in {file[i], Torn},
         fetched \subseteq fetched',
         pc'[p] # "write",
         \A q \in Procs \ {p} : pc'[q] = pc[q] /\ fd'[q] = fd[q] /\ todo'[q] = todo[q]
  PROVE  FilesInv'
<1>1. Apart'
  BY DEF FilesInv, Apart
<1>2. Writer'
  BY DEF FilesInv, Writer, Key
<1>3. Content'
  <2> SUFFICES ASSUME NEW k \in Keys, NEW i \in Names(k)'
               PROVE  file'[i] \in {Torn} \cup Answer(k)'
    BY DEF Content
  <2>1. i \in Names(k) /\ file[i] \in {Torn} \cup Answer(k)
    BY DEF FilesInv, Content
  <2>2. i \in Inodes
    BY <2>1 DEF Names, TypeInv, StateOK
  <2>3. Answer(k) \subseteq Answer(k)'
    BY DEF Answer
  <2>4. QED BY <2>1, <2>2, <2>3
<1>4. QED BY <1>1, <1>2, <1>3 DEF FilesInv

\* The same when the names, files and descriptors stay as they are.
LEMMA FilesUntouched ==
  ASSUME TypeInv, FilesInv, NEW p \in Procs, UNCHANGED <<path, tmp, file, fd>>,
         fetched \subseteq fetched',
         NEW c, c # "write", pc' = [pc EXCEPT ![p] = c],
         \A q \in Procs \ {p} : todo'[q] = todo[q]
  PROVE  FilesInv'
<1>1. \A k \in Keys : Names(k)' \subseteq Names(k)
  BY DEF Names
<1>2. pc'[p] # "write" /\ \A q \in Procs \ {p} : pc'[q] = pc[q]
  BY DEF TypeInv, StateOK
<1>3. QED BY <1>1, <1>2, FilesKept

\* What ResolvedAs leaves alone.
LEMMA ResolvedFrame ==
  ASSUME TypeInv, NEW p \in Procs, NEW m, ResolvedAs(p, m)
  PROVE  /\ pc' = [pc EXCEPT ![p] = "lookup"]
         /\ \A q \in Procs \ {p} : /\ pc'[q] = pc[q] /\ todo'[q] = todo[q] /\ mem'[q] = mem[q]
                                   /\ tried'[q] = tried[q] /\ src'[q] = src[q]
         /\ tried'[p] = {}
         /\ pc'[p] = "lookup"
  BY DEF ResolvedAs, TypeInv, StateOK

\* Opening the temporary file: the inode is the key's own, or nobody's.
LEMMA OpenFiles ==
  ASSUME TypeInv, FilesInv, NEW p \in Procs, OpenTmp(p)
  PROVE  FilesInv'
<1>1. todo[p] # <<>> /\ UNCHANGED <<todo, path, fetched>>
  BY DEF OpenTmp, TypeInv, Busy, ghosts
<1>2. Key(p) \in Keys /\ \A q \in Procs : Key(q)' = Key(q)
  BY <1>1, KeyFacts DEF TypeInv, Key
<1>3. PICK i \in TmpInode(Key(p)) :
        /\ tmp' = [tmp EXCEPT ![Key(p)] = i]
        /\ fd' = [fd EXCEPT ![p] = i]
        /\ file' = [file EXCEPT ![i] = Torn]
  BY DEF OpenTmp
<1>4. pc' = [pc EXCEPT ![p] = "write"]
  BY DEF OpenTmp
<1>5. i \in Inodes
  BY <1>2, <1>3 DEF TmpInode, Free, TypeInv, StateOK
<1>6. \A l \in Keys : l # Key(p) => i \notin Names(l)
  <2> SUFFICES ASSUME NEW l \in Keys, l # Key(p) PROVE i \notin Names(l)
    OBVIOUS
  <2>1. CASE tmp[Key(p)] # NoFile
    <3>1. i = tmp[Key(p)]
      BY <1>3, <2>1 DEF TmpInode
    <3>2. i \in Names(Key(p))
      BY <2>1, <3>1 DEF Names
    <3>3. QED BY <1>2, <3>2 DEF FilesInv, Apart
  <2>2. CASE tmp[Key(p)] = NoFile
    <3>1. i \notin Range(path) \cup Range(tmp)
      BY <1>3, <2>2 DEF TmpInode, Free
    <3>2. QED BY <3>1 DEF Names, Range, TypeInv, StateOK
  <2>3. QED BY <2>1, <2>2
<1>7. \A q \in Procs : pc[q] = "write" /\ Key(q) # Key(p) => fd[q] # i
  <2> SUFFICES ASSUME NEW q \in Procs, pc[q] = "write", Key(q) # Key(p) PROVE fd[q] # i
    OBVIOUS
  <2>1. CASE tmp[Key(p)] # NoFile
    <3>1. i \in Names(Key(p))
      BY <1>3, <2>1 DEF TmpInode, Names
    <3>2. QED BY <1>2, <3>1 DEF FilesInv, Writer
  <2>2. CASE tmp[Key(p)] = NoFile
    <3>1. i \notin Range(fd)
      BY <1>3, <2>2 DEF TmpInode, Free
    <3>2. QED BY <3>1 DEF Range, TypeInv, StateOK
  <2>3. QED BY <2>1, <2>2
<1>8. \A l \in Keys : /\ Names(l)' \subseteq Names(l) \cup {i}
                      /\ l # Key(p) => Names(l)' = Names(l)
  BY <1>1, <1>2, <1>3 DEF Names, TypeInv, StateOK
<1>9. Apart'
  BY <1>2, <1>6, <1>8 DEF FilesInv, Apart
<1>10. Writer'
  <2> SUFFICES ASSUME NEW q \in Procs, pc'[q] = "write"
               PROVE  /\ fd'[q] \in Inodes
                      /\ \A l \in Keys : l # Key(q) => fd'[q] \notin Names(l)'
    BY <1>2 DEF Writer
  <2>1. CASE q = p
    BY <1>3, <1>5, <1>6, <1>8, <2>1 DEF TypeInv, StateOK
  <2>2. CASE q # p
    <3>1. pc[q] = "write" /\ fd'[q] = fd[q]
      BY <1>3, <1>4, <2>2 DEF TypeInv, StateOK
    <3>2. fd[q] \in Inodes /\ \A l \in Keys : l # Key(q) => fd[q] \notin Names(l)
      BY <3>1 DEF FilesInv, Writer
    <3>3. ASSUME NEW l \in Keys, l # Key(q) PROVE fd[q] \notin Names(l)'
      <4>1. CASE l = Key(p)
        BY <1>7, <1>8, <3>1, <3>2, <3>3, <4>1
      <4>2. CASE l # Key(p)
        BY <1>8, <3>2, <3>3, <4>2
      <4>3. QED BY <4>1, <4>2
    <3>4. QED BY <3>1, <3>2, <3>3
  <2>3. QED BY <2>1, <2>2
<1>11. Content'
  <2> SUFFICES ASSUME NEW k \in Keys, NEW n \in Names(k)'
               PROVE  file'[n] \in {Torn} \cup Answer(k)
    BY <1>1 DEF Content, Answer
  <2>1. CASE n = i
    BY <1>3, <1>5, <2>1 DEF TypeInv, StateOK
  <2>2. CASE n # i
    <3>1. n \in Names(k)
      BY <1>8, <2>2
    <3>2. file'[n] = file[n]
      BY <1>3, <2>2, <3>1 DEF Names, TypeInv, StateOK
    <3>3. QED BY <3>1, <3>2 DEF FilesInv, Content
  <2>3. QED BY <2>1, <2>2
<1>12. QED BY <1>9, <1>10, <1>11 DEF FilesInv

\* What a process stores is an answer for the key it resolves.
LEMMA StoresAnswers ==
  ASSUME TypeInv, HandsOutOnlyWholeAnswers, NEW p \in Procs, pc[p] \in Storing
  PROVE  mem[p][Key(p)] \in Answer(Key(p))
<1>1. todo[p] # <<>>
  BY DEF TypeInv, Busy, Storing
<1>2. Key(p) \in Keys
  BY <1>1, KeyFacts DEF TypeInv
<1>3. mem[p][Key(p)] \in Metadata
  BY DEF TypeInv, Answers
<1>4. mem[p][Key(p)] \notin {Unasked, NoMeta}
  BY <1>3, RegistryAssumption
<1>5. QED BY <1>2, <1>4 DEF HandsOutOnlyWholeAnswers, Answer

\* Writing: the inode is reached, if at all, through the key's own names.
LEMMA WriteFiles ==
  ASSUME TypeInv, FilesInv, HandsOutOnlyWholeAnswers, NEW p \in Procs, Write(p)
  PROVE  FilesInv'
<1>1. UNCHANGED <<todo, path, tmp, fetched>> /\ pc[p] = "write"
  BY DEF Write, ghosts
<1>2. (\A k \in Keys : Names(k)' = Names(k) /\ Answer(k)' = Answer(k)) /\ \A q \in Procs : Key(q)' = Key(q)
  BY <1>1 DEF Names, Answer, Key
<1>3. PICK b \in {mem[p][Key(p)], Torn} : file' = [file EXCEPT ![fd[p]] = b]
  BY DEF Write
<1>4. b \in {Torn} \cup Answer(Key(p))
  BY <1>1, <1>3, StoresAnswers DEF Storing
<1>5. fd' = [fd EXCEPT ![p] = NoFile] /\ pc' = [pc EXCEPT ![p] = "rename"]
  BY DEF Write
<1>6. Apart'
  BY <1>2 DEF FilesInv, Apart
<1>7. Writer'
  BY <1>2, <1>5 DEF FilesInv, Writer, TypeInv, StateOK
<1>8. Content'
  <2> SUFFICES ASSUME NEW k \in Keys, NEW n \in Names(k)
               PROVE  file'[n] \in {Torn} \cup Answer(k)
    BY <1>2 DEF Content
  <2>1. n \in Inodes /\ file[n] \in {Torn} \cup Answer(k)
    BY DEF FilesInv, Content, Names, TypeInv, StateOK
  <2>2. CASE n = fd[p]
    <3>1. k = Key(p)
      BY <1>1, <2>2 DEF FilesInv, Writer
    <3>2. QED BY <1>3, <1>4, <2>1, <2>2, <3>1 DEF TypeInv, StateOK
  <2>3. CASE n # fd[p]
    BY <1>3, <2>1, <2>3 DEF TypeInv, StateOK
  <2>4. QED BY <2>2, <2>3
<1>9. QED BY <1>6, <1>7, <1>8 DEF FilesInv

\* One more answer in memory.
LEMMA HandsKept ==
  ASSUME TypeInv, HandsOutOnlyWholeAnswers, NEW p \in Procs, NEW k \in Keys, fetched \subseteq fetched',
         NEW m \in {Unasked, NoMeta} \cup {x \in fetched' : x.key = k},
         mem' = [mem EXCEPT ![p][k] = m]
  PROVE  HandsOutOnlyWholeAnswers'
<1> SUFFICES ASSUME NEW q \in Procs, NEW l \in Keys
             PROVE  mem'[q][l] \in {Unasked, NoMeta} \cup {x \in fetched' : x.key = l}
  BY DEF HandsOutOnlyWholeAnswers
<1>1. CASE q = p /\ l = k
  BY <1>1 DEF TypeInv, StateOK
<1>2. CASE ~(q = p /\ l = k)
  <2>1. mem'[q][l] = mem[q][l]
    BY <1>2 DEF TypeInv, StateOK
  <2>2. QED BY <2>1 DEF HandsOutOnlyWholeAnswers
<1>3. QED BY <1>1, <1>2

SafeInv == FilesInv /\ HandsOutOnlyWholeAnswers

\* Resolve returns, and no file was touched.
LEMMA ReturnSafe ==
  ASSUME TypeInv, SafeInv, NEW p \in Procs, todo[p] # <<>>, fetched \subseteq fetched',
         NEW m \in {Unasked, NoMeta} \cup {x \in fetched' : x.key = Key(p)},
         ResolvedAs(p, m), UNCHANGED <<path, tmp, file, fd>>
  PROVE  SafeInv'
<1>1. Key(p) \in Keys
  BY KeyFacts DEF TypeInv
<1>2. FilesInv'
  <2>1. pc' = [pc EXCEPT ![p] = "lookup"] /\ \A q \in Procs \ {p} : todo'[q] = todo[q]
    BY ResolvedFrame
  <2>2. QED BY <2>1, FilesUntouched DEF SafeInv
<1>3. mem' = [mem EXCEPT ![p][Key(p)] = m]
  BY DEF ResolvedAs
<1>4. HandsOutOnlyWholeAnswers'
  BY <1>1, <1>3, HandsKept DEF SafeInv
<1>5. QED BY <1>2, <1>4 DEF SafeInv

\* Resolve goes on, and neither memory nor a file was touched.
LEMMA GoOnSafe ==
  ASSUME TypeInv, SafeInv, NEW p \in Procs,
         NEW c, c # "write", pc' = [pc EXCEPT ![p] = c],
         \A q \in Procs \ {p} : todo'[q] = todo[q],
         UNCHANGED <<path, tmp, file, fd, mem, fetched>>
  PROVE  SafeInv'
<1>1. FilesInv'
  BY FilesUntouched DEF SafeInv
<1>2. HandsOutOnlyWholeAnswers'
  BY DEF SafeInv, HandsOutOnlyWholeAnswers
<1>3. QED BY <1>1, <1>2 DEF SafeInv

\* The files and the descriptors of others survive an exit.
LEMMA ExitSafe ==
  ASSUME TypeInv, SafeInv, NEW p \in Procs, Exit(p)
  PROVE  SafeInv'
<1>1. UNCHANGED <<path, tmp, file, fetched>>
  BY DEF Exit, disk
<1>2. pc'[p] = "stopped" /\ \A q \in Procs \ {p} : pc'[q] = pc[q] /\ fd'[q] = fd[q] /\ todo'[q] = todo[q]
  BY DEF Exit, TypeInv, StateOK
<1>3. \A k \in Keys : Names(k)' \subseteq Names(k)
  BY <1>1 DEF Names
<1>4. FilesInv'
  BY <1>1, <1>2, <1>3, FilesKept DEF SafeInv
<1>5. mem' = [mem EXCEPT ![p] = [k \in Keys |-> Unasked]]
  BY DEF Exit
<1>6. \A q \in Procs, k \in Keys : mem'[q][k] \in {mem[q][k], Unasked}
  BY <1>5 DEF TypeInv, StateOK
<1>7. HandsOutOnlyWholeAnswers'
  BY <1>1, <1>6 DEF SafeInv, HandsOutOnlyWholeAnswers
<1>8. QED BY <1>4, <1>7 DEF SafeInv

\* Set returns after a step that adds no name and writes nothing.
LEMMA SetReturnsSafe ==
  ASSUME TypeInv, SafeInv, NEW p \in Procs, pc[p] \in Storing, SetReturns(p),
         \A k \in Keys : Names(k)' \subseteq Names(k),
         \A i \in Inodes : file'[i] \in {file[i], Torn},
         \A q \in Procs \ {p} : fd'[q] = fd[q],
         UNCHANGED fetched
  PROVE  SafeInv'
<1>1. todo[p] # <<>>
  BY DEF TypeInv, Busy, Storing
<1>2. Key(p) \in Keys
  BY <1>1, KeyFacts DEF TypeInv
<1>3. ResolvedAs(p, mem[p][Key(p)]) /\ mem' = [mem EXCEPT ![p][Key(p)] = mem[p][Key(p)]]
  BY DEF SetReturns, ResolvedAs
<1>4. mem[p][Key(p)] \in {x \in fetched' : x.key = Key(p)}
  BY StoresAnswers DEF SafeInv, Answer
<1>5. HandsOutOnlyWholeAnswers'
  BY <1>2, <1>3, <1>4, HandsKept DEF SafeInv
<1>6. pc'[p] # "write" /\ \A q \in Procs \ {p} : pc'[q] = pc[q] /\ todo'[q] = todo[q]
  BY <1>3, ResolvedFrame
<1>7. FilesInv'
  BY <1>6, FilesKept DEF SafeInv
<1>8. QED BY <1>5, <1>7 DEF SafeInv

\* The cache directory and the memories stay in order.
LEMMA SafeStep == TypeInv /\ SafeInv /\ [Next]_vars => SafeInv'
<1> SUFFICES ASSUME TypeInv, SafeInv, [Next]_vars PROVE SafeInv'
  OBVIOUS
<1>1. CASE UNCHANGED <<path, tmp, file, fd, pc, todo, fetched, mem>>
  BY <1>1 DEF SafeInv, FilesInv, Apart, Writer, Content, Names, Answer, Key, HandsOutOnlyWholeAnswers
<1>2. ASSUME NEW p \in Procs, Start(p) PROVE SafeInv'
  <2>1. PICK l \in Lists : todo' = [todo EXCEPT ![p] = l]
    BY <1>2 DEF Start
  <2>2. \A q \in Procs \ {p} : todo'[q] = todo[q]
    BY <2>1 DEF TypeInv, StateOK
  <2>3. QED BY <1>2, <2>2, GoOnSafe DEF Start, disk
<1>3. ASSUME NEW p \in Procs, Exit(p) PROVE SafeInv'
  BY <1>3, ExitSafe
<1>4. ASSUME NEW p \in Procs, Lookup(p) PROVE SafeInv'
  <2>1. todo[p] # <<>> /\ UNCHANGED <<path, tmp, file, fd, fetched>>
    BY <1>4 DEF Lookup, disk
  <2>2. CASE ResolvedAs(p, mem[p][Key(p)])
    <3>1. mem[p][Key(p)] \in {Unasked, NoMeta} \cup {x \in fetched' : x.key = Key(p)}
      BY <2>1, KeyFacts DEF TypeInv, SafeInv, HandsOutOnlyWholeAnswers
    <3>2. QED BY <2>1, <2>2, <3>1, ReturnSafe
  <2>3. CASE pc' = [pc EXCEPT ![p] = "stat"] /\ UNCHANGED <<todo, mem>>
    BY <2>1, <2>3, GoOnSafe
  <2>4. CASE StartWalk(p) /\ UNCHANGED <<todo, mem>>
    BY <2>1, <2>4, GoOnSafe DEF StartWalk
  <2>5. QED BY <1>4, <2>2, <2>3, <2>4 DEF Lookup
<1>5. ASSUME NEW p \in Procs, Stat(p) PROVE SafeInv'
  <2>1. PICK c \in {"walk", "remove", "read"} : pc' = [pc EXCEPT ![p] = c]
    BY <1>5 DEF Stat, StartWalk
  <2>2. QED BY <1>5, <2>1, GoOnSafe DEF Stat, disk
<1>6. ASSUME NEW p \in Procs, Read(p) PROVE SafeInv'
  <2>1. todo[p] # <<>> /\ UNCHANGED <<path, tmp, file, fd, fetched>>
    BY <1>6 DEF Read, disk, TypeInv, Busy
  <2>2. CASE /\ path[Key(p)] # NoFile
             /\ file[path[Key(p)]] # Torn
             /\ ResolvedAs(p, file[path[Key(p)]])
    <3>1. path[Key(p)] \in Names(Key(p)) /\ Key(p) \in Keys
      BY <2>1, <2>2, KeyFacts DEF TypeInv, Names
    <3>2. file[path[Key(p)]] \in Answer(Key(p))
      BY <2>2, <3>1 DEF SafeInv, FilesInv, Content
    <3>3. file[path[Key(p)]] \in {x \in fetched' : x.key = Key(p)}
      BY <2>1, <3>2 DEF Answer
    <3>4. QED BY <2>1, <2>2, <3>3, ReturnSafe
  <2>3. CASE StartWalk(p) /\ UNCHANGED <<todo, mem>>
    BY <2>1, <2>3, GoOnSafe DEF StartWalk
  <2>4. QED BY <1>6, <2>2, <2>3 DEF Read
<1>7. ASSUME NEW p \in Procs, Corrupt(p) PROVE SafeInv'
  BY <1>7, GoOnSafe DEF Corrupt, disk, ghosts
<1>8. ASSUME NEW p \in Procs, Remove(p) PROVE SafeInv'
  <2>1. UNCHANGED <<todo, mem, fd, tmp, file, fetched>> /\ path' = [path EXCEPT ![Key(p)] = NoFile]
    BY <1>8 DEF Remove
  <2>2. pc'[p] # "write" /\ \A q \in Procs \ {p} : pc'[q] = pc[q]
    BY <1>8 DEF Remove, StartWalk, TypeInv, StateOK
  <2>3. \A k \in Keys : Names(k)' \subseteq Names(k)
    BY <2>1 DEF Names, TypeInv, StateOK
  <2>4. FilesInv'
    BY <2>1, <2>2, <2>3, FilesKept DEF SafeInv
  <2>5. HandsOutOnlyWholeAnswers'
    BY <2>1 DEF SafeInv, HandsOutOnlyWholeAnswers
  <2>6. QED BY <2>4, <2>5 DEF SafeInv
<1>9. ASSUME NEW p \in Procs, Walk(p) PROVE SafeInv'
  <2>1. PICK c \in {"walk", "request"} : pc' = [pc EXCEPT ![p] = c]
    BY <1>9 DEF Walk, NextSource
  <2>2. QED BY <1>9, <2>1, GoOnSafe DEF Walk, disk, ghosts
<1>10. ASSUME NEW p \in Procs, WalkEnds(p) PROVE SafeInv'
  <2>1. todo[p] # <<>>
    BY <1>10 DEF WalkEnds, TypeInv, Busy
  <2>2. QED BY <1>10, <2>1, ReturnSafe DEF WalkEnds, disk, ghosts
<1>11. ASSUME NEW p \in Procs, Request(p) PROVE SafeInv'
  <2>1. todo[p] # <<>> /\ UNCHANGED <<path, tmp, file, fd>>
    BY <1>11 DEF Request, disk, TypeInv, Busy
  <2>2. Key(p) \in Keys
    BY <2>1, KeyFacts DEF TypeInv
  <2>3. ASSUME NEW from, Answered(p, from) PROVE SafeInv'
    <3> DEFINE m == [key |-> Key(p), from |-> from]
    <3>1. fetched' = fetched \cup {m}
      BY <2>3 DEF Answered
    <3>2. m \in {x \in fetched' : x.key = Key(p)}
      BY <3>1
    <3>3. CASE config[p].disk
      <4>1. /\ mem' = [mem EXCEPT ![p][Key(p)] = m]
            /\ pc' = [pc EXCEPT ![p] = "open"]
            /\ UNCHANGED todo
        BY <2>3, <3>3 DEF Answered
      <4> HIDE DEF m
      <4>2. HandsOutOnlyWholeAnswers'
        BY <2>2, <3>1, <3>2, <4>1, HandsKept DEF SafeInv
      <4>3. FilesInv'
        BY <2>1, <3>1, <4>1, FilesUntouched DEF SafeInv
      <4>4. QED BY <4>2, <4>3 DEF SafeInv
    <3>4. CASE ~config[p].disk
      <4>1. ResolvedAs(p, m)
        BY <2>3, <3>4 DEF Answered
      <4> HIDE DEF m
      <4>2. QED BY <2>1, <3>1, <3>2, <4>1, ReturnSafe
    <3>5. QED BY <3>3, <3>4
  <2>4. CASE UNCHANGED <<todo, pc, mem, fetched>>
    BY <1>1, <2>1, <2>4
  <2>5. CASE NextSource(p) /\ UNCHANGED <<todo, mem, fetched>>
    BY <2>1, <2>5, GoOnSafe DEF NextSource
  <2>6. QED BY <1>11, <2>3, <2>4, <2>5 DEF Request
<1>12. ASSUME NEW p \in Procs, RequestsFail(p) PROVE SafeInv'
  BY <1>12, GoOnSafe DEF RequestsFail, NextSource, disk, ghosts
<1>13. ASSUME NEW p \in Procs, OpenTmp(p) PROVE SafeInv'
  <2>1. HandsOutOnlyWholeAnswers'
    BY <1>13 DEF OpenTmp, ghosts, SafeInv, HandsOutOnlyWholeAnswers
  <2>2. QED BY <1>13, <2>1, OpenFiles DEF SafeInv
<1>14. ASSUME NEW p \in Procs, OpenFails(p) PROVE SafeInv'
  <2>1. UNCHANGED <<path, tmp, file, fd, fetched>> /\ SetReturns(p) /\ pc[p] \in Storing
    BY <1>14 DEF OpenFails, disk, Storing
  <2>2. \A k \in Keys : Names(k)' \subseteq Names(k)
    BY <2>1 DEF Names
  <2>3. QED BY <2>1, <2>2, SetReturnsSafe
<1>15. ASSUME NEW p \in Procs, Write(p) PROVE SafeInv'
  <2>1. HandsOutOnlyWholeAnswers'
    BY <1>15 DEF Write, ghosts, SafeInv, HandsOutOnlyWholeAnswers
  <2>2. QED BY <1>15, <2>1, WriteFiles DEF SafeInv
<1>16. ASSUME NEW p \in Procs, WriteFails(p) PROVE SafeInv'
  <2>1. UNCHANGED <<path, tmp, fetched>> /\ SetReturns(p) /\ pc[p] \in Storing
    BY <1>16 DEF WriteFails, Storing
  <2>2. \A k \in Keys : Names(k)' \subseteq Names(k)
    BY <2>1 DEF Names
  <2>3. (\A i \in Inodes : file'[i] \in {file[i], Torn}) /\ \A q \in Procs \ {p} : fd'[q] = fd[q]
    BY <1>16 DEF WriteFails, TypeInv, StateOK
  <2>4. QED BY <2>1, <2>2, <2>3, SetReturnsSafe
<1>17. ASSUME NEW p \in Procs, Rename(p) PROVE SafeInv'
  <2>1. UNCHANGED <<fd, file, fetched>> /\ pc[p] \in Storing
    BY <1>17 DEF Rename, ghosts, Storing
  <2>2. CASE /\ path' = [path EXCEPT ![Key(p)] = tmp[Key(p)]]
             /\ tmp' = [tmp EXCEPT ![Key(p)] = NoFile]
             /\ SetReturns(p)
    <3>1. \A k \in Keys : Names(k)' \subseteq Names(k)
      BY <2>2 DEF Names, TypeInv, StateOK
    <3>2. QED BY <2>1, <2>2, <3>1, SetReturnsSafe
  <2>3. CASE pc' = [pc EXCEPT ![p] = "unlink"] /\ UNCHANGED <<path, tmp, todo, mem>>
    BY <2>1, <2>3, GoOnSafe
  <2>4. QED BY <1>17, <2>2, <2>3 DEF Rename
<1>18. ASSUME NEW p \in Procs, Unlink(p) PROVE SafeInv'
  <2>1. UNCHANGED <<fd, path, file, fetched>> /\ SetReturns(p) /\ pc[p] \in Storing /\ tmp' = [tmp EXCEPT ![Key(p)] = NoFile]
    BY <1>18 DEF Unlink, ghosts, Storing
  <2>2. \A k \in Keys : Names(k)' \subseteq Names(k)
    BY <2>1 DEF Names, TypeInv, StateOK
  <2>3. QED BY <2>1, <2>2, SetReturnsSafe
<1>19. CASE Age
  BY <1>1, <1>19 DEF Age, local
<1>20. CASE UNCHANGED vars
  BY <1>1, <1>20 DEF vars, local, disk, ghosts
<1>21. QED
  BY <1>2, <1>3, <1>4, <1>5, <1>6, <1>7, <1>8, <1>9, <1>10, <1>11, <1>12, <1>13, <1>14, <1>15,
     <1>16, <1>17, <1>18, <1>19, <1>20 DEF Next, Step, Kill, Done

\* The invariant of the files and of what is taken from them.
LEMMA SafeInvariant == Spec => []SafeInv
<1>1. Init => SafeInv
  <2> SUFFICES ASSUME Init PROVE SafeInv
    OBVIOUS
  <2>1. \A k \in Keys : Names(k) = {}
    BY DEF Init, Names
  <2>2. \A p \in Procs : pc[p] # "write"
    BY DEF Init
  <2>3. HandsOutOnlyWholeAnswers
    BY DEF Init, HandsOutOnlyWholeAnswers
  <2>4. QED BY <2>1, <2>2, <2>3 DEF SafeInv, FilesInv, Apart, Writer, Content
<1>2. QED BY <1>1, SafeStep, TypeInvariant, PTL DEF Spec

\* HandsOutOnlyWholeAnswers for any number of processes, however their writes,
\* renames and removals of the same file interleave (DiskCache.Get, Set).
THEOREM WholeAnswersTheorem == Spec => []HandsOutOnlyWholeAnswers
<1>1. SafeInv => HandsOutOnlyWholeAnswers
  BY DEF SafeInv
<1>2. QED BY <1>1, SafeInvariant, PTL

-----------------------------------------------------------------------------
(***************************************************************************)
(* What one run asks.                                                      *)
(***************************************************************************)

\* Processes share nothing but the files.
Others(p) ==
  \A q \in Procs \ {p} :
    /\ walks'[q] = walks[q] /\ mem'[q] = mem[q] /\ pc'[q] = pc[q]
    /\ todo'[q] = todo[q] /\ tried'[q] = tried[q] /\ config'[q] = config[q] /\ src'[q] = src[q]

LEMMA OthersStep ==
  ASSUME TypeInv, NEW p \in Procs, Start(p) \/ Kill(p) \/ Step(p)
  PROVE  Others(p)
<1> USE DEF Others
<1>1. \A m : ResolvedAs(p, m) /\ UNCHANGED <<walks, config>> => Others(p)
  <2> SUFFICES ASSUME NEW m, ResolvedAs(p, m), UNCHANGED <<walks, config>> PROVE Others(p)
    OBVIOUS
  <2>1. QED BY ResolvedFrame
<1>2. CASE Start(p)
  <2>1. PICK c, l : config' = [config EXCEPT ![p] = c] /\ todo' = [todo EXCEPT ![p] = l]
    BY <1>2 DEF Start
  <2>2. QED BY <1>2, <2>1 DEF Start, TypeInv, StateOK
<1>3. CASE Exit(p)
  BY <1>3 DEF Exit, TypeInv, StateOK
<1>4. CASE Lookup(p)
  <2>1. CASE ResolvedAs(p, mem[p][Key(p)]) /\ UNCHANGED <<walks, config>>
    BY <1>1, <2>1
  <2>2. CASE pc' = [pc EXCEPT ![p] = "stat"] /\ UNCHANGED <<todo, mem, src, tried, walks, config>>
    BY <2>2 DEF TypeInv, StateOK
  <2>3. CASE StartWalk(p) /\ UNCHANGED <<todo, mem, tried, config>>
    BY <2>3 DEF StartWalk, TypeInv, StateOK
  <2>4. QED BY <1>4, <2>1, <2>2, <2>3 DEF Lookup
<1>5. CASE Stat(p)
  <2>1. PICK c : pc' = [pc EXCEPT ![p] = c]
    BY <1>5 DEF Stat, StartWalk
  <2>2. \A q \in Procs \ {p} : walks'[q] = walks[q] /\ src'[q] = src[q]
    BY <1>5 DEF Stat, StartWalk, TypeInv, StateOK
  <2>3. QED BY <1>5, <2>1, <2>2 DEF Stat, TypeInv, StateOK
<1>6. CASE Read(p)
  <2>1. CASE StartWalk(p) /\ UNCHANGED <<todo, mem, tried, config>>
    BY <2>1 DEF StartWalk, TypeInv, StateOK
  <2>2. CASE ResolvedAs(p, file[path[Key(p)]]) /\ UNCHANGED <<walks, config>>
    BY <1>1, <2>2
  <2>3. QED BY <1>6, <2>1, <2>2 DEF Read
<1>7. CASE Corrupt(p)
  BY <1>7 DEF Corrupt, ghosts, TypeInv, StateOK
<1>8. CASE Remove(p)
  BY <1>8 DEF Remove, StartWalk, TypeInv, StateOK
<1>9. CASE Walk(p)
  <2>1. PICK c : pc' = [pc EXCEPT ![p] = c]
    BY <1>9 DEF Walk, NextSource
  <2>2. \A q \in Procs \ {p} : tried'[q] = tried[q] /\ src'[q] = src[q]
    BY <1>9 DEF Walk, NextSource, TypeInv, StateOK
  <2>3. QED BY <1>9, <2>1, <2>2 DEF Walk, TypeInv, StateOK
<1>10. CASE WalkEnds(p)
  BY <1>1, <1>10 DEF WalkEnds, ghosts
<1>11. CASE Request(p)
  <2>1. UNCHANGED <<config, walks>>
    BY <1>11 DEF Request
  <2>2. PICK here \in Endpoints(config[p]) :
          \/ /\ tried' = [tried EXCEPT ![p] = @ \cup {here}]
             /\ UNCHANGED <<todo, pc, mem, src>>
          \/ \E from \in {raw[p], raw[p] \cup {here}} : Answered(p, from)
          \/ NextSource(p) /\ UNCHANGED <<todo, mem, tried>>
    BY <1>11 DEF Request
  <2>3. CASE tried' = [tried EXCEPT ![p] = @ \cup {here}] /\ UNCHANGED <<todo, pc, mem, src>>
    BY <2>1, <2>3 DEF TypeInv, StateOK
  <2>4. ASSUME NEW from, Answered(p, from) PROVE Others(p)
    <3>1. PICK m : \/ ResolvedAs(p, m)
                   \/ /\ mem' = [mem EXCEPT ![p][Key(p)] = m]
                      /\ pc' = [pc EXCEPT ![p] = "open"]
                      /\ UNCHANGED <<todo, src, tried>>
      BY <2>4 DEF Answered
    <3>2. QED BY <1>1, <2>1, <3>1 DEF TypeInv, StateOK
  <2>5. CASE NextSource(p) /\ UNCHANGED <<todo, mem, tried>>
    BY <2>1, <2>5 DEF NextSource, TypeInv, StateOK
  <2>6. QED BY <2>2, <2>3, <2>4, <2>5
<1>12. CASE RequestsFail(p)
  BY <1>12 DEF RequestsFail, NextSource, ghosts, TypeInv, StateOK
<1>13. CASE OpenTmp(p)
  BY <1>13 DEF OpenTmp, ghosts, TypeInv, StateOK
<1>14. CASE OpenFails(p)
  BY <1>1, <1>14 DEF OpenFails, SetReturns
<1>15. CASE Write(p)
  BY <1>15 DEF Write, ghosts, TypeInv, StateOK
<1>16. CASE WriteFails(p)
  BY <1>1, <1>16 DEF WriteFails, SetReturns
<1>17. CASE Rename(p)
  <2>1. CASE SetReturns(p)
    BY <1>1, <1>17, <2>1 DEF SetReturns, Rename, ghosts
  <2>2. CASE pc' = [pc EXCEPT ![p] = "unlink"] /\ UNCHANGED <<todo, mem, src, tried>>
    BY <1>17, <2>2 DEF Rename, ghosts, TypeInv, StateOK
  <2>3. QED BY <1>17, <2>1, <2>2 DEF Rename
<1>18. CASE Unlink(p)
  BY <1>1, <1>18 DEF Unlink, SetReturns, ghosts
<1>19. QED
  BY <1>2, <1>3, <1>4, <1>5, <1>6, <1>7, <1>8, <1>9, <1>10, <1>11, <1>12, <1>13, <1>14, <1>15,
     <1>16, <1>17, <1>18 DEF Step, Kill, Done

\* Resolve returns: a nil only after a walk.
LEMMA WalkReturns ==
  ASSUME TypeInv, NEW p \in Procs, WalkInv(p), todo[p] # <<>>,
         NEW m \in {NoMeta} \cup Metadata, m = NoMeta => walks[p][Key(p)] = 1,
         ResolvedAs(p, m), UNCHANGED walks
  PROVE  WalkInv(p)'
<1>1. pc'[p] = "lookup"
  BY ResolvedFrame
<1>2. m # Unasked
  BY RegistryAssumption, NilIsNoMetadata
<1>3. Key(p) \in Keys
  BY KeyFacts DEF TypeInv
<1>4. \A k \in Keys : mem'[p][k] = IF k = Key(p) THEN m ELSE mem[p][k]
  BY <1>3 DEF ResolvedAs, TypeInv, StateOK
<1>5. ASSUME NEW k \in Keys
      PROVE  /\ walks'[p][k] \in {0, 1}
             /\ mem'[p][k] = NoMeta => walks'[p][k] = 1
             /\ ~(walks'[p][k] = 1 /\ mem'[p][k] = Unasked)
  <2>1. CASE k = Key(p)
    BY <1>2, <1>3, <1>4, <2>1 DEF WalkInv
  <2>2. CASE k # Key(p)
    BY <1>4, <2>2 DEF WalkInv
  <2>3. QED BY <2>1, <2>2
<1>6. QED BY <1>1, <1>5 DEF WalkInv

\* The walk starts: it is the run's first one for the key.
LEMMA WalkStarts ==
  ASSUME TypeInv, NEW p \in Procs, WalkInv(p), todo[p] # <<>>,
         pc[p] \in {"lookup", "stat", "read", "remove"}, mem[p][Key(p)] = Unasked,
         StartWalk(p), UNCHANGED <<todo, mem>>
  PROVE  WalkInv(p)'
<1>1. Key(p) \in Keys /\ Key(p)' = Key(p)
  BY KeyFacts DEF TypeInv, Key
<1>2. pc'[p] = "walk" /\ walks' = [walks EXCEPT ![p][Key(p)] = @ + 1]
  BY DEF StartWalk, TypeInv, StateOK
<1>3. walks[p][Key(p)] = 0
  BY <1>1 DEF WalkInv
<1>4. walks'[p][Key(p)] = 1 /\ \A k \in Keys : k # Key(p) => walks'[p][k] = walks[p][k]
  BY <1>1, <1>2, <1>3 DEF TypeInv, StateOK
<1>5. ASSUME NEW k \in Keys
      PROVE  /\ walks'[p][k] \in {0, 1}
             /\ mem'[p][k] = NoMeta => walks'[p][k] = 1
             /\ walks'[p][k] = 1 /\ mem'[p][k] = Unasked => Key(p)' = k
  <2>1. CASE k = Key(p)
    BY <1>1, <1>4, <2>1
  <2>2. CASE k # Key(p)
    BY <1>4, <2>2 DEF WalkInv
  <2>3. QED BY <2>1, <2>2
<1>6. QED BY <1>1, <1>2, <1>4, <1>5 DEF WalkInv

\* Any other step within Resolve.
LEMMA WalkGoesOn ==
  ASSUME TypeInv, NEW p \in Procs, WalkInv(p), NEW c, pc' = [pc EXCEPT ![p] = c],
         UNCHANGED <<todo, mem, walks>>,
         pc[p] \in {"walk", "request"} <=> c \in {"walk", "request"},
         c \in {"stat", "read", "remove"} => mem[p][Key(p)] = Unasked
  PROVE  WalkInv(p)'
<1>1. pc'[p] = c
  BY DEF TypeInv, StateOK
<1>2. QED BY <1>1 DEF WalkInv, Key

\* A process walks the chain once for a key and says "nobody had anything" only
\* after that.
LEMMA WalkStep ==
  ASSUME TypeInv, NEW p \in Procs, WalkInv(p), Start(p) \/ Kill(p) \/ Step(p)
  PROVE  WalkInv(p)'
<1>1. CASE Start(p)
  <2>1. pc'[p] = "lookup" /\ UNCHANGED <<mem, walks>> /\ pc[p] = "stopped"
    BY <1>1 DEF Start, Running, TypeInv, StateOK
  <2>2. QED BY <2>1 DEF WalkInv
<1>2. CASE Exit(p)
  <2>1. pc'[p] = "stopped" /\ \A k \in Keys : walks'[p][k] = 0 /\ mem'[p][k] = Unasked
    BY <1>2 DEF Exit, TypeInv, StateOK
  <2>2. Unasked # NoMeta
    BY NilIsNoMetadata
  <2>3. QED BY <2>1, <2>2 DEF WalkInv
<1>3. CASE Lookup(p)
  <2>1. todo[p] # <<>> /\ pc[p] = "lookup"
    BY <1>3 DEF Lookup
  <2>2. CASE mem[p][Key(p)] # Unasked /\ ResolvedAs(p, mem[p][Key(p)]) /\ UNCHANGED walks
    <3>1. Key(p) \in Keys
      BY <2>1, KeyFacts DEF TypeInv
    <3>2. mem[p][Key(p)] \in {NoMeta} \cup Metadata
      BY <2>2, <3>1 DEF TypeInv, StateOK
    <3>3. mem[p][Key(p)] = NoMeta => walks[p][Key(p)] = 1
      BY <3>1 DEF WalkInv
    <3>4. QED BY <2>1, <2>2, <3>2, <3>3, WalkReturns
  <2>3. CASE mem[p][Key(p)] = Unasked /\ pc' = [pc EXCEPT ![p] = "stat"] /\ UNCHANGED <<todo, mem, walks>>
    BY <2>1, <2>3, WalkGoesOn
  <2>4. CASE mem[p][Key(p)] = Unasked /\ StartWalk(p) /\ UNCHANGED <<todo, mem>>
    BY <2>1, <2>4, WalkStarts
  <2>5. QED BY <1>3, <2>2, <2>3, <2>4 DEF Lookup
<1>4. CASE Stat(p)
  <2>1. todo[p] # <<>> /\ pc[p] = "stat" /\ UNCHANGED <<todo, mem>>
    BY <1>4 DEF Stat, TypeInv, Busy
  <2>2. mem[p][Key(p)] = Unasked
    BY <2>1 DEF WalkInv
  <2>3. CASE StartWalk(p)
    BY <2>1, <2>2, <2>3, WalkStarts
  <2>4. CASE \E c \in {"read", "remove"} : pc' = [pc EXCEPT ![p] = c] /\ UNCHANGED walks
    BY <2>1, <2>2, <2>4, WalkGoesOn
  <2>5. QED BY <1>4, <2>3, <2>4 DEF Stat
<1>5. CASE Read(p)
  <2>1. todo[p] # <<>> /\ pc[p] = "read"
    BY <1>5 DEF Read, TypeInv, Busy
  <2>2. CASE StartWalk(p) /\ UNCHANGED <<todo, mem>>
    BY <2>1, <2>2, WalkStarts DEF WalkInv
  <2>3. CASE /\ path[Key(p)] # NoFile /\ file[path[Key(p)]] # Torn
             /\ ResolvedAs(p, file[path[Key(p)]]) /\ UNCHANGED walks
    <3>1. Key(p) \in Keys
      BY <2>1, KeyFacts DEF TypeInv
    <3>2. file[path[Key(p)]] \in Metadata
      BY <2>3, <3>1 DEF TypeInv, StateOK
    <3>3. QED BY <2>1, <2>3, <3>2, WalkReturns, NilIsNoMetadata
  <2>4. QED BY <1>5, <2>2, <2>3 DEF Read
<1>6. CASE Corrupt(p)
  <2>1. pc[p] = "read" /\ pc' = [pc EXCEPT ![p] = "remove"] /\ UNCHANGED <<todo, mem, walks>>
    BY <1>6 DEF Corrupt, ReadsTorn, ghosts
  <2>2. mem[p][Key(p)] = Unasked
    BY <2>1 DEF WalkInv
  <2>3. QED BY <2>1, <2>2, WalkGoesOn
<1>7. CASE Remove(p)
  <2>1. todo[p] # <<>> /\ pc[p] = "remove" /\ StartWalk(p) /\ UNCHANGED <<todo, mem>>
    BY <1>7 DEF Remove, TypeInv, Busy
  <2>2. QED BY <2>1, WalkStarts DEF WalkInv
<1>8. CASE \E c \in {"walk", "request"} : /\ pc' = [pc EXCEPT ![p] = c] /\ pc[p] \in {"walk", "request"}
                                          /\ UNCHANGED <<todo, mem, walks>>
  BY <1>8, WalkGoesOn
<1>9. CASE Walk(p)
  BY <1>8, <1>9 DEF Walk, NextSource, ghosts
<1>10. CASE WalkEnds(p)
  <2>1. todo[p] # <<>> /\ pc[p] = "walk" /\ ResolvedAs(p, NoMeta) /\ UNCHANGED walks
    BY <1>10 DEF WalkEnds, TypeInv, Busy, ghosts
  <2>2. walks[p][Key(p)] = 1
    BY <2>1 DEF WalkInv
  <2>3. QED BY <2>1, <2>2, WalkReturns
<1>11. CASE Request(p)
  <2>1. pc[p] = "request" /\ todo[p] # <<>> /\ UNCHANGED walks
    BY <1>11 DEF Request, TypeInv, Busy
  <2>2. Key(p) \in Keys
    BY <2>1, KeyFacts DEF TypeInv
  <2>3. PICK here \in Endpoints(config[p]) :
          \/ UNCHANGED <<todo, pc, mem>>
          \/ \E from \in {raw[p], raw[p] \cup {here}} : Answered(p, from)
          \/ NextSource(p) /\ UNCHANGED <<todo, mem>>
    BY <1>11 DEF Request
  <2>4. CASE UNCHANGED <<todo, pc, mem>>
    BY <2>1, <2>4 DEF WalkInv, Key
  <2>5. ASSUME NEW from \in {raw[p], raw[p] \cup {here}}, Answered(p, from) PROVE WalkInv(p)'
    <3> DEFINE m == [key |-> Key(p), from |-> from]
    <3>1. m \in Metadata
      <4>1. Endpoints(config[p]) \subseteq Nat
        BY EndpointsAreNumbers DEF TypeInv, StateOK
      <4>2. from \subseteq Nat
        <5>1. raw[p] \subseteq Nat
          BY DEF TypeInv, StateOK
        <5>2. QED BY <4>1, <5>1
      <4>3. QED BY <2>2, <4>2 DEF Metadata
    <3>2. \/ ResolvedAs(p, m)
          \/ /\ mem' = [mem EXCEPT ![p][Key(p)] = m]
             /\ pc' = [pc EXCEPT ![p] = "open"]
             /\ UNCHANGED todo
      BY <2>5 DEF Answered
    <3> HIDE DEF m
    <3>3. m \notin {Unasked, NoMeta}
      BY <3>1, NilIsNoMetadata
    <3>4. CASE ResolvedAs(p, m)
      BY <2>1, <3>1, <3>3, <3>4, WalkReturns
    <3>5. CASE /\ mem' = [mem EXCEPT ![p][Key(p)] = m]
               /\ pc' = [pc EXCEPT ![p] = "open"]
      <4>1. pc'[p] = "open" /\ \A k \in Keys : mem'[p][k] = IF k = Key(p) THEN m ELSE mem[p][k]
        BY <2>2, <3>5 DEF TypeInv, StateOK
      <4>2. ASSUME NEW k \in Keys
            PROVE  /\ walks'[p][k] \in {0, 1}
                   /\ mem'[p][k] = NoMeta => walks'[p][k] = 1
                   /\ ~(walks'[p][k] = 1 /\ mem'[p][k] = Unasked)
        <5>1. CASE k = Key(p)
          BY <2>1, <2>2, <3>3, <4>1, <5>1 DEF WalkInv
        <5>2. CASE k # Key(p)
          BY <2>1, <4>1, <5>2 DEF WalkInv
        <5>3. QED BY <5>1, <5>2
      <4>3. QED BY <4>1, <4>2 DEF WalkInv
    <3>6. QED BY <3>2, <3>4, <3>5
  <2>6. CASE NextSource(p) /\ UNCHANGED <<todo, mem>>
    BY <1>8, <2>1, <2>6 DEF NextSource
  <2>7. QED BY <2>3, <2>4, <2>5, <2>6
<1>12. CASE RequestsFail(p)
  BY <1>8, <1>12 DEF RequestsFail, NextSource, ghosts
<1>13. CASE \E c \in Storing : /\ pc' = [pc EXCEPT ![p] = c] /\ pc[p] \in Storing
                               /\ UNCHANGED <<todo, mem, walks>>
  BY <1>13, WalkGoesOn DEF Storing
<1>14. CASE OpenTmp(p) \/ Write(p)
  BY <1>13, <1>14 DEF OpenTmp, Write, ghosts, Storing
<1>15. CASE pc[p] \in Storing /\ SetReturns(p) /\ UNCHANGED walks
  <2>1. todo[p] # <<>> /\ mem[p][Key(p)] \in Metadata
    BY <1>15 DEF TypeInv, Busy, Answers, Storing
  <2>2. QED BY <1>15, <2>1, WalkReturns, NilIsNoMetadata DEF SetReturns
<1>16. CASE OpenFails(p) \/ WriteFails(p) \/ Unlink(p)
  BY <1>15, <1>16 DEF OpenFails, WriteFails, Unlink, ghosts, Storing
<1>17. CASE Rename(p)
  BY <1>13, <1>15, <1>17 DEF Rename, ghosts, Storing
<1>18. QED
  BY <1>1, <1>2, <1>3, <1>4, <1>5, <1>6, <1>7, <1>9, <1>10, <1>11, <1>12, <1>14,
     <1>16, <1>17 DEF Step, Kill, Done

WalksInv == \A p \in Procs : WalkInv(p)

\* The invariant of the walks.
LEMMA WalksInvariant == Spec => []WalksInv
<1>1. Init => WalksInv
  BY NilIsNoMetadata DEF Init, WalksInv, WalkInv
<1>2. TypeInv /\ WalksInv /\ [Next]_vars => WalksInv'
  <2> SUFFICES ASSUME TypeInv, WalksInv, [Next]_vars, NEW q \in Procs PROVE WalkInv(q)'
    BY DEF WalksInv
  <2>1. CASE Age \/ UNCHANGED vars
    BY <2>1 DEF Age, vars, local, ghosts, WalksInv, WalkInv, Key
  <2>2. ASSUME NEW p \in Procs, Start(p) \/ Kill(p) \/ Step(p) PROVE WalkInv(q)'
    <3>1. CASE q = p
      BY <2>2, <3>1, WalkStep DEF WalksInv
    <3>2. CASE q # p
      <4>1. Others(p)
        BY <2>2, OthersStep
      <4>2. walks'[q] = walks[q] /\ mem'[q] = mem[q] /\ pc'[q] = pc[q] /\ todo'[q] = todo[q]
        BY <3>2, <4>1 DEF Others
      <4>3. QED BY <4>2 DEF WalksInv, WalkInv, Key
    <3>3. QED BY <3>1, <3>2
  <2>3. QED BY <2>1, <2>2 DEF Next
<1>3. QED BY <1>1, <1>2, TypeInvariant, PTL DEF Spec

\* OneWalkPerRun: the memory cache spares a run the second walk (Resolve).
THEOREM OneWalkTheorem == Spec => []OneWalkPerRun
<1>1. WalksInv => OneWalkPerRun
  BY DEF WalksInv, WalkInv, OneWalkPerRun
<1>2. QED BY <1>1, WalksInvariant, PTL

-----------------------------------------------------------------------------
(***************************************************************************)
(* What a nil stands for.                                                  *)
(***************************************************************************)

\* The sources of k before the n-th that have a service to ask were called.
AskedBelow(k, n) ==
  \A i \in DOMAIN SourcesFor[k] : i < n /\ SourcesFor[k][i] = "http" => <<k, i>> \in asked

\* In a run with the network the walk has called every source it has passed, and
\* a nil comes from the end of a walk; a stopped process holds nothing.
AskedInv(p) ==
  /\ config[p].network =>
       /\ \A k \in Keys : mem[p][k] = NoMeta => AskedBelow(k, Len(SourcesFor[k]) + 1)
       /\ pc[p] = "walk" => AskedBelow(Key(p), src[p])
       /\ pc[p] = "request" => AskedBelow(Key(p), src[p] + 1)
  /\ pc[p] = "stopped" => \A k \in Keys : mem[p][k] = Unasked

\* Resolve returns: a nil only from the end of a walk.
LEMMA AskedReturns ==
  ASSUME TypeInv, NEW p \in Procs, AskedInv(p), todo[p] # <<>>, NEW m, ResolvedAs(p, m),
         m = NoMeta /\ config[p].network => AskedBelow(Key(p), Len(SourcesFor[Key(p)]) + 1),
         UNCHANGED <<config, asked>>
  PROVE  AskedInv(p)'
<1>1. pc'[p] = "lookup"
  BY ResolvedFrame
<1>2. Key(p) \in Keys
  BY KeyFacts DEF TypeInv
<1>3. \A k \in Keys : mem'[p][k] = IF k = Key(p) THEN m ELSE mem[p][k]
  BY <1>2 DEF ResolvedAs, TypeInv, StateOK
<1>4. \A k, n : AskedBelow(k, n)' <=> AskedBelow(k, n)
  BY DEF AskedBelow
<1>5. QED BY <1>1, <1>2, <1>3, <1>4 DEF AskedInv

\* Resolve goes on: it starts the walk, passes a source, or leaves it as it was.
LEMMA AskedGoesOn ==
  ASSUME TypeInv, NEW p \in Procs, AskedInv(p), NEW c, pc' = [pc EXCEPT ![p] = c],
         c # "stopped", UNCHANGED <<config, todo, mem, asked>>,
         c = "walk" /\ config[p].network => AskedBelow(Key(p), src'[p]),
         c = "request" /\ config[p].network => AskedBelow(Key(p), src'[p] + 1)
  PROVE  AskedInv(p)'
<1>1. pc'[p] = c /\ Key(p)' = Key(p)
  BY DEF TypeInv, StateOK, Key
<1>2. \A k, n : AskedBelow(k, n)' <=> AskedBelow(k, n)
  BY DEF AskedBelow
<1>3. QED BY <1>1, <1>2 DEF AskedInv

\* One step of the process itself.
LEMMA AskedStep ==
  ASSUME TypeInv, NEW p \in Procs, AskedInv(p), Start(p) \/ Kill(p) \/ Step(p)
  PROVE  AskedInv(p)'
<1>0. \A k \in Keys : SourcesFor[k] \in Seq({"http", "stub"})
  BY RegistryAssumption
<1>1. CASE Start(p)
  <2>1. pc'[p] = "lookup" /\ UNCHANGED mem /\ pc[p] = "stopped"
    BY <1>1 DEF Start, Running, TypeInv, StateOK
  <2>2. QED BY <2>1, NilIsNoMetadata DEF AskedInv
<1>2. CASE Exit(p)
  <2>1. pc'[p] = "stopped" /\ \A k \in Keys : mem'[p][k] = Unasked
    BY <1>2 DEF Exit, TypeInv, StateOK
  <2>2. QED BY <2>1, NilIsNoMetadata DEF AskedInv
\* No source comes before the first.
<1>3. ASSUME todo[p] # <<>>, StartWalk(p), UNCHANGED <<config, todo, mem, asked>> PROVE AskedInv(p)'
  <2>1. src'[p] = 1 /\ pc' = [pc EXCEPT ![p] = "walk"]
    BY <1>3 DEF StartWalk, TypeInv, StateOK
  <2>2. Key(p) \in Keys
    BY <1>3, KeyFacts DEF TypeInv
  <2>3. AskedBelow(Key(p), 1)
    BY <1>0, <2>2 DEF AskedBelow
  <2>4. QED BY <1>3, <2>1, <2>3, AskedGoesOn
<1>4. CASE Lookup(p)
  <2>1. todo[p] # <<>> /\ UNCHANGED <<config, asked>>
    BY <1>4 DEF Lookup
  <2>2. Key(p) \in Keys
    BY <2>1, KeyFacts DEF TypeInv
  <2>3. CASE ResolvedAs(p, mem[p][Key(p)])
    BY <2>1, <2>2, <2>3, AskedReturns DEF AskedInv
  <2>4. CASE pc' = [pc EXCEPT ![p] = "stat"] /\ UNCHANGED <<todo, mem>>
    BY <2>1, <2>4, AskedGoesOn
  <2>5. CASE StartWalk(p) /\ UNCHANGED <<todo, mem>>
    BY <1>3, <2>1, <2>5
  <2>6. QED BY <1>4, <2>3, <2>4, <2>5 DEF Lookup
<1>5. CASE Stat(p)
  <2>1. todo[p] # <<>> /\ UNCHANGED <<config, todo, mem, asked>>
    BY <1>5 DEF Stat, TypeInv, Busy
  <2>2. CASE StartWalk(p)
    BY <1>3, <2>1, <2>2
  <2>3. CASE \E c \in {"read", "remove"} : pc' = [pc EXCEPT ![p] = c]
    BY <2>1, <2>3, AskedGoesOn
  <2>4. QED BY <1>5, <2>2, <2>3 DEF Stat
<1>6. CASE Read(p)
  <2>1. todo[p] # <<>> /\ UNCHANGED <<config, asked>>
    BY <1>6 DEF Read, TypeInv, Busy
  <2>2. CASE StartWalk(p) /\ UNCHANGED <<todo, mem>>
    BY <1>3, <2>1, <2>2
  <2>3. CASE /\ path[Key(p)] # NoFile /\ file[path[Key(p)]] # Torn
             /\ ResolvedAs(p, file[path[Key(p)]])
    <3>1. Key(p) \in Keys
      BY <2>1, KeyFacts DEF TypeInv
    <3>2. file[path[Key(p)]] \in Metadata
      BY <2>3, <3>1 DEF TypeInv, StateOK
    <3>3. QED BY <2>1, <2>3, <3>2, AskedReturns, NilIsNoMetadata
  <2>4. QED BY <1>6, <2>2, <2>3 DEF Read
<1>7. CASE Corrupt(p)
  BY <1>7, AskedGoesOn DEF Corrupt, ghosts
<1>8. CASE Remove(p)
  BY <1>3, <1>8 DEF Remove, TypeInv, Busy
<1>9. CASE Walk(p)
  <2>1. pc[p] = "walk" /\ todo[p] # <<>> /\ UNCHANGED <<config, todo, mem>>
    BY <1>9 DEF Walk, TypeInv, Busy
  <2>2. Key(p) \in Keys /\ src[p] \in Nat
    BY <2>1, KeyFacts DEF TypeInv, StateOK
  <2>3. CASE /\ pc' = [pc EXCEPT ![p] = "request"]
             /\ asked' = asked \cup {<<Key(p), src[p]>>}
             /\ UNCHANGED src
    <3>1. pc'[p] = "request" /\ Key(p)' = Key(p) /\ src'[p] = src[p]
      BY <2>1, <2>3 DEF TypeInv, StateOK, Key
    <3>2. \A k, n : AskedBelow(k, n) => AskedBelow(k, n)'
      BY <2>3 DEF AskedBelow
    <3>3. config[p].network => AskedBelow(Key(p), src[p] + 1)'
      <4>1. config[p].network => AskedBelow(Key(p), src[p])
        BY <2>1 DEF AskedInv
      <4>2. ASSUME NEW i \in DOMAIN SourcesFor[Key(p)], i < src[p] + 1 PROVE i < src[p] \/ i = src[p]
        BY <1>0, <2>2, <4>2
      <4>3. QED BY <2>3, <3>1, <4>1, <4>2 DEF AskedBelow
    <3>4. config[p].network =>
            \A k \in Keys : mem'[p][k] = NoMeta => AskedBelow(k, Len(SourcesFor[k]) + 1)'
      BY <2>1, <3>2 DEF AskedInv
    <3>5. QED BY <2>1, <3>1, <3>3, <3>4 DEF AskedInv
  <2>4. CASE /\ ~config[p].network \/ SourcesFor[Key(p)][src[p]] = "stub"
             /\ NextSource(p) /\ UNCHANGED asked
    <3>1. src'[p] = src[p] + 1 /\ pc' = [pc EXCEPT ![p] = "walk"]
      BY <2>4 DEF NextSource, TypeInv, StateOK
    <3>2. config[p].network => AskedBelow(Key(p), src[p] + 1)
      <4>1. config[p].network => AskedBelow(Key(p), src[p])
        BY <2>1 DEF AskedInv
      <4>2. ASSUME NEW i \in DOMAIN SourcesFor[Key(p)], i < src[p] + 1 PROVE i < src[p] \/ i = src[p]
        BY <1>0, <2>2, <4>2
      <4>3. QED BY <2>4, <4>1, <4>2 DEF AskedBelow
    <3>3. QED BY <2>1, <2>4, <3>1, <3>2, AskedGoesOn
  <2>5. QED BY <1>9, <2>3, <2>4 DEF Walk
<1>10. CASE WalkEnds(p)
  <2>1. pc[p] = "walk" /\ todo[p] # <<>> /\ ResolvedAs(p, NoMeta) /\ UNCHANGED <<config, asked>>
    BY <1>10 DEF WalkEnds, TypeInv, Busy, ghosts
  <2>2. Key(p) \in Keys /\ src[p] \in Nat /\ src[p] > Len(SourcesFor[Key(p)])
    BY <1>10, <2>1, KeyFacts DEF WalkEnds, TypeInv, StateOK
  <2>3. config[p].network => AskedBelow(Key(p), Len(SourcesFor[Key(p)]) + 1)
    <3>1. \A i \in DOMAIN SourcesFor[Key(p)] : i < src[p]
      BY <1>0, <2>2
    <3>2. QED BY <2>1, <3>1 DEF AskedInv, AskedBelow
  <2>4. QED BY <2>1, <2>3, AskedReturns
<1>11. ASSUME pc[p] = "request", NextSource(p), UNCHANGED <<config, todo, mem, asked>> PROVE AskedInv(p)'
  <2>1. src'[p] = src[p] + 1 /\ pc' = [pc EXCEPT ![p] = "walk"]
    BY <1>11 DEF NextSource, TypeInv, StateOK
  <2>2. QED BY <1>11, <2>1, AskedGoesOn DEF AskedInv
<1>12. CASE Request(p)
  <2>1. pc[p] = "request" /\ todo[p] # <<>> /\ UNCHANGED <<config, asked>>
    BY <1>12 DEF Request, TypeInv, Busy
  <2>2. Key(p) \in Keys
    BY <2>1, KeyFacts DEF TypeInv
  <2>3. PICK here \in Endpoints(config[p]) :
          \/ UNCHANGED <<todo, pc, mem, src>>
          \/ \E from \in {raw[p], raw[p] \cup {here}} : Answered(p, from)
          \/ NextSource(p) /\ UNCHANGED <<todo, mem>>
    BY <1>12 DEF Request
  <2>4. CASE UNCHANGED <<todo, pc, mem, src>>
    <3>1. Key(p)' = Key(p) /\ \A k, n : AskedBelow(k, n)' <=> AskedBelow(k, n)
      BY <2>1, <2>4 DEF AskedBelow, Key
    <3>2. QED BY <2>1, <2>4, <3>1 DEF AskedInv
  <2>5. ASSUME NEW from \in {raw[p], raw[p] \cup {here}}, Answered(p, from) PROVE AskedInv(p)'
    <3> DEFINE m == [key |-> Key(p), from |-> from]
    <3>1. m \in Metadata
      <4>1. Endpoints(config[p]) \subseteq Nat
        BY EndpointsAreNumbers DEF TypeInv, StateOK
      <4>2. from \subseteq Nat
        <5>1. raw[p] \subseteq Nat
          BY DEF TypeInv, StateOK
        <5>2. QED BY <4>1, <5>1
      <4>3. QED BY <2>2, <4>2 DEF Metadata
    <3>2. \/ ResolvedAs(p, m)
          \/ /\ mem' = [mem EXCEPT ![p][Key(p)] = m]
             /\ pc' = [pc EXCEPT ![p] = "open"]
             /\ UNCHANGED todo
      BY <2>5 DEF Answered
    <3> HIDE DEF m
    <3>3. m # NoMeta
      BY <3>1, NilIsNoMetadata
    <3>4. CASE ResolvedAs(p, m)
      BY <2>1, <3>3, <3>4, AskedReturns
    <3>5. CASE /\ mem' = [mem EXCEPT ![p][Key(p)] = m]
               /\ pc' = [pc EXCEPT ![p] = "open"]
      <4>1. pc'[p] = "open" /\ \A k \in Keys : mem'[p][k] = IF k = Key(p) THEN m ELSE mem[p][k]
        BY <2>2, <3>5 DEF TypeInv, StateOK
      <4>2. \A k, n : AskedBelow(k, n)' <=> AskedBelow(k, n)
        BY <2>1 DEF AskedBelow
      <4>3. QED BY <2>1, <3>3, <4>1, <4>2 DEF AskedInv
    <3>6. QED BY <3>2, <3>4, <3>5
  <2>6. CASE NextSource(p) /\ UNCHANGED <<todo, mem>>
    BY <1>11, <2>1, <2>6
  <2>7. QED BY <2>3, <2>4, <2>5, <2>6
<1>13. CASE RequestsFail(p)
  BY <1>11, <1>13 DEF RequestsFail, ghosts
<1>14. ASSUME NEW c \in Storing, pc' = [pc EXCEPT ![p] = c], UNCHANGED <<config, todo, mem, asked>>
       PROVE  AskedInv(p)'
  BY <1>14, AskedGoesOn DEF Storing
<1>15. CASE OpenTmp(p) \/ Write(p)
  BY <1>14, <1>15 DEF OpenTmp, Write, ghosts, Storing
<1>16. ASSUME pc[p] \in Storing, SetReturns(p), UNCHANGED <<config, asked>> PROVE AskedInv(p)'
  <2>1. todo[p] # <<>> /\ mem[p][Key(p)] \in Metadata
    BY <1>16 DEF TypeInv, Busy, Answers, Storing
  <2>2. QED BY <1>16, <2>1, AskedReturns, NilIsNoMetadata DEF SetReturns
<1>17. CASE OpenFails(p) \/ WriteFails(p) \/ Unlink(p)
  BY <1>16, <1>17 DEF OpenFails, WriteFails, Unlink, ghosts, Storing
<1>18. CASE Rename(p)
  BY <1>14, <1>16, <1>18 DEF Rename, ghosts, Storing
<1>19. QED
  BY <1>1, <1>2, <1>4, <1>5, <1>6, <1>7, <1>8, <1>9, <1>10, <1>12, <1>13, <1>15, <1>17, <1>18
     DEF Step, Kill, Done

\* What was asked stays asked, and only sources of keys are.
LEMMA AskedGrows ==
  ASSUME TypeInv, asked \subseteq Keys \X Nat, [Next]_vars
  PROVE  asked \subseteq asked' /\ asked' \subseteq Keys \X Nat
<1>1. ASSUME NEW p \in Procs, Walk(p) PROVE asked \subseteq asked' /\ asked' \subseteq Keys \X Nat
  <2>1. todo[p] # <<>>
    BY <1>1 DEF Walk, TypeInv, Busy
  <2>2. Key(p) \in Keys /\ src[p] \in Nat
    BY <2>1, KeyFacts DEF TypeInv, StateOK
  <2>3. QED BY <1>1, <2>2 DEF Walk
<1>2. ASSUME NEW p \in Procs,
             \/ Start(p) \/ Exit(p) \/ Lookup(p) \/ Stat(p) \/ Read(p) \/ Corrupt(p) \/ Remove(p)
             \/ WalkEnds(p) \/ Request(p) \/ RequestsFail(p)
             \/ OpenTmp(p) \/ OpenFails(p) \/ Write(p) \/ WriteFails(p) \/ Rename(p) \/ Unlink(p)
      PROVE  UNCHANGED asked
  BY <1>2 DEF Start, Exit, Lookup, Stat, Read, Corrupt, Remove, WalkEnds, Request, RequestsFail,
     OpenTmp, OpenFails, Write, WriteFails, Rename, Unlink, ghosts
<1>3. CASE Age \/ UNCHANGED vars
  BY <1>3 DEF Age, vars, ghosts
<1>4. QED BY <1>1, <1>2, <1>3 DEF Next, Kill, Step, Done

AskedAll == asked \subseteq Keys \X Nat /\ \A p \in Procs : AskedInv(p)

\* The invariant of what was asked, of all processes.
LEMMA AskedInvariant == Spec => []AskedAll
<1>1. Init => AskedAll
  BY NilIsNoMetadata DEF Init, AskedAll, AskedInv
<1>2. TypeInv /\ AskedAll /\ [Next]_vars => AskedAll'
  <2> SUFFICES ASSUME TypeInv, AskedAll, [Next]_vars PROVE AskedAll'
    OBVIOUS
  <2>1. asked \subseteq asked' /\ asked' \subseteq Keys \X Nat
    BY AskedGrows DEF AskedAll
  <2>2. \A k, n : AskedBelow(k, n) => AskedBelow(k, n)'
    BY <2>1 DEF AskedBelow
  <2>3. ASSUME NEW q \in Procs PROVE AskedInv(q)'
    <3>1. AskedInv(q)
      BY DEF AskedAll
    <3>2. ASSUME mem'[q] = mem[q], pc'[q] = pc[q], todo'[q] = todo[q], config'[q] = config[q], src'[q] = src[q]
          PROVE  AskedInv(q)'
      BY <2>2, <3>1, <3>2 DEF AskedInv, Key
    <3>3. CASE Age \/ UNCHANGED vars
      BY <3>2, <3>3 DEF Age, vars, local
    <3>4. ASSUME NEW p \in Procs, Start(p) \/ Kill(p) \/ Step(p) PROVE AskedInv(q)'
      <4>1. CASE q = p
        BY <3>1, <3>4, <4>1, AskedStep
      <4>2. CASE q # p
        BY <3>2, <3>4, <4>2, OthersStep DEF Others
      <4>3. QED BY <4>1, <4>2
    <3>5. QED BY <3>3, <3>4 DEF Next
  <2>4. QED BY <2>1, <2>3 DEF AskedAll
<1>3. QED BY <1>1, <1>2, TypeInvariant, PTL DEF Spec

\* NilMeansAsked for any number of processes, sources and runs, online and not
\* (Resolve, DiskCache.Set).
THEOREM NilTheorem == Spec => []NilMeansAsked
<1>1. AskedAll => NilMeansAsked
  <2>1. \A k \in Keys : \A i \in DOMAIN SourcesFor[k] : i < Len(SourcesFor[k]) + 1
    BY RegistryAssumption
  <2>2. QED BY <2>1 DEF AskedAll, AskedInv, AskedBelow, NilMeansAsked
<1>2. QED BY <1>1, AskedInvariant, PTL

\* The variables keep their types (Resolve of any number of processes): only
\* metadata reaches the disk, never a nil.
THEOREM TypeCorrect == Spec => []TypeOK
<1>1. TypeInv /\ AskedAll => TypeOK
  BY DEF TypeInv, AskedAll, TypeOK
<1>2. QED BY <1>1, TypeInvariant, AskedInvariant, PTL

-----------------------------------------------------------------------------
(***************************************************************************)
(* Whom one run asks.                                                      *)
(***************************************************************************)

\* A step that asks nobody new.
LEMMA TriedKept ==
  ASSUME TypeInv, NEW p \in Procs, TriedInv(p), UNCHANGED config,
         tried'[p] = {} \/ (tried'[p] = tried[p] /\ pc'[p] # "stopped"),
         pc'[p] = "request" => config[p].network
  PROVE  TriedInv(p)'
  BY DEF TriedInv

\* The next endpoint asked is the first one not yet asked.
LEMMA TriedStep ==
  ASSUME TypeInv, NEW p \in Procs, TriedInv(p), Start(p) \/ Kill(p) \/ Step(p)
  PROVE  TriedInv(p)'
<1>1. ASSUME NEW m, ResolvedAs(p, m), UNCHANGED config PROVE TriedInv(p)'
  BY <1>1, ResolvedFrame, TriedKept
<1>2. ASSUME NEW c, pc' = [pc EXCEPT ![p] = c], UNCHANGED <<config, tried>>,
             c # "stopped", c # "request"
      PROVE  TriedInv(p)'
  <2>1. pc'[p] = c
    BY <1>2 DEF TypeInv, StateOK
  <2>2. QED BY <1>2, <2>1, TriedKept
<1>3. CASE Start(p)
  <2>1. tried'[p] = {} /\ pc'[p] = "lookup"
    BY <1>3 DEF Start, Running, TriedInv, TypeInv, StateOK
  <2>2. QED BY <2>1 DEF TriedInv
<1>4. CASE Exit(p)
  <2>1. tried'[p] = {} /\ pc'[p] = "stopped"
    BY <1>4 DEF Exit, TypeInv, StateOK
  <2>2. QED BY <2>1 DEF TriedInv
<1>5. CASE Lookup(p) \/ Read(p)
  BY <1>1, <1>2, <1>5 DEF Lookup, Read, StartWalk
<1>6. CASE Stat(p)
  <2>1. PICK c \in {"walk", "remove", "read"} : pc' = [pc EXCEPT ![p] = c]
    BY <1>6 DEF Stat, StartWalk
  <2>2. QED BY <1>2, <1>6, <2>1 DEF Stat
<1>7. CASE Corrupt(p) \/ Remove(p) \/ RequestsFail(p) \/ OpenTmp(p) \/ Write(p)
  BY <1>2, <1>7 DEF Corrupt, Remove, StartWalk, RequestsFail, NextSource, OpenTmp, Write
<1>8. CASE Walk(p)
  <2>1. CASE config[p].network /\ tried' = [tried EXCEPT ![p] = {}]
    <3>1. tried'[p] = {} /\ UNCHANGED config
      BY <1>8, <2>1 DEF Walk, TypeInv, StateOK
    <3>2. QED BY <2>1, <3>1 DEF TriedInv
  <2>2. CASE NextSource(p) /\ UNCHANGED tried
    BY <1>2, <1>8, <2>2 DEF Walk, NextSource
  <2>3. QED BY <1>8, <2>1, <2>2 DEF Walk
<1>9. CASE WalkEnds(p) \/ OpenFails(p) \/ WriteFails(p) \/ Unlink(p)
  BY <1>1, <1>9 DEF WalkEnds, OpenFails, WriteFails, Unlink, SetReturns
<1>10. CASE Rename(p)
  BY <1>1, <1>2, <1>10 DEF Rename, SetReturns
<1>11. CASE Request(p)
  <2>1. pc[p] = "request" /\ UNCHANGED config
    BY <1>11 DEF Request
  <2>2. PICK here \in Endpoints(config[p]) \ tried[p] :
          /\ \A other \in Endpoints(config[p]) \ tried[p] : ~Precedes(config[p], other, here)
          /\ \/ tried' = [tried EXCEPT ![p] = @ \cup {here}] /\ UNCHANGED pc
             \/ \E from \in {raw[p], raw[p] \cup {here}} : Answered(p, from)
             \/ NextSource(p) /\ UNCHANGED tried
    BY <1>11 DEF Request
  <2>3. CASE tried' = [tried EXCEPT ![p] = @ \cup {here}] /\ UNCHANGED pc
    <3>1. tried'[p] = tried[p] \cup {here}
      BY <2>3 DEF TypeInv, StateOK
    <3>2. config[p].network /\ pc'[p] = "request"
      BY <2>1, <2>3 DEF TriedInv
    <3>3. tried'[p] \subseteq Endpoints(config[p])
      BY <2>2, <3>1 DEF TriedInv
    <3>4. ASSUME NEW e \in tried'[p], NEW d \in Endpoints(config[p]), Precedes(config[p], d, e)
          PROVE  d \in tried'[p]
      <4>1. CASE e = here
        BY <2>2, <3>1, <3>4, <4>1
      <4>2. CASE e # here
        BY <3>1, <3>4, <4>2 DEF TriedInv
      <4>3. QED BY <4>1, <4>2
    <3>5. (Endpoints(config[p]))' = Endpoints(config[p])
      BY <2>1
    <3>6. \A d, e : Precedes(config[p], d, e)' = Precedes(config[p], d, e)
      BY <2>1
    <3>7. QED BY <2>1, <3>2, <3>3, <3>4, <3>5, <3>6 DEF TriedInv
  <2>4. ASSUME NEW from, Answered(p, from) PROVE TriedInv(p)'
    BY <1>1, <1>2, <2>1, <2>4 DEF Answered
  <2>5. CASE NextSource(p) /\ UNCHANGED tried
    BY <1>2, <2>1, <2>5 DEF NextSource
  <2>6. QED BY <2>2, <2>3, <2>4, <2>5
<1>12. QED
  BY <1>3, <1>4, <1>5, <1>6, <1>7, <1>8, <1>9, <1>10, <1>11 DEF Step, Kill, Done

TriedAll == \A p \in Procs : TriedInv(p)

\* MirrorsShieldUpstream for any list of mirrors (MirrorChain.Endpoints).
THEOREM MirrorsTheorem == Spec => []MirrorsShieldUpstream
<1>1. Init => TriedAll
  BY DEF Init, TriedAll, TriedInv
<1>2. TypeInv /\ TriedAll /\ [Next]_vars => TriedAll'
  <2> SUFFICES ASSUME TypeInv, TriedAll, [Next]_vars, NEW q \in Procs PROVE TriedInv(q)'
    BY DEF TriedAll
  <2>1. CASE UNCHANGED <<config, tried, pc>>
    BY <2>1 DEF TriedAll, TriedInv
  <2>2. CASE Age \/ UNCHANGED vars
    BY <2>1, <2>2 DEF Age, vars, local
  <2>3. ASSUME NEW p \in Procs, Start(p) \/ Kill(p) \/ Step(p) PROVE TriedInv(q)'
    <3>1. CASE q = p
      BY <2>3, <3>1, TriedStep DEF TriedAll
    <3>2. CASE q # p
      <4>1. Others(p)
        BY <2>3, OthersStep
      <4>2. tried'[q] = tried[q] /\ config'[q] = config[q] /\ pc'[q] = pc[q]
        BY <3>2, <4>1 DEF Others
      <4>3. QED BY <4>2 DEF TriedAll, TriedInv
    <3>3. QED BY <3>1, <3>2
  <2>4. QED BY <2>2, <2>3 DEF Next
<1>3. TypeInv /\ TriedAll => MirrorsShieldUpstream
  <2> SUFFICES ASSUME TypeInv, NEW p \in Procs, TriedInv(p)
               PROVE  /\ tried[p] # {} => config[p].network
                      /\ \A n \in DOMAIN config[p].mirrors :
                           n \in tried[p] /\ config[p].mirrors[n] = "fallback" =>
                             \A r \in DOMAIN config[p].mirrors :
                               config[p].mirrors[r] # "fallback" => r \in tried[p]
                      /\ Upstream \in tried[p] =>
                           \A n \in DOMAIN config[p].mirrors :
                             n \in tried[p] /\ config[p].mirrors[n] = "fallback"
    BY DEF TriedAll, MirrorsShieldUpstream
  <2>1. tried[p] # {} => config[p].network
    BY DEF TriedInv
  <2>2. ASSUME Upstream \in tried[p], NEW n \in DOMAIN config[p].mirrors
        PROVE  n \in tried[p] /\ config[p].mirrors[n] = "fallback"
    <3>1. config[p].mirrors \in Seq(ModeChoices)
      BY RegistryAssumption DEF TypeInv, StateOK
    <3>2. n # Upstream /\ config[p].mirrors[n] \in ModeChoices
      BY <2>2, <3>1 DEF Upstream
    <3>3. Upstream \in Endpoints(config[p])
      BY <2>2 DEF TriedInv
    <3>4. Upstream \notin DOMAIN config[p].mirrors
      BY <3>1 DEF Upstream
    <3>5. ~Replaces(config[p], n)
      BY <2>2, <3>3, <3>4 DEF Endpoints
    <3>6. config[p].mirrors[n] = "fallback"
      BY <3>2, <3>5 DEF Replaces, EffectiveMode, ModeChoices
    <3>7. n \in Endpoints(config[p]) /\ Precedes(config[p], n, Upstream)
      BY <2>2, <3>2 DEF Endpoints, Precedes
    <3>8. QED BY <2>2, <3>6, <3>7 DEF TriedInv
  <2>3. ASSUME NEW n \in DOMAIN config[p].mirrors, n \in tried[p], config[p].mirrors[n] = "fallback",
               NEW r \in DOMAIN config[p].mirrors, config[p].mirrors[r] # "fallback"
        PROVE  r \in tried[p]
    <3>1. config[p].mirrors \in Seq(ModeChoices)
      BY RegistryAssumption DEF TypeInv, StateOK
    <3>2. n # Upstream /\ r # Upstream /\ config[p].mirrors[r] \in ModeChoices
      BY <2>3, <3>1 DEF Upstream
    <3>3. Replaces(config[p], r) /\ ~Replaces(config[p], n)
      BY <2>3, <3>2 DEF Replaces, EffectiveMode, ModeChoices
    <3>4. r \in Endpoints(config[p]) /\ Precedes(config[p], r, n)
      BY <2>3, <3>2, <3>3 DEF Endpoints, Precedes
    <3>5. QED BY <2>3, <3>4 DEF TriedInv
  <2>4. QED BY <2>1, <2>2, <2>3
<1>4. QED BY <1>1, <1>2, <1>3, TypeInvariant, PTL DEF Spec

-----------------------------------------------------------------------------
(***************************************************************************)
(* What one run leaves to the next.                                        *)
(***************************************************************************)

\* Set writes into the file path.tmp leads to, which is empty before and whole
\* after.
StoresWell(p) ==
  /\ pc[p] = "write" => fd[p] = tmp[Key(p)] /\ file[fd[p]] = Torn
  /\ pc[p] = "rename" => tmp[Key(p)] # NoFile /\ file[tmp[Key(p)]] \in fetched

\* One process at a time, with the directory, which finds nothing to drop.
Alone ==
  /\ \A p, q \in Procs : Running(p) /\ Running(q) => p = q
  /\ \A p \in Procs : Running(p) => config[p].disk /\ pc[p] \notin {"remove", "unlink"} /\ StoresWell(p)

\* What has a name is an answer, fresh, and not the file being written.
Fresh ==
  /\ aged = {}
  /\ \A k \in Keys : path[k] # NoFile => path[k] # tmp[k] /\ file[path[k]] \in fetched

\* What was fetched has a name, or is about to get it.
Kept == \A m \in fetched : path[m.key] # NoFile \/ \E p \in Procs : pc[p] \in Storing /\ Key(p) = m.key

Quiet == Alone /\ Fresh /\ Kept

\* While one process runs the others are stopped, and stay it.
LEMMA OthersStopped ==
  ASSUME TypeInv, Quiet, NEW p \in Procs, Step(p)
  PROVE  \A q \in Procs \ {p} : pc[q] = "stopped" /\ pc'[q] = "stopped"
<1>1. Running(p)
  BY DEF Running, Step, Lookup, Done, Stat, Read, Corrupt, ReadsTorn, Remove, Walk, WalkEnds, Request,
         RequestsFail, OpenTmp, OpenFails, Write, WriteFails, Rename, Unlink
<1>2. Others(p)
  BY OthersStep
<1>3. \A q \in Procs \ {p} : ~Running(q)
  BY <1>1 DEF Quiet, Alone
<1>4. QED BY <1>2, <1>3 DEF Others, Running

\* What is left to show of a step: the process that takes it.
LEMMA QuietOfOne ==
  ASSUME NEW p \in Procs, \A q \in Procs \ {p} : pc'[q] = "stopped",
         pc'[p] # "stopped" => config'[p].disk /\ pc'[p] \notin {"remove", "unlink"} /\ StoresWell(p)',
         Fresh', Kept'
  PROVE  Quiet'
<1>1. Alone'
  BY DEF Alone, Running
<1>2. QED BY <1>1 DEF Quiet

\* A step outside Set that leaves the files alone.
LEMMA QuietKept ==
  ASSUME TypeInv, Quiet, NEW p \in Procs, Step(p), pc[p] \notin Storing,
         NEW c \in {"stopped", "lookup", "stat", "read", "walk", "request"}, pc'[p] = c,
         UNCHANGED <<config, path, tmp, file, aged, fetched>>
  PROVE  Quiet'
<1>1. \A q \in Procs \ {p} : pc[q] = "stopped" /\ pc'[q] = "stopped"
  BY OthersStopped
<1>2. pc[p] # "stopped" /\ config[p].disk
  <2>1. pc[p] # "stopped"
    BY DEF Step, Lookup, Done, Stat, Read, Corrupt, ReadsTorn, Remove, Walk, WalkEnds, Request,
           RequestsFail, OpenTmp, OpenFails, Write, WriteFails, Rename, Unlink
  <2>2. QED BY <2>1 DEF Quiet, Alone, Running
<1>3. Fresh'
  BY DEF Quiet, Fresh
<1>4. "stopped" \notin Storing
  BY DEF Storing
<1>5. Kept'
  BY <1>1, <1>4 DEF Quiet, Kept
<1>6. StoresWell(p)'
  BY DEF StoresWell
<1>7. QED BY <1>1, <1>2, <1>3, <1>5, <1>6, QuietOfOne

\* Opening path.tmp empties no file that has its final name.
LEMMA QuietOpen ==
  ASSUME TypeInv, SafeInv, Quiet, NEW p \in Procs, OpenTmp(p)
  PROVE  Quiet'
<1> SUFFICES ASSUME NEW K, K = Key(p) PROVE Quiet'
  OBVIOUS
<1>0. \A q \in Procs \ {p} : pc[q] = "stopped" /\ pc'[q] = "stopped"
  BY OthersStopped DEF Step
<1>1. /\ pc[p] = "open" /\ pc'[p] = "write" /\ todo[p] # <<>>
      /\ UNCHANGED <<config, todo, path, fetched>>
  BY DEF OpenTmp, ghosts, TypeInv, StateOK, Busy
<1>2. K \in Keys /\ Key(p)' = K
  BY <1>1, KeyFacts DEF TypeInv, Key
<1>3. PICK i \in TmpInode(K) :
        /\ tmp' = [tmp EXCEPT ![K] = i] /\ fd' = [fd EXCEPT ![p] = i]
        /\ file' = [file EXCEPT ![i] = Torn] /\ aged' = aged \ {i}
  BY DEF OpenTmp
<1>4. i \in Inodes /\ i # NoFile
  <2>1. i \in Inodes
    BY <1>2, <1>3 DEF TmpInode, Free, TypeInv, StateOK
  <2>2. QED BY <2>1 DEF Inodes, NoFile
<1>5. ASSUME NEW k \in Keys PROVE path[k] # i
  <2>1. CASE tmp[K] = NoFile
    BY <1>3, <2>1 DEF TmpInode, Free, Range, TypeInv, StateOK
  <2>2. CASE tmp[K] # NoFile /\ k = K
    BY <1>2, <1>3, <1>4, <2>2 DEF TmpInode, Quiet, Fresh
  <2>3. CASE tmp[K] # NoFile /\ k # K
    BY <1>2, <1>3, <1>4, <2>3 DEF TmpInode, SafeInv, FilesInv, Apart, Names
  <2>4. QED BY <2>1, <2>2, <2>3
<1>6. Fresh'
  <2>1. aged' = {}
    BY <1>3 DEF Quiet, Fresh
  <2>2. ASSUME NEW k \in Keys, path[k] # NoFile PROVE path[k] # tmp'[k] /\ file'[path[k]] \in fetched
    <3>1. path[k] \in Inodes /\ file[path[k]] \in fetched /\ path[k] # tmp[k]
      BY <2>2 DEF Quiet, Fresh, TypeInv, StateOK
    <3>2. QED BY <1>2, <1>3, <1>5, <3>1 DEF TypeInv, StateOK
  <2>3. QED BY <1>1, <2>1, <2>2 DEF Fresh
<1>7. Kept'
  <2>1. \A q \in Procs : pc[q] \in Storing => pc'[q] \in Storing /\ Key(q)' = Key(q)
    BY <1>0, <1>1 DEF Storing, Key
  <2>2. QED BY <1>1, <2>1 DEF Quiet, Kept
<1>8. StoresWell(p)'
  <2>1. fd'[p] = i /\ tmp'[K] = i /\ file'[i] = Torn
    BY <1>2, <1>3, <1>4 DEF TypeInv, StateOK
  <2>2. QED BY <1>1, <1>2, <2>1 DEF StoresWell
<1>9. config'[p].disk
  BY <1>1 DEF Quiet, Alone, Running
<1>10. QED BY <1>0, <1>1, <1>6, <1>7, <1>8, <1>9, QuietOfOne

\* The body written is the answer that was fetched, whole.
LEMMA QuietWrite ==
  ASSUME TypeInv, SafeInv, Quiet, NEW p \in Procs, Write(p)
  PROVE  Quiet'
<1> SUFFICES ASSUME NEW K, K = Key(p), NEW i, i = fd[p] PROVE Quiet'
  OBVIOUS
<1>0. \A q \in Procs \ {p} : pc[q] = "stopped" /\ pc'[q] = "stopped"
  BY OthersStopped DEF Step
<1>1. /\ pc[p] = "write" /\ pc'[p] = "rename" /\ todo[p] # <<>>
      /\ UNCHANGED <<config, todo, path, tmp, fetched>> /\ aged' = aged \ {i}
  BY DEF Write, ghosts, TypeInv, StateOK, Busy
<1>2. K \in Keys /\ Key(p)' = K
  BY <1>1, KeyFacts DEF TypeInv, Key
<1>3. config[p].disk /\ i = tmp[K] /\ file[i] = Torn
  BY <1>1 DEF Quiet, Alone, Running, StoresWell
<1>4. i \in Inodes /\ i # NoFile
  <2>1. i \in Inodes
    BY <1>1 DEF SafeInv, FilesInv, Writer
  <2>2. QED BY <2>1 DEF Inodes, NoFile
<1>5. file' = [file EXCEPT ![i] = mem[p][K]]
  BY <1>3 DEF Write
<1>6. mem[p][K] \in fetched
  <2>1. mem[p][K] \in Metadata
    BY <1>1 DEF TypeInv, Answers, Storing
  <2>2. mem[p][K] \in {Unasked, NoMeta} \cup fetched
    BY <1>2 DEF SafeInv, HandsOutOnlyWholeAnswers
  <2>3. QED BY <2>1, <2>2, NilIsNoMetadata
<1>7. ASSUME NEW k \in Keys PROVE path[k] # i
  <2>1. CASE k = K
    BY <1>3, <1>4, <2>1 DEF Quiet, Fresh
  <2>2. CASE k # K
    BY <1>1, <1>4, <2>2 DEF SafeInv, FilesInv, Writer, Names
  <2>3. QED BY <2>1, <2>2
<1>8. Fresh'
  <2>1. ASSUME NEW k \in Keys, path[k] # NoFile PROVE path[k] # tmp[k] /\ file'[path[k]] \in fetched
    <3>1. path[k] \in Inodes /\ file[path[k]] \in fetched /\ path[k] # tmp[k]
      BY <2>1 DEF Quiet, Fresh, TypeInv, StateOK
    <3>2. QED BY <1>5, <1>7, <3>1 DEF TypeInv, StateOK
  <2>2. QED BY <1>1, <2>1 DEF Quiet, Fresh
<1>9. Kept'
  <2>1. \A q \in Procs : pc[q] \in Storing => pc'[q] \in Storing /\ Key(q)' = Key(q)
    BY <1>0, <1>1 DEF Storing, Key
  <2>2. QED BY <1>1, <2>1 DEF Quiet, Kept
<1>10. StoresWell(p)'
  <2>1. tmp'[K] = i /\ file'[i] \in fetched
    BY <1>1, <1>3, <1>4, <1>5, <1>6 DEF TypeInv, StateOK
  <2>2. QED BY <1>1, <1>2, <1>4, <2>1 DEF StoresWell
<1>11. QED BY <1>0, <1>1, <1>3, <1>8, <1>9, <1>10, QuietOfOne

\* The rename gives the answer its name.
LEMMA QuietRename ==
  ASSUME TypeInv, Quiet, NEW p \in Procs, Rename(p)
  PROVE  Quiet'
<1> SUFFICES ASSUME NEW K, K = Key(p) PROVE Quiet'
  OBVIOUS
<1>0. \A q \in Procs \ {p} : pc[q] = "stopped" /\ pc'[q] = "stopped"
  BY OthersStopped DEF Step
<1>1. pc[p] = "rename" /\ todo[p] # <<>> /\ UNCHANGED <<config, file, aged, fetched>>
  BY DEF Rename, ghosts, TypeInv, Busy
<1>2. K \in Keys
  BY <1>1, KeyFacts DEF TypeInv
<1>3. config[p].disk /\ tmp[K] # NoFile /\ file[tmp[K]] \in fetched
  BY <1>1 DEF Quiet, Alone, Running, StoresWell
<1>4. path' = [path EXCEPT ![K] = tmp[K]] /\ tmp' = [tmp EXCEPT ![K] = NoFile] /\ pc'[p] = "lookup"
  BY <1>3, ResolvedFrame DEF Rename, SetReturns
<1>5. /\ path'[K] = tmp[K] /\ tmp'[K] = NoFile
      /\ \A k \in Keys : k # K => path'[k] = path[k] /\ tmp'[k] = tmp[k]
  BY <1>2, <1>4 DEF TypeInv, StateOK
<1>6. Fresh'
  BY <1>1, <1>3, <1>5 DEF Quiet, Fresh
<1>7. Kept'
  <2> SUFFICES ASSUME NEW m \in fetched PROVE path'[m.key] # NoFile
    BY <1>1 DEF Kept
  <2>1. m.key \in Keys
    BY DEF TypeInv, StateOK, Metadata
  <2>2. CASE m.key = K
    BY <1>3, <1>5, <2>2
  <2>3. CASE m.key # K
    <3>1. \A q \in Procs : ~(pc[q] \in Storing /\ Key(q) = m.key)
      BY <1>0, <2>3 DEF Storing
    <3>2. path[m.key] # NoFile
      BY <3>1 DEF Quiet, Kept
    <3>3. QED BY <1>5, <2>1, <2>3, <3>2
  <2>4. QED BY <2>2, <2>3
<1>8. StoresWell(p)'
  BY <1>4 DEF StoresWell
<1>9. QED BY <1>0, <1>1, <1>3, <1>4, <1>6, <1>7, <1>8, QuietOfOne

\* An answer is fetched: the process goes on to store it.
LEMMA QuietRequest ==
  ASSUME TypeInv, Quiet, NEW p \in Procs, Request(p)
  PROVE  Quiet'
<1>1. pc[p] = "request" /\ UNCHANGED <<config, path, tmp, file, aged>> /\ pc[p] \notin Storing /\ Step(p)
  BY DEF Request, disk, Storing, Step
<1>2. config[p].disk
  BY <1>1 DEF Quiet, Alone, Running
<1>3. PICK here \in Endpoints(config[p]) \ tried[p] :
        \/ UNCHANGED <<pc, fetched>>
        \/ \E from \in {raw[p], raw[p] \cup {here}} : Answered(p, from)
        \/ NextSource(p) /\ UNCHANGED fetched
  BY DEF Request
<1>4. CASE UNCHANGED <<pc, fetched>>
  BY <1>1, <1>4, QuietKept
<1>5. CASE NextSource(p) /\ UNCHANGED fetched
  <2>1. pc'[p] = "walk"
    BY <1>5 DEF NextSource, TypeInv, StateOK
  <2>2. QED BY <1>1, <1>5, <2>1, QuietKept
<1>6. ASSUME NEW from, Answered(p, from) PROVE Quiet'
  <2> DEFINE m == [key |-> Key(p), from |-> from]
  <2>1. fetched' = fetched \cup {m} /\ pc'[p] = "open" /\ UNCHANGED todo
    BY <1>2, <1>6 DEF Answered, TypeInv, StateOK
  <2>2. m.key = Key(p) /\ Key(p)' = Key(p)
    BY <2>1 DEF Key
  <2> HIDE DEF m
  <2>3. \A q \in Procs \ {p} : pc[q] = "stopped" /\ pc'[q] = "stopped"
    BY <1>1, OthersStopped
  <2>4. Fresh'
    BY <1>1, <2>1 DEF Quiet, Fresh
  <2>5. Kept'
    <3>1. \A q \in Procs : pc[q] \notin Storing
      BY <1>1, <2>3 DEF Storing
    <3>2. \A n \in fetched : path[n.key] # NoFile
      BY <3>1 DEF Quiet, Kept
    <3>3. pc'[p] \in Storing
      BY <2>1 DEF Storing
    <3>4. QED BY <1>1, <2>1, <2>2, <3>2, <3>3 DEF Kept
  <2>6. StoresWell(p)'
    BY <2>1 DEF StoresWell
  <2>7. QED BY <1>1, <1>2, <2>1, <2>3, <2>4, <2>5, <2>6, QuietOfOne
<1>7. QED BY <1>3, <1>4, <1>5, <1>6

\* A step that disturbs nothing leaves the directory in order.
LEMMA QuietStep ==
  ASSUME TypeInv, SafeInv, Quiet, [Next]_vars, ~disturbed'
  PROVE  Quiet'
<1>1. CASE UNCHANGED vars
  BY <1>1 DEF vars, local, disk, ghosts, Quiet, Alone, Running, StoresWell, Key, Fresh, Kept
<1>2. ~Age /\ \A p \in Procs : ~Kill(p) /\ ~OpenFails(p) /\ ~WriteFails(p)
  BY DEF Age, Kill, OpenFails, WriteFails
<1>3. ASSUME NEW p \in Procs, Start(p) PROVE Quiet'
  <2>1. PICK c \in Configs : /\ config' = [config EXCEPT ![p] = c]
                             /\ disturbed' = (disturbed \/ ~c.disk \/ \E q \in Procs : Running(q))
    BY <1>3 DEF Start
  <2>2. c.disk /\ \A q \in Procs : pc[q] = "stopped"
    BY <2>1 DEF Running
  <2>3. pc' = [pc EXCEPT ![p] = "lookup"] /\ UNCHANGED <<path, tmp, file, aged, fetched>>
    BY <1>3 DEF Start, disk
  <2>4. pc'[p] = "lookup" /\ config'[p].disk /\ \A q \in Procs \ {p} : pc'[q] = "stopped"
    BY <2>1, <2>2, <2>3 DEF TypeInv, StateOK
  <2>5. Fresh'
    BY <2>3 DEF Quiet, Fresh
  <2>6. Kept'
    BY <2>2, <2>3 DEF Quiet, Kept, Storing
  <2>7. StoresWell(p)'
    BY <2>4 DEF StoresWell
  <2>8. QED BY <2>4, <2>5, <2>6, <2>7, QuietOfOne
<1>4. ASSUME NEW p \in Procs, Step(p) PROVE Quiet'
  <2>0. pc[p] # "stopped" => pc[p] \notin {"remove", "unlink"}
    BY DEF Quiet, Alone, Running
  <2>1. ASSUME NEW c \in {"stopped", "lookup", "stat", "read", "walk", "request"}, pc' = [pc EXCEPT ![p] = c],
               pc[p] \notin Storing, UNCHANGED <<config, disk, fetched>>
        PROVE  Quiet'
    <3>1. pc'[p] = c
      BY <2>1 DEF TypeInv, StateOK
    <3>2. QED BY <1>4, <2>1, <3>1, QuietKept DEF disk
  <2>2. CASE Lookup(p) \/ Done(p) \/ WalkEnds(p) \/ RequestsFail(p)
    BY <2>1, <2>2 DEF Lookup, Done, Exit, WalkEnds, RequestsFail, ResolvedAs, StartWalk, NextSource, ghosts, Storing
  <2>3. CASE Walk(p)
    BY <2>1, <2>3 DEF Walk, NextSource, ghosts, Storing
  <2>4. CASE Stat(p)
    <3>1. aged = {}
      BY DEF Quiet, Fresh
    <3>2. PICK c \in {"walk", "read"} : pc' = [pc EXCEPT ![p] = c]
      BY <2>4, <3>1 DEF Stat, StartWalk
    <3>3. QED BY <2>1, <2>4, <3>2 DEF Stat, Storing
  <2>5. CASE Read(p)
    BY <2>1, <2>5 DEF Read, ResolvedAs, StartWalk, Storing
  \* What has a name is whole.
  <2>6. CASE Corrupt(p)
    <3>1. pc[p] = "read" /\ todo[p] # <<>>
      BY <2>6 DEF Corrupt, ReadsTorn, TypeInv, Busy
    <3>2. Key(p) \in Keys
      BY <3>1, KeyFacts DEF TypeInv
    <3>3. Torn \in fetched
      BY <2>6, <3>2 DEF Corrupt, ReadsTorn, Quiet, Fresh
    <3>4. Torn \notin fetched
      BY RegistryAssumption DEF TypeInv, StateOK
    <3>5. QED BY <3>3, <3>4
  <2>7. CASE Remove(p) \/ Unlink(p)
    BY <2>0, <2>7 DEF Remove, Unlink
  <2>8. CASE Request(p)
    BY <2>8, QuietRequest
  <2>9. CASE OpenTmp(p)
    BY <2>9, QuietOpen
  <2>10. CASE Write(p)
    BY <2>10, QuietWrite
  <2>11. CASE Rename(p)
    BY <2>11, QuietRename
  <2>12. QED
    BY <1>2, <1>4, <2>2, <2>3, <2>4, <2>5, <2>6, <2>7, <2>8, <2>9, <2>10, <2>11 DEF Step
<1>5. QED BY <1>1, <1>2, <1>3, <1>4 DEF Next

\* UndisturbedRunsShareAnswers for any number of runs and keys: without a kill,
\* an overlap, an expiry or a failed write, what DiskCache.Set was given is what
\* DiskCache.Get of every later run finds.
THEOREM SharedTheorem == Spec => []UndisturbedRunsShareAnswers
<1> DEFINE Inv == ~disturbed => Quiet
<1>1. Init => Inv
  <2> SUFFICES ASSUME Init PROVE Quiet
    OBVIOUS
  <2>1. Alone
    BY DEF Init, Alone, Running
  <2>2. Fresh /\ Kept
    BY DEF Init, Fresh, Kept
  <2>3. QED BY <2>1, <2>2 DEF Quiet
<1>2. TypeInv /\ SafeInv /\ Inv /\ [Next]_vars => Inv'
  <2> SUFFICES ASSUME TypeInv, SafeInv, Inv, [Next]_vars, ~disturbed' PROVE Quiet'
    OBVIOUS
  <2>1. ~disturbed
    <3>1. CASE Age \/ UNCHANGED vars
      BY <3>1 DEF Age, vars, ghosts
    <3>2. ASSUME NEW p \in Procs, Start(p) \/ Kill(p) PROVE ~disturbed
      BY <3>2 DEF Start, Kill
    <3>3. ASSUME NEW p \in Procs, Step(p) PROVE ~disturbed
      BY <3>3 DEF Step, Lookup, Done, Stat, Read, Corrupt, Remove, Walk, WalkEnds, Request,
                  RequestsFail, OpenTmp, OpenFails, Write, WriteFails, Rename, Unlink, ghosts
    <3>4. QED BY <3>1, <3>2, <3>3 DEF Next
  <2>2. QED BY <2>1, QuietStep
<1>3. TypeInv /\ Inv => UndisturbedRunsShareAnswers
  <2> SUFFICES ASSUME TypeInv, Quiet, NEW m \in fetched, \A p \in Procs : pc[p] \notin Storing
               PROVE  path[m.key] # NoFile /\ file[path[m.key]] \in fetched
    BY DEF UndisturbedRunsShareAnswers
  <2>1. m.key \in Keys
    BY DEF TypeInv, StateOK, Metadata
  <2>2. QED BY <2>1 DEF Quiet, Kept, Fresh
<1>4. QED BY <1>1, <1>2, <1>3, SafeInvariant, TypeInvariant, PTL DEF Spec
=============================================================================
