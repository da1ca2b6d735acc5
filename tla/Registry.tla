---------------------------- MODULE Registry ----------------------------
(* The registry enricher's resolver (internal/enrich/registry): several     *)
(* astinus processes resolve the PURLs of their SBOMs one after the other,   *)
(* each with a memory cache of its own, over one --registry-cache-dir.       *)
(*                                                                           *)
(* The disk cache is files: a name (path or path.tmp) leads to an inode,     *)
(* opening path.tmp truncates the inode it leads to, a writer keeps writing  *)
(* into its inode after somebody renamed it, and a process may be killed     *)
(* between any two system calls.  The names of an entry are derived from the *)
(* key alone, so two processes that resolve the same key share both.         *)
EXTENDS Integers, Sequences, FiniteSets, Functions

CONSTANTS
  Procs,      \* the processes that share the cache directory
  Keys,       \* canonicalPURLKey of the PURLs that occur
  SourcesFor, \* key -> the sources that support its type, "http" or "stub"
  Configs,    \* the configurations a process may be started with
  Lists,      \* the sequences of PURLs of the SBOMs
  Unasked,    \* no entry in the map
  NoMeta,     \* an entry with a nil Metadata: nobody had anything
  Torn,       \* bytes that json.Unmarshal refuses
  MaxRuns     \* bound: how many processes are started altogether

Metadata    == [key : Keys, from : SUBSET Nat]
ModeChoices == {"", "replace", "fallback"}

ASSUME RegistryAssumption ==
  /\ Keys # {} /\ Configs # {}
  /\ IsFiniteSet(Keys) /\ IsFiniteSet(Procs)
  /\ SourcesFor \in [Keys -> Seq({"http", "stub"})]
  /\ \A c \in Configs : /\ c.mirrors \in Seq(ModeChoices)
                        /\ c.network \in BOOLEAN
                        /\ c.disk \in BOOLEAN
  /\ Lists \subseteq Seq(Keys)
  /\ MaxRuns \in Nat
  /\ Unasked # NoMeta /\ Unasked # Torn /\ NoMeta # Torn
  /\ {Unasked, NoMeta, Torn} \cap Metadata = {}

Upstream == 0
NoFile == 0

Inodes == 1 .. 2 * Cardinality(Keys) + Cardinality(Procs)

VARIABLES
  config,     \* per process: mirrors of the ecosystem, network, disk cache
  todo,       \* per process: the PURLs not yet resolved
  pc,         \* per process: where Resolve stands
  mem,        \* per process: MemoryCache.entries
  src,        \* per process: the source tried, an index of SourcesFor
  tried,      \* per process: the endpoints the source has asked
  raw,        \* per process: the endpoints whose bodies were decoded into raw
  fd,         \* per process: the inode of the open temporary file
  path, tmp,  \* per key: the inodes the two names lead to
  file,       \* per inode: what it holds
  aged,       \* the inodes whose mtime is older than the TTL
  runs,       \* the number of processes started
  walks,      \* per process and key: walks of the source chain in this run
  fetched,    \* every Metadata a source ever returned
  asked,      \* <<k, i>>: Fetch of the i-th source of k was ever called
  disturbed   \* a kill, overlap, expiry, failed write or run without directory

local  == <<config, todo, pc, mem, src, tried, raw, fd>>
disk   == <<path, tmp, file, aged>>
ghosts == <<walks, fetched, asked, disturbed>>
vars   == <<local, disk, runs, ghosts>>

Key(p)  == Head(todo[p])
Running(p) == pc[p] # "stopped"
Storing == {"open", "write", "rename", "unlink"}

EffectiveMode(m) == IF m = "" THEN "replace" ELSE m

Replaces(c, e) == e # Upstream /\ EffectiveMode(c.mirrors[e]) = "replace"

(* Faulty variant: the first mirror of the list decides about upstream.      *)
EndpointsByFirstMirror(c) ==
  DOMAIN c.mirrors \cup {e \in {Upstream} : c.mirrors = <<>> \/ ~Replaces(c, 1)}

(* MirrorChain.Endpoints: the mirrors, by their index, and upstream unless   *)
(* one of them replaces it ...                                               *)
Endpoints(c) ==
  DOMAIN c.mirrors
    \cup {e \in {Upstream} : \A n \in DOMAIN c.mirrors : ~Replaces(c, n)}

(* ... in this order: replace mirrors, fallback mirrors, upstream.           *)
Precedes(c, d, e) ==
  \/ d # Upstream /\ e = Upstream
  \/ e # Upstream /\ Replaces(c, d) /\ ~Replaces(c, e)
  \/ /\ d # Upstream /\ e # Upstream
     /\ Replaces(c, d) = Replaces(c, e)
     /\ d < e

Init ==
  /\ config = [p \in Procs |-> CHOOSE c \in Configs : TRUE]   \* set by Start
  /\ todo = [p \in Procs |-> <<>>]
  /\ pc = [p \in Procs |-> "stopped"]
  /\ mem = [p \in Procs |-> [k \in Keys |-> Unasked]]
  /\ src = [p \in Procs |-> 1]
  /\ tried = [p \in Procs |-> {}]
  /\ raw = [p \in Procs |-> {}]
  /\ fd = [p \in Procs |-> NoFile]
  /\ path = [k \in Keys |-> NoFile]
  /\ tmp = [k \in Keys |-> NoFile]
  /\ file = [i \in Inodes |-> Torn]
  /\ aged = {}
  /\ runs = 0
  /\ walks = [p \in Procs |-> [k \in Keys |-> 0]]
  /\ fetched = {}
  /\ asked = {}
  /\ disturbed = FALSE

-----------------------------------------------------------------------------
(* The life of a process.                                                    *)

(* buildRegistryEnricher, buildRegistryCache and the first component.        *)
Start(p) ==
  /\ ~Running(p)
  /\ runs < MaxRuns
  /\ runs' = runs + 1
  /\ \E c \in Configs, l \in Lists :
       /\ config' = [config EXCEPT ![p] = c]
       /\ todo' = [todo EXCEPT ![p] = l]
       /\ disturbed' = (disturbed \/ ~c.disk \/ \E q \in Procs : Running(q))
  /\ pc' = [pc EXCEPT ![p] = "lookup"]
  /\ UNCHANGED <<mem, src, tried, raw, fd, disk, walks, fetched, asked>>

(* The process is gone, and with it its memory and its open descriptors;     *)
(* the files stay as they are.                                               *)
Exit(p) ==
  /\ pc' = [pc EXCEPT ![p] = "stopped"]
  /\ todo' = [todo EXCEPT ![p] = <<>>]
  /\ mem' = [mem EXCEPT ![p] = [k \in Keys |-> Unasked]]
  /\ src' = [src EXCEPT ![p] = 1]
  /\ tried' = [tried EXCEPT ![p] = {}]
  /\ raw' = [raw EXCEPT ![p] = {}]
  /\ fd' = [fd EXCEPT ![p] = NoFile]
  /\ walks' = [walks EXCEPT ![p] = [k \in Keys |-> 0]]
  /\ UNCHANGED <<config, disk, runs, fetched, asked>>

(* SIGKILL between two system calls.                                         *)
Kill(p) ==
  /\ Running(p)
  /\ Exit(p)
  /\ disturbed' = TRUE

(* Enrich has walked all components.                                         *)
Done(p) ==
  /\ pc[p] = "lookup"
  /\ todo[p] = <<>>
  /\ Exit(p)
  /\ UNCHANGED disturbed

(* Time passes until an entry is older than the TTL.                         *)
Age ==
  /\ \E i \in Range(path) \ ({NoFile} \cup aged) : aged' = aged \cup {i}
  /\ disturbed' = TRUE
  /\ UNCHANGED <<local, path, tmp, file, runs, walks, fetched, asked>>

-----------------------------------------------------------------------------
(* Resolve, first half: the cache.                                           *)

(* Resolve returns m (nil: an error that processComponent only counts), its  *)
(* local variables are gone, and the walk over the components goes on.       *)
ResolvedAs(p, m) ==
  /\ mem' = [mem EXCEPT ![p][Key(p)] = m]
  /\ todo' = [todo EXCEPT ![p] = Tail(@)]
  /\ src' = [src EXCEPT ![p] = 1]
  /\ tried' = [tried EXCEPT ![p] = {}]
  /\ raw' = [raw EXCEPT ![p] = {}]
  /\ pc' = [pc EXCEPT ![p] = "lookup"]

StartWalk(p) ==
  /\ pc' = [pc EXCEPT ![p] = "walk"]
  /\ src' = [src EXCEPT ![p] = 1]
  /\ walks' = [walks EXCEPT ![p][Key(p)] = @ + 1]

(* LayeredCache.Get / MemoryCache.Get, the memory half.                      *)
Lookup(p) ==
  /\ pc[p] = "lookup"
  /\ todo[p] # <<>>
  /\ \/ /\ mem[p][Key(p)] # Unasked
        /\ ResolvedAs(p, mem[p][Key(p)])
        /\ UNCHANGED walks
     \/ /\ mem[p][Key(p)] = Unasked
        /\ config[p].disk
        /\ pc' = [pc EXCEPT ![p] = "stat"]
        /\ UNCHANGED <<todo, mem, src, tried, raw, walks>>
     \/ /\ mem[p][Key(p)] = Unasked
        /\ ~config[p].disk
        /\ StartWalk(p)
        /\ UNCHANGED <<todo, mem, tried, raw>>
  /\ UNCHANGED <<config, fd, disk, runs, fetched, asked, disturbed>>

(* DiskCache.Get up to the test of the TTL.                                  *)
Stat(p) ==
  /\ pc[p] = "stat"
  /\ \/ /\ path[Key(p)] = NoFile
        /\ StartWalk(p)
     \/ /\ path[Key(p)] # NoFile
        /\ pc' = [pc EXCEPT ![p] = IF path[Key(p)] \in aged THEN "remove" ELSE "read"]
        /\ UNCHANGED <<src, walks>>
  /\ UNCHANGED <<config, todo, mem, tried, raw, fd, disk, runs, fetched, asked, disturbed>>

(* DiskCache.Get from ReadFile on; by now the name may be gone or lead       *)
(* elsewhere.                                                                *)
Read(p) ==
  /\ pc[p] = "read"
  /\ \/ /\ path[Key(p)] = NoFile
        /\ StartWalk(p)
        /\ UNCHANGED <<todo, mem, tried, raw>>
     \/ /\ path[Key(p)] # NoFile
        /\ file[path[Key(p)]] # Torn
        /\ ResolvedAs(p, file[path[Key(p)]])
        /\ UNCHANGED walks
  /\ UNCHANGED <<config, fd, disk, runs, fetched, asked, disturbed>>

ReadsTorn(p) ==
  /\ pc[p] = "read"
  /\ path[Key(p)] # NoFile
  /\ file[path[Key(p)]] = Torn

(* Faulty variant: the bytes are taken for metadata, Unmarshal's error is    *)
(* not looked at.                                                            *)
CorruptTaken(p) ==
  /\ ReadsTorn(p)
  /\ ResolvedAs(p, Torn)
  /\ UNCHANGED <<config, fd, disk, runs, ghosts>>

(* Faulty variant: a body that does not parse is read again, not dropped.    *)
CorruptReadAgain(p) ==
  /\ ReadsTorn(p)
  /\ pc' = [pc EXCEPT ![p] = "stat"]
  /\ UNCHANGED <<config, todo, mem, src, tried, raw, fd, disk, runs, ghosts>>

(* Unmarshal fails: the corrupt entry is to be dropped.                      *)
Corrupt(p) ==
  /\ ReadsTorn(p)
  /\ pc' = [pc EXCEPT ![p] = "remove"]
  /\ UNCHANGED <<config, todo, mem, src, tried, raw, fd, disk, runs, ghosts>>

(* os.Remove of an expired or corrupt entry: it removes whatever the name    *)
(* leads to now.                                                             *)
Remove(p) ==
  /\ pc[p] = "remove"
  /\ path' = [path EXCEPT ![Key(p)] = NoFile]
  /\ StartWalk(p)
  /\ UNCHANGED <<config, todo, mem, tried, raw, fd, tmp, file, aged, runs, fetched, asked, disturbed>>

-----------------------------------------------------------------------------
(* Resolve, second half: the source chain.                                   *)

NextSource(p) ==
  /\ pc' = [pc EXCEPT ![p] = "walk"]
  /\ src' = [src EXCEPT ![p] = @ + 1]

(* One round of the loop over the sources: without the network a source is   *)
(* skipped, a stub answers ErrNotFound, the others go to their endpoints.    *)
Walk(p) ==
  /\ pc[p] = "walk"
  /\ src[p] <= Len(SourcesFor[Key(p)])
  /\ \/ /\ config[p].network
        /\ SourcesFor[Key(p)][src[p]] = "http"
        /\ pc' = [pc EXCEPT ![p] = "request"]
        /\ tried' = [tried EXCEPT ![p] = {}]
        /\ raw' = [raw EXCEPT ![p] = {}]
        /\ asked' = asked \cup {<<Key(p), src[p]>>}
        /\ UNCHANGED src
     \/ /\ ~config[p].network \/ SourcesFor[Key(p)][src[p]] = "stub"
        /\ NextSource(p)
        /\ UNCHANGED <<tried, raw, asked>>
  /\ UNCHANGED <<config, todo, mem, fd, disk, runs, walks, fetched, disturbed>>

(* Faulty variant: the negative result is not remembered.                    *)
WalkEndsUncached(p) ==
  /\ pc[p] = "walk"
  /\ src[p] > Len(SourcesFor[Key(p)])
  /\ ResolvedAs(p, Unasked)
  /\ UNCHANGED <<config, fd, disk, runs, ghosts>>

(* Faulty variant: the negative result goes to the disk like any other.      *)
WalkEndsOnDisk(p) ==
  /\ pc[p] = "walk"
  /\ src[p] > Len(SourcesFor[Key(p)])
  /\ IF config[p].disk
     THEN /\ mem' = [mem EXCEPT ![p][Key(p)] = NoMeta]
          /\ pc' = [pc EXCEPT ![p] = "open"]
          /\ UNCHANGED <<todo, src, tried, raw>>
     ELSE ResolvedAs(p, NoMeta)
  /\ UNCHANGED <<config, fd, disk, runs, ghosts>>

(* No source had anything: the nil goes into the memory layer; DiskCache.Set *)
(* returns at once for nil.                                                  *)
WalkEnds(p) ==
  /\ pc[p] = "walk"
  /\ src[p] > Len(SourcesFor[Key(p)])
  /\ ResolvedAs(p, NoMeta)
  /\ UNCHANGED <<config, fd, disk, runs, ghosts>>

(* The source returns metadata decoded from the given endpoints: memory      *)
(* first, then the disk.                                                     *)
Answered(p, from) ==
  LET m == [key |-> Key(p), from |-> from]
  IN  /\ fetched' = fetched \cup {m}
      /\ IF config[p].disk
         THEN /\ mem' = [mem EXCEPT ![p][Key(p)] = m]
              /\ pc' = [pc EXCEPT ![p] = "open"]
              /\ UNCHANGED <<todo, src, tried, raw>>
         ELSE ResolvedAs(p, m)

(* One endpoint of FetchJSON.  Its status or transport error sends the loop  *)
(* to the next endpoint, and so does a body that fails to decode, but of one *)
(* with a field of the wrong type the other fields stay in raw; a decoded    *)
(* body ends the loop, and the source fails only if nothing usable is in raw.*)
Request(p) ==
  /\ pc[p] = "request"
  /\ \E here \in Endpoints(config[p]) \ tried[p] :
       /\ \A other \in Endpoints(config[p]) \ tried[p] : ~Precedes(config[p], other, here)
       /\ \/ /\ tried' = [tried EXCEPT ![p] = @ \cup {here}]
             /\ raw' \in {raw, [raw EXCEPT ![p] = @ \cup {here}]}
             /\ UNCHANGED <<todo, pc, mem, src, fetched>>
          \/ \E from \in {raw[p], raw[p] \cup {here}} \ {{}} : Answered(p, from)
          \/ /\ raw[p] = {}
             /\ NextSource(p)
             /\ UNCHANGED <<todo, mem, tried, raw, fetched>>
  /\ UNCHANGED <<config, fd, disk, runs, walks, asked, disturbed>>

(* Every endpoint failed: Fetch returns an error and the resolver goes on.   *)
RequestsFail(p) ==
  /\ pc[p] = "request"
  /\ Endpoints(config[p]) \subseteq tried[p]
  /\ NextSource(p)
  /\ UNCHANGED <<config, todo, mem, tried, raw, fd, disk, runs, ghosts>>

-----------------------------------------------------------------------------
(* DiskCache.Set.                                                            *)

SetReturns(p) == ResolvedAs(p, mem[p][Key(p)])

Free == Inodes \ (Range(path) \cup Range(tmp) \cup Range(fd))

(* The inode path.tmp leads to, or the first free one.                       *)
TmpInode(k) ==
  IF tmp[k] # NoFile THEN {tmp[k]} ELSE {n \in Free : \A o \in Free : n <= o}

(* WriteFile opens path.tmp: a new file, or the one that is there, emptied.  *)
OpenTmp(p) ==
  /\ pc[p] = "open"
  /\ \E i \in TmpInode(Key(p)) :
       /\ tmp' = [tmp EXCEPT ![Key(p)] = i]
       /\ fd' = [fd EXCEPT ![p] = i]
       /\ file' = [file EXCEPT ![i] = Torn]
       /\ aged' = aged \ {i}
  /\ pc' = [pc EXCEPT ![p] = "write"]
  /\ UNCHANGED <<config, todo, mem, src, tried, raw, path, runs, ghosts>>

(* MkdirAll or the open fails: Set gives up.                                 *)
OpenFails(p) ==
  /\ pc[p] = "open"
  /\ SetReturns(p)
  /\ disturbed' = TRUE
  /\ UNCHANGED <<config, fd, disk, runs, walks, fetched, asked>>

(* The body is written from offset 0; over a longer body of another process  *)
(* that has the file open too, the rest of that body remains behind it.      *)
Write(p) ==
  /\ pc[p] = "write"
  /\ \E b \in {mem[p][Key(p)]} \cup (IF file[fd[p]] = Torn THEN {} ELSE {Torn}) :
       file' = [file EXCEPT ![fd[p]] = b]
  /\ aged' = aged \ {fd[p]}
  /\ fd' = [fd EXCEPT ![p] = NoFile]
  /\ pc' = [pc EXCEPT ![p] = "rename"]
  /\ UNCHANGED <<config, todo, mem, src, tried, raw, path, tmp, runs, ghosts>>

(* A full disk: part of the body is written and path.tmp is left behind.     *)
WriteFails(p) ==
  /\ pc[p] = "write"
  /\ file' = [file EXCEPT ![fd[p]] = Torn]
  /\ fd' = [fd EXCEPT ![p] = NoFile]
  /\ SetReturns(p)
  /\ disturbed' = TRUE
  /\ UNCHANGED <<config, path, tmp, aged, runs, walks, fetched, asked>>

(* Faulty variant: the file is left under its temporary name.                *)
RenameForgotten(p) ==
  /\ pc[p] = "rename"
  /\ SetReturns(p)
  /\ UNCHANGED <<config, fd, disk, runs, ghosts>>

(* Rename moves whatever path.tmp leads to now.                              *)
Rename(p) ==
  /\ pc[p] = "rename"
  /\ \/ /\ tmp[Key(p)] # NoFile
        /\ path' = [path EXCEPT ![Key(p)] = tmp[Key(p)]]
        /\ tmp' = [tmp EXCEPT ![Key(p)] = NoFile]
        /\ SetReturns(p)
     \/ /\ tmp[Key(p)] = NoFile
        /\ pc' = [pc EXCEPT ![p] = "unlink"]
        /\ UNCHANGED <<path, tmp, todo, mem, src, tried, raw>>
  /\ UNCHANGED <<config, fd, file, aged, runs, ghosts>>

(* Rename failed, so the temporary file goes, whoever's it is by now.        *)
Unlink(p) ==
  /\ pc[p] = "unlink"
  /\ tmp' = [tmp EXCEPT ![Key(p)] = NoFile]
  /\ SetReturns(p)
  /\ UNCHANGED <<config, fd, path, file, aged, runs, ghosts>>

-----------------------------------------------------------------------------
Step(p) ==
  \/ Lookup(p) \/ Done(p) \/ Stat(p) \/ Read(p) \/ Corrupt(p) \/ Remove(p)
  \/ Walk(p) \/ WalkEnds(p) \/ Request(p) \/ RequestsFail(p)
  \/ OpenTmp(p) \/ OpenFails(p) \/ Write(p) \/ WriteFails(p) \/ Rename(p) \/ Unlink(p)

Next == Age \/ \E p \in Procs : Start(p) \/ Kill(p) \/ Step(p)

Spec == Init /\ [][Next]_vars

(* A process is one goroutine whose requests have a timeout of 30 seconds.   *)
FairSpec == Spec /\ \A p \in Procs : WF_vars(Step(p))

-----------------------------------------------------------------------------
StateOK ==
  /\ config \in [Procs -> Configs]
  /\ todo \in [Procs -> Seq(Keys)]
  /\ pc \in [Procs -> Storing \cup {"stopped", "lookup", "stat", "read", "remove", "walk", "request"}]
  /\ mem \in [Procs -> [Keys -> {Unasked, NoMeta} \cup Metadata]]
  /\ src \in [Procs -> Nat \ {0}]
  /\ tried \in [Procs -> SUBSET Nat]
  /\ raw \in [Procs -> SUBSET Nat]
  /\ fd \in [Procs -> {NoFile} \cup Inodes]
  /\ path \in [Keys -> {NoFile} \cup Inodes]
  /\ tmp \in [Keys -> {NoFile} \cup Inodes]
  /\ file \in [Inodes -> {Torn} \cup Metadata]
  /\ aged \subseteq Inodes
  /\ runs \in 0 .. MaxRuns
  /\ walks \in [Procs -> [Keys -> Nat]]
  /\ fetched \subseteq Metadata
  /\ disturbed \in BOOLEAN

TypeOK == StateOK /\ asked \subseteq Keys \X Nat

(* Whatever two processes write over each other's temporary file, rename,    *)
(* remove or leave half written, a lookup hands out only metadata some        *)
(* source returned, whole, for that very key (DiskCache.Get drops the rest). *)
HandsOutOnlyWholeAnswers ==
  \A p \in Procs, k \in Keys :
    mem[p][k] \in {Unasked, NoMeta} \cup {m \in fetched : m.key = k}

(* 'A hit with a nil Metadata means "we asked, nobody had anything"' (Cache): *)
(* a run that has the network holds a nil only for a PURL each of whose      *)
(* sources with a service to ask was called for it, by this run or another.  *)
(* What a run under --no-network made up without asking, killed or not, is   *)
(* no answer to a run that could ask (Resolve, DiskCache.Set).               *)
NilMeansAsked ==
  \A p \in Procs, k \in Keys :
    mem[p][k] = NoMeta /\ config[p].network =>
      \A i \in DOMAIN SourcesFor[k] : SourcesFor[k][i] = "http" => <<k, i>> \in asked

(* However often an SBOM lists a PURL, and whether it is found or not, one   *)
(* run walks the source chain for it at most once (Resolver: "the same       *)
(* component asked for twice in a run only hits the network once").          *)
OneWalkPerRun ==
  \A p \in Procs, k \in Keys : walks[p][k] <= 1

(* A request goes out only in a run that has the network; to a fallback      *)
(* mirror only when every mirror that is to replace the registry, with the   *)
(* default mode "" or not, was asked in vain; and to the public registry      *)
(* only when every mirror was and not one of them is to replace it, wherever *)
(* in the list it stands (FetchJSON over MirrorChain.Endpoints).             *)
MirrorsShieldUpstream ==
  \A p \in Procs :
    LET mirrors == config[p].mirrors IN
    /\ tried[p] # {} => config[p].network
    /\ \A n \in DOMAIN mirrors : n \in tried[p] /\ mirrors[n] = "fallback" =>
         \A r \in DOMAIN mirrors : mirrors[r] # "fallback" => r \in tried[p]
    /\ Upstream \in tried[p] =>
         \A n \in DOMAIN mirrors : n \in tried[p] /\ mirrors[n] = "fallback"

(* When processes run one after the other and nothing is killed, expires or  *)
(* fails to be written, everything fetched under a cache directory is there  *)
(* for the next run, which therefore fetches nothing a second time.          *)
UndisturbedRunsShareAnswers ==
  ~disturbed =>
    \A m \in fetched :
      \/ \E p \in Procs : pc[p] \in Storing
      \/ /\ path[m.key] # NoFile
         /\ file[path[m.key]] \in fetched

(* FetchJSON's promise: it "decodes the first 2xx body into out".  All        *)
(* endpoints of a source decode into one variable, so a body with a field of  *)
(* the wrong type, whose other fields Decode has stored by the time it        *)
(* reports the mismatch, leaves them to be mixed with those of the next.      *)
AnswerIsFromOneEndpoint == \A m \in fetched : Cardinality(m.from) = 1

(* Every run of the enricher comes to its end, whatever it finds on disk.    *)
RunsEnd == \A p \in Procs : Running(p) ~> ~Running(p)
=============================================================================
