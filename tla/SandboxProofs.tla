---------------------------- MODULE SandboxProofs ----------------------------
(***************************************************************************)
(* Proofs about SandboxManager for any number of callers, profiles, places  *)
(* and operations.                                                          *)
(***************************************************************************)
EXTENDS SandboxManager, TLAPS

USE SandboxConstants DEF SandboxConstants

Named == Profiles \union {Default}
Ops == {"none", "acquire", "create", "default", "get", "start", "stop", "destroy"}
Stages == {"idle", "make", "record", "cache", "name", "lock", "find", "open", "load", "power",
           "raze", "evict", "unname", "delete"}
Jobs == [op : Ops, profile : Named \union {None}, id : 0..MaxOps, place : Places \union {None},
         n : 0..MaxOps]

(* A place the provider has chosen, or would choose, for the profile.       *)
Fits(p, place) ==
    IF SpecOf(p).home = None THEN place.type = "generated" /\ place.n <= made[SpecOf(p).kind]
    ELSE /\ place.type = IF SpecOf(p).kind = "ssh" THEN "host" ELSE "dir"
         /\ place.home = SpecOf(p).home

(* A handle made for the place, at first or later, for some profile.        *)
HandleFits(h, place) ==
    \E q \in Named :
        /\ Fits(q, place)
        /\ h = Handle(q, place) \/ (place.type # "host" /\ h = Reopened(q, place))

Razing == {"raze", "evict", "unname", "delete"}

(* What a caller has in hand at each stage.                                 *)
JobOK(where, j) ==
    /\ j \in Jobs
    /\ where = "idle" => j = Rest
    /\ j.place # None => j.profile \in Named /\ Fits(j.profile, j.place)
    /\ where \in {"make", "record", "cache"} =>
          \/ j.op = "default" /\ j.profile = Default /\ j.n \in Numbers
          \/ j.op = "create" /\ j.profile \in Profiles /\ j.n \in Numbers
          \/ j.op = "acquire" /\ j.profile \in Profiles /\ where # "record"
    /\ where \in {"record", "cache", "name", "load"} \union Razing => j.place # None
    /\ where = "name" => j.op \in {"acquire", "create"} /\ j.profile \in Profiles
    /\ where \in {"lock", "find", "open"} => j.n \in Numbers /\ j.op = "default" /\ j.profile = Default
    /\ where = "open" => j.id \in Numbers
    /\ where = "load" => j.op \in {"get", "default"}
    /\ where \in Razing => j.id \in Numbers /\ j.op = "destroy"
    /\ where = "power" => j.id \in Numbers /\ j.op \in {"start", "stop"}

JobsOK ==
    /\ pc \in [Callers -> Stages]
    /\ job \in [Callers -> Jobs]
    /\ \A c \in Callers : JobOK(pc[c], job[c])

(* The tables lead to places of the profiles they are asked for.            *)
TablesFit ==
    /\ \A id \in Numbers : Recorded(id) => Fits(records[id].profile, records[id].place)
    /\ \A place \in Places : instances[place] # None => HandleFits(instances[place], place)
    /\ \A p \in Profiles : names[p] # None => Fits(p, names[p])

Making == {"lock", "find", "make", "record"}

(* Ids are used once: no record has the id of a sandbox that is being made, *)
(* and the record default() found is of the scratch profile or gone.        *)
NumberInv ==
    /\ \A id \in Numbers : id > ops => records[id] = None
    /\ \A c \in Callers : job[c].n <= ops
    /\ \A c, d \in Callers : job[c].n # 0 /\ job[c].n = job[d].n => c = d
    /\ \A c \in Callers : pc[c] \in Making /\ job[c].n # 0 => records[job[c].n] = None
    /\ \A c \in Callers : pc[c] = "open" =>
          /\ job[c].id <= ops
          /\ records[job[c].id] = None \/ records[job[c].id].profile = Default
          /\ \A d \in Callers : pc[d] \in Making => job[d].n # job[c].id

(* -- places -------------------------------------------------------------------- *)

LEMMA RestTyped == JobOK("idle", Rest)
  BY DEF JobOK, Rest, Jobs, Ops, Razing

LEMMA SpecTyped ==
  ASSUME TypeOK, NEW p \in Named
  PROVE  /\ SpecOf(p) \in Settings /\ SpecOf(p).kind \in Kinds
         /\ IF SpecOf(p).home = None THEN SpecOf(p).kind \in {"local", "tmp"} ELSE SpecOf(p).home \in Homes
  <1>1. SpecOf(p) \in Settings
    BY DEF TypeOK, SpecOf, Named, Settings, Scratch
  <1> QED
    BY <1>1 DEF Settings, Kinds

(* The counters of generated names only grow; with them, what fits goes on  *)
(* fitting.                                                                 *)
Grows == specs' = specs /\ \A k \in {"local", "tmp"} : made'[k] \in 0..MaxOps /\ made[k] <= made'[k]
FitsKept == \A p \in Named, place \in Places : Fits(p, place) => Fits(p, place)'

LEMMA GrowsFit == ASSUME TypeOK, Grows PROVE FitsKept
  <1> SUFFICES ASSUME NEW p \in Named, NEW place \in Places, Fits(p, place) PROVE Fits(p, place)'
    BY DEF FitsKept
  <1>1. SpecOf(p)' = SpecOf(p)
    BY DEF Grows, SpecOf
  <1>2. CASE SpecOf(p).home = None
    <2>1. PICK k \in {"local", "tmp"} : SpecOf(p).kind = k
      BY <1>2, SpecTyped
    <2>2. made[k] \in Nat /\ made'[k] \in Nat /\ made[k] <= made'[k]
      BY <2>1 DEF TypeOK, Grows
    <2>3. place.type = "generated" /\ place.n <= made[k]
      BY <1>2, <2>1 DEF Fits
    <2>4. place.n \in Nat
      BY <2>3 DEF Places, Generated, Numbers
    <2>5. place.n <= made'[k]
      BY <2>2, <2>3, <2>4
    <2> QED
      BY <1>1, <1>2, <2>1, <2>3, <2>5 DEF Fits
  <1>3. CASE SpecOf(p).home # None
    BY <1>1, <1>3 DEF Fits
  <1> QED
    BY <1>2, <1>3

LEMMA PlaceTyped ==
  ASSUME TypeOK, Grows, NEW s \in Settings, Builds(s)
  PROVE  /\ Place(s) \in Places
         /\ dirs' \subseteq Places
         /\ \A p \in Named : \A place : SpecOf(p) = s /\ place = Place(s) => Fits(p, place)'
  <1>1. /\ dirs' = IF s.kind = "tmp" THEN dirs \union {Place(s)} ELSE dirs
        /\ s.home = None => made[s.kind] < MaxOps /\ made' = [made EXCEPT ![s.kind] = @ + 1]
    BY DEF Builds
  <1>2. CASE s.home = None
    <2>1. s.kind \in {"local", "tmp"}
      BY <1>2 DEF Settings
    <2>2. made \in [{"local", "tmp"} -> 0..MaxOps] /\ dirs \subseteq Places
      BY DEF TypeOK
    <2>3. made[s.kind] + 1 \in Numbers /\ made'[s.kind] = made[s.kind] + 1
      BY <1>1, <1>2, <2>1, <2>2 DEF Numbers
    <2>4. Place(s) = Generated(made[s.kind] + 1)
      BY <1>2 DEF Place
    <2>5. Place(s) \in Places
      BY <2>3, <2>4 DEF Places
    <2>6. ASSUME NEW p \in Named, NEW place, SpecOf(p) = s, place = Place(s)
          PROVE  Fits(p, place)'
      <3>1. SpecOf(p)' = SpecOf(p)
        BY DEF SpecOf, Grows
      <3>3. place.type = "generated" /\ place.n = made'[s.kind]
        BY <2>3, <2>4, <2>6 DEF Generated
      <3> QED
        BY <1>2, <2>1, <2>6, <3>1, <3>3 DEF Fits, Grows
    <2> QED
      BY <1>1, <2>2, <2>5, <2>6
  <1>3. CASE s.home # None
    <2>1. s.home \in Homes /\ s.kind \in Kinds
      BY <1>3 DEF Settings
    <2>2. Place(s) = [type |-> IF s.kind = "ssh" THEN "host" ELSE "dir", home |-> s.home, n |-> 0]
      BY <1>3 DEF Place
    <2>3. Place(s) \in Places /\ dirs \subseteq Places
      BY <2>1, <2>2 DEF Places, TypeOK
    <2>4. ASSUME NEW p \in Named, NEW place, SpecOf(p) = s, place = Place(s)
          PROVE  Fits(p, place)'
      <3>1. SpecOf(p)' = SpecOf(p)
        BY DEF SpecOf, Grows
      <3> QED
        BY <1>3, <2>2, <2>4, <3>1 DEF Fits
    <2> QED
      BY <1>1, <2>3, <2>4
  <1> QED
    BY <1>2, <1>3

LEMMA HandleTyped ==
  ASSUME TypeOK, NEW p \in Named, NEW place \in Places
  PROVE  /\ Handle(p, place) \in Handles
         /\ Handle(p, place).kind = SpecOf(p).kind
         /\ Handle(p, place).place = place
         /\ Handle(p, place).owner = IF place.type = "dir" THEN None ELSE p
  <1>1. SpecOf(p).kind \in Kinds
    BY SpecTyped
  <1>2. Handle(p, place).temp \in BOOLEAN
    BY DEF Handle
  <1> QED
    BY <1>1, <1>2 DEF Handle, Handles, Named

(* Only a nested directory is reopened as another.                          *)
LEMMA ReopenedTyped ==
  ASSUME TypeOK, NEW p \in Named, NEW place \in Places
  PROVE  /\ Reopened(p, place) \in Handles
         /\ Reopened(p, place).kind = SpecOf(p).kind
         /\ Reopened(p, place).owner = IF place.type = "dir" THEN None ELSE p
         /\ \/ Reopened(p, place).place = place
            \/ place.type = "dir" /\ SpecOf(p).kind = "tmp" /\ Base[place.home] # place.home
  <1>1. ASSUME NEW opened \in Places, opened.type = place.type,
               Reopened(p, place) = [Handle(p, opened) EXCEPT !.temp = FALSE]
        PROVE  /\ Reopened(p, place) \in Handles
               /\ Reopened(p, place).kind = SpecOf(p).kind
               /\ Reopened(p, place).owner = IF place.type = "dir" THEN None ELSE p
               /\ Reopened(p, place).place = opened
    <2> DEFINE h == Handle(p, opened)
    <2>1. /\ h \in Handles /\ h.kind = SpecOf(p).kind /\ h.place = opened
          /\ h.owner = IF place.type = "dir" THEN None ELSE p
      BY <1>1, HandleTyped
    <2> HIDE DEF h
    <2>2. Reopened(p, place) = [h EXCEPT !.temp = FALSE]
      BY <1>1 DEF h
    <2> QED
      BY <2>1, <2>2 DEF Handles
  <1>2. CASE SpecOf(p).kind = "tmp" /\ place.type = "dir"
    <2>1. place.home \in Homes /\ place = [type |-> "dir", home |-> place.home, n |-> 0]
      BY <1>2 DEF Places, Generated
    <2>2. Base[place.home] \in Homes
      BY <2>1
    <2> DEFINE opened == [place EXCEPT !.home = Base[place.home]]
    <2>3. opened = [type |-> "dir", home |-> Base[place.home], n |-> 0]
      BY <2>1
    <2>4. opened \in Places /\ opened.type = place.type /\ (Base[place.home] = place.home => opened = place)
      BY <2>1, <2>2, <2>3 DEF Places
    <2>5. Reopened(p, place) = [Handle(p, opened) EXCEPT !.temp = FALSE]
      BY <1>2 DEF Reopened
    <2> HIDE DEF opened
    <2> QED
      BY <1>1, <1>2, <2>4, <2>5
  <1>3. CASE ~(SpecOf(p).kind = "tmp" /\ place.type = "dir")
    <2>1. Reopened(p, place) = [Handle(p, place) EXCEPT !.temp = FALSE]
      BY <1>3 DEF Reopened
    <2> QED
      BY <1>1, <2>1
  <1> QED
    BY <1>2, <1>3

(* -- callers --------------------------------------------------------------------- *)

LEMMA JobArrives ==
  ASSUME JobsOK, FitsKept, NEW c \in Callers, NEW where \in Stages, NEW j \in Jobs,
         \A k \in Jobs : k = j => JobOK(where, k)',
         Becomes(c, where, j)
  PROVE  JobsOK'
  <1>1. pc' \in [Callers -> Stages] /\ job' \in [Callers -> Jobs]
    BY DEF Becomes, JobsOK
  <1>2. \A w, k : JobOK(w, k) => JobOK(w, k)'
    BY DEF JobOK, Jobs, FitsKept
  <1>3. ASSUME NEW d \in Callers
        PROVE  \A w, k : w = pc'[d] /\ k = job'[d] => JobOK(w, k)'
    <2>1. CASE d = c
      BY <2>1 DEF Becomes, JobsOK
    <2>2. CASE d # c
      <3>1. pc'[d] = pc[d] /\ job'[d] = job[d] /\ JobOK(pc[d], job[d])
        BY <2>2 DEF Becomes, JobsOK
      <3> QED
        BY <1>2, <3>1
    <2> QED
      BY <2>1, <2>2
  <1>4. \A d \in Callers : JobOK(pc[d], job[d])'
    BY <1>3
  <1>5. QED
    BY <1>1, <1>4 DEF JobsOK

LEMMA JobMoves ==
  ASSUME JobsOK, FitsKept, NEW c \in Callers, NEW where \in Stages, NEW j, JobOK(where, j),
         Becomes(c, where, j)
  PROVE  JobsOK'
  <1>1. j \in Jobs
    BY DEF JobOK
  <1>2. \A w, k : JobOK(w, k) => JobOK(w, k)'
    BY DEF JobOK, Jobs, FitsKept
  <1> QED
    BY <1>1, <1>2, JobArrives

LEMMA JobsStay == ASSUME JobsOK, FitsKept, UNCHANGED <<pc, job>> PROVE JobsOK'
  <1>1. \A w, k : JobOK(w, k) => JobOK(w, k)'
    BY DEF JobOK, Jobs, FitsKept
  <1> QED
    BY <1>1 DEF JobsOK

LEMMA JobEnds ==
  ASSUME JobsOK, FitsKept, NEW c \in Callers, Ends(c)
  PROVE  JobsOK'
  BY RestTyped, JobMoves DEF Ends, Stages

LEMMA JobGoesOn ==
  ASSUME JobsOK, FitsKept, NEW c \in Callers, NEW where \in Stages, JobOK(where, job[c]),
         pc' = [pc EXCEPT ![c] = where], job' = job
  PROVE  JobsOK'
  <1>1. Becomes(c, where, job[c])
    BY DEF Becomes, JobsOK
  <1>2. QED
    BY <1>1, JobMoves

LEMMA RestInJobs == Rest \in Jobs /\ Rest.n = 0
  BY DEF Rest, Jobs, Ops

LEMMA BuildsGrows ==
  ASSUME TypeOK, specs' = specs, NEW s \in Settings, Builds(s)
  PROVE  Grows /\ made' \in [{"local", "tmp"} -> 0..MaxOps] /\ dropped' = dropped
  <1>1. made \in [{"local", "tmp"} -> 0..MaxOps]
    BY DEF TypeOK
  <1>2. CASE s.home = None
    <2>1. s.kind \in {"local", "tmp"}
      BY <1>2 DEF Settings
    <2>2. made[s.kind] + 1 \in 0..MaxOps /\ made' = [made EXCEPT ![s.kind] = made[s.kind] + 1]
      BY <1>1, <1>2, <2>1 DEF Builds
    <2>3. made' \in [{"local", "tmp"} -> 0..MaxOps]
      BY <1>1, <2>2
    <2>4. \A k \in {"local", "tmp"} : made[k] <= made'[k]
      BY <1>1, <2>1, <2>2
    <2> QED
      BY <2>3, <2>4 DEF Grows, Builds
  <1>3. CASE s.home # None
    BY <1>1, <1>3 DEF Builds, Grows
  <1> QED
    BY <1>2, <1>3

LEMMA MadeStays ==
  ASSUME TypeOK, UNCHANGED <<specs, made>>
  PROVE  Grows /\ made' \in [{"local", "tmp"} -> 0..MaxOps]
  <1>1. made \in [{"local", "tmp"} -> 0..MaxOps]
    BY DEF TypeOK
  <1> QED
    BY <1>1 DEF Grows

(* What the sandbox is made of that c makes.                                *)
LEMMA MakeBuilds ==
  ASSUME TypeOK, JobsOK, NEW c \in Callers, Make(c)
  PROVE  /\ job[c].profile \in Named /\ SpecOf(job[c].profile) \in Settings
         /\ Builds(SpecOf(job[c].profile)) /\ JobOK("make", job[c])
  <1>1. JobOK("make", job[c]) /\ Builds(SpecOf(job[c].profile))
    BY DEF Make, JobsOK
  <1>2. job[c].profile \in Named
    BY <1>1 DEF JobOK, Named
  <1> QED
    BY <1>1, <1>2, SpecTyped

LEMMA RegisterBuilds ==
  ASSUME TypeOK, NEW c \in Callers, NEW p \in Profiles, Register(c, p)
  PROVE  SpecOf(p) = specs[p] /\ specs[p] \in Settings /\ p \in Named /\ Builds(SpecOf(p))
  BY DEF Register, SpecOf, Named, TypeOK

LEMMA StepGrows ==
  ASSUME TypeOK, JobsOK, [Next]_vars
  PROVE  Grows /\ FitsKept /\ made' \in [{"local", "tmp"} -> 0..MaxOps] /\ dropped' \subseteq Numbers
  <1>0. dropped \subseteq Numbers
    BY DEF TypeOK
  <1> SUFFICES Grows /\ made' \in [{"local", "tmp"} -> 0..MaxOps] /\ dropped' \subseteq Numbers
    BY GrowsFit
  <1>1. CASE UNCHANGED vars
    BY <1>0, <1>1, MadeStays DEF vars
  <1>2. CASE \E n \in Numbers : LetGo(n)
    BY <1>0, <1>2, MadeStays DEF LetGo
  <1>3. ASSUME NEW c \in Callers, Step(c)
        PROVE  Grows /\ made' \in [{"local", "tmp"} -> 0..MaxOps] /\ dropped' \subseteq Numbers
    <2>1. CASE Make(c)
      <3>1. specs' = specs
        BY <2>1 DEF Make
      <3> QED
        BY <1>0, <2>1, <3>1, MakeBuilds, BuildsGrows
    <2>2. CASE \E p \in Profiles : Register(c, p)
      <3>1. PICK p \in Profiles : Register(c, p)
        BY <2>2
      <3>2. specs' = specs
        BY <3>1 DEF Register
      <3> QED
        BY <1>0, <3>1, <3>2, RegisterBuilds, BuildsGrows
    <2>3. CASE \E s \in Settings : Inline(c, s)
      BY <1>0, <2>3, BuildsGrows DEF Inline
    <2>4. CASE UNCHANGED <<specs, Directories>>
      BY <1>0, <2>4, MadeStays DEF Directories
    <2>5. CASE Raze(c)
      BY <1>0, <2>5, MadeStays DEF Raze
    <2> QED
      BY <1>3, <2>1, <2>2, <2>3, <2>4, <2>5
         DEF Step, Acquire, Create, MakeFails, Insert, Cache, Name, Get, Load, AskDefault, Lock, Find,
             OpenDefault, Power, UpdateStatus, Destroy, RazeFails, Evict, Unname, Delete, Tables
  <1> QED
    BY <1>1, <1>2, <1>3 DEF Next

(* -- what callers have in hand ------------------------------------------------------ *)

LEMMA JobStep == TypeOK /\ TablesFit /\ JobsOK /\ NumberInv /\ [Next]_vars => JobsOK'
  <1> SUFFICES ASSUME TypeOK, TablesFit, JobsOK, NumberInv, [Next]_vars
               PROVE  JobsOK'
    OBVIOUS
  <1>0. ops \in 0..MaxOps /\ (ops < MaxOps => ops + 1 \in Numbers /\ ops + 1 \in 0..MaxOps)
    BY DEF TypeOK, Numbers
  <1>00. \A id \in Numbers : id \in 0..MaxOps
    BY DEF Numbers
  <1>grows. FitsKept /\ Grows
    BY StepGrows
  <1>1. ASSUME NEW c \in Callers, NEW p \in Profiles, Acquire(c, p) \/ Create(c, p)
        PROVE  JobsOK'
    <2>1. CASE UNCHANGED <<pc, job>>
      BY <1>grows, <2>1, JobsStay
    <2>2. CASE ~UNCHANGED <<pc, job>>
      <3>1. ops < MaxOps
        BY <1>1 DEF Acquire, Create, Begin
      <3>2. ASSUME NEW j, Becomes(c, "make", j), j \in Jobs, j.profile = p, j.place = None,
                   j.op = "acquire" \/ (j.op = "create" /\ j.n \in Numbers)
            PROVE  JobsOK'
        <4>1. JobOK("make", j)
          BY <3>2 DEF JobOK, Razing
        <4> QED
          BY <1>grows, <3>2, <4>1, JobMoves DEF Stages
      <3>3. CASE Becomes(c, "make", [Rest EXCEPT !.op = "acquire", !.profile = p])
        <4> DEFINE j == [Rest EXCEPT !.op = "acquire", !.profile = p]
        <4>1. j \in Jobs /\ j.op = "acquire" /\ j.profile = p /\ j.place = None
          BY RestInJobs DEF Jobs, Ops, Named, Rest
        <4> HIDE DEF j
        <4> QED
          BY <3>2, <3>3, <4>1 DEF j
      <3>4. CASE Becomes(c, "make", [Rest EXCEPT !.op = "create", !.profile = p, !.n = ops + 1])
        <4> DEFINE j == [Rest EXCEPT !.op = "create", !.profile = p, !.n = ops + 1]
        <4>1. j \in Jobs /\ j.op = "create" /\ j.profile = p /\ j.place = None /\ j.n \in Numbers
          BY <1>0, <3>1, RestInJobs DEF Jobs, Ops, Named, Rest
        <4> HIDE DEF j
        <4> QED
          BY <3>2, <3>4, <4>1 DEF j
      <3> QED
        BY <1>1, <2>2, <3>3, <3>4 DEF Acquire, Create
    <2> QED
      BY <2>1, <2>2
  <1>2. ASSUME NEW c \in Callers, NEW p \in Profiles, Register(c, p)
        PROVE  JobsOK'
    <2>1. SpecOf(p) = specs[p] /\ specs[p] \in Settings /\ p \in Named /\ Builds(SpecOf(p))
      BY <1>2, RegisterBuilds
    <2>2. /\ Place(SpecOf(p)) \in Places
          /\ \A q \in Named : \A place : SpecOf(q) = SpecOf(p) /\ place = Place(SpecOf(p)) => Fits(q, place)'
      BY <1>grows, <2>1, PlaceTyped
    <2>3. PICK place \in Places : place = Place(SpecOf(p))
      BY <2>2
    <2>4. PICK n \in Numbers : n = ops + 1
      BY <1>0, <1>2 DEF Register, Begin
    <2> DEFINE j == [Rest EXCEPT !.op = "create", !.profile = p, !.n = n, !.place = place]
    <2>5. Becomes(c, "record", j)
      BY <1>2, <2>1, <2>3, <2>4 DEF Register
    <2>6. j \in Jobs /\ j.op = "create" /\ j.profile = p /\ j.n = n /\ j.place = place /\ place # None
      BY <1>00, RestInJobs, NoneIsNoPlace DEF Jobs, Ops, Named
    <2>7. Fits(p, place)'
      BY <2>1, <2>2, <2>3
    <2> HIDE DEF j
    <2>8. ASSUME NEW k \in Jobs, k = j
          PROVE  JobOK("record", k)'
      <3>1. k.op = "create" /\ k.profile = p /\ k.n = n /\ k.place = place
        BY <2>6, <2>8
      <3>2. Fits(k.profile, k.place)'
        BY <2>7, <3>1
      <3> QED
        BY <2>6, <2>8, <3>1, <3>2 DEF JobOK, Named, Razing
    <2> QED
      BY <1>grows, <2>5, <2>6, <2>8, JobArrives DEF Stages
  <1>3. ASSUME NEW c \in Callers, Make(c)
        PROVE  JobsOK'
    <2>1. /\ job[c].profile \in Named /\ SpecOf(job[c].profile) \in Settings
          /\ Builds(SpecOf(job[c].profile)) /\ JobOK("make", job[c])
      BY <1>3, MakeBuilds
    <2>2. PICK p \in Named, old \in Jobs : old = job[c] /\ p = job[c].profile
      BY <2>1 DEF JobOK
    <2>3. /\ Place(SpecOf(p)) \in Places
          /\ \A q \in Named : \A place : SpecOf(q) = SpecOf(p) /\ place = Place(SpecOf(p)) => Fits(q, place)'
      BY <1>grows, <2>1, <2>2, PlaceTyped
    <2>4. PICK place \in Places : place = Place(SpecOf(p))
      BY <2>3
    <2> DEFINE j == [old EXCEPT !.place = place]
               where == IF old.op = "acquire" THEN "cache" ELSE "record"
    <2>5. Becomes(c, where, j)
      BY <1>3, <2>2, <2>4 DEF Make
    <2>6. /\ j \in Jobs /\ j.op = old.op /\ j.profile = p /\ j.n = old.n
          /\ j.place = place /\ place # None /\ where \in Stages
      BY <2>2, NoneIsNoPlace DEF Jobs, Stages
    <2>7. Fits(p, place)'
      BY <2>3, <2>4
    <2>old. JobOK("make", old)
      BY <2>1, <2>2
    <2> HIDE DEF j
    <2>8. ASSUME NEW k \in Jobs, k = j
          PROVE  JobOK(where, k)'
      <3>1. k.op = old.op /\ k.profile = p /\ k.n = old.n /\ k.place = place
        BY <2>6, <2>8
      <3>2. Fits(k.profile, k.place)'
        BY <2>7, <3>1
      <3>3. \/ old.op = "default" /\ p = Default /\ old.n \in Numbers
            \/ old.op = "create" /\ p \in Profiles /\ old.n \in Numbers
            \/ old.op = "acquire" /\ p \in Profiles
        BY <2>2, <2>old DEF JobOK
      <3> QED
        BY <2>6, <2>8, <3>1, <3>2, <3>3 DEF JobOK, Razing
    <2> HIDE DEF where
    <2> QED
      BY <1>grows, <2>5, <2>6, <2>8, JobArrives
  <1>4. ASSUME NEW c \in Callers,
               \/ MakeFails(c) \/ Name(c) \/ Load(c) \/ UpdateStatus(c) \/ RazeFails(c) \/ Delete(c)
        PROVE  JobsOK'
    <2>1. Ends(c)
      BY <1>4 DEF MakeFails, Name, Load, UpdateStatus, RazeFails, Delete
    <2> QED
      BY <1>grows, <2>1, JobEnds
  <1>5. ASSUME NEW c \in Callers, Insert(c) \/ Cache(c) \/ Raze(c) \/ Evict(c) \/ Unname(c)
        PROVE  JobsOK'
    <2>1. JobOK(pc[c], job[c])
      BY <1>5 DEF Insert, Cache, Raze, Evict, Unname, JobsOK
    <2>2. CASE Ends(c)
      BY <1>grows, <2>2, JobEnds
    <2>3. CASE ~Ends(c)
      <3>1. PICK where \in {"cache", "name", "evict", "unname", "delete"} :
               /\ Moves(c, where)
               /\ where = "cache" => pc[c] = "record"
               /\ where = "name" => pc[c] = "cache" /\ job[c].op # "default"
               /\ where \in {"evict", "unname", "delete"} => pc[c] \in {"raze", "evict", "unname"}
        BY <1>5, <2>3 DEF Insert, Cache, Raze, Evict, Unname
      <3>2. JobOK(where, job[c])
        BY <2>1, <3>1 DEF JobOK, Razing
      <3> QED
        BY <1>grows, <3>1, <3>2, JobGoesOn DEF Moves, Stages
    <2> QED
      BY <2>2, <2>3
  <1>6. ASSUME NEW c \in Callers, NEW s \in Settings, Inline(c, s)
        PROVE  JobsOK'
    BY <1>6, <1>grows, JobsStay DEF Inline
  <1>7. ASSUME NEW c \in Callers, NEW id \in Numbers, NEW op \in {"get", "default"}, NEW p \in Named,
               Recorded(id), records[id].profile = p, Opens(c, op, id, p)
        PROVE  JobsOK'
    <2>1. CASE Ends(c)
      BY <1>grows, <2>1, JobEnds
    <2>2. CASE ~Ends(c)
      <3> DEFINE place == records[id].place
                 j == [Rest EXCEPT !.op = op, !.id = id, !.place = place, !.profile = p]
      <3>1. Becomes(c, "load", j)
        BY <1>7, <2>2 DEF Opens
      <3>2. place \in Places /\ Fits(p, place)
        BY <1>7 DEF TypeOK, Records, TablesFit, Recorded
      <3> HIDE DEF place
      <3>3. j \in Jobs /\ j.op = op /\ j.profile = p /\ j.id = id /\ j.place = place /\ place # None
        BY <1>00, <3>2, RestInJobs, NoneIsNoPlace DEF Jobs, Ops
      <3>4. JobOK("load", j)
        BY <3>2, <3>3 DEF JobOK, Razing
      <3> HIDE DEF j
      <3> QED
        BY <1>grows, <3>1, <3>4, JobMoves DEF Stages
    <2> QED
      BY <2>1, <2>2
  <1>8. ASSUME NEW c \in Callers, NEW id \in Numbers, Get(c, id)
        PROVE  JobsOK'
    <2>1. Recorded(id) /\ Opens(c, "get", id, records[id].profile)
      BY <1>8 DEF Get
    <2>2. records[id].profile \in Named
      BY <2>1 DEF TypeOK, Records, Recorded, Named
    <2> QED
      BY <1>7, <2>1, <2>2
  <1>9. ASSUME NEW c \in Callers, AskDefault(c)
        PROVE  JobsOK'
    <2> DEFINE j == [Rest EXCEPT !.op = "default", !.profile = Default, !.n = ops + 1]
    <2>1. ops < MaxOps /\ Becomes(c, "lock", j)
      BY <1>9 DEF AskDefault, Begin
    <2>2. j \in Jobs /\ j.op = "default" /\ j.profile = Default /\ j.n = ops + 1 /\ j.place = None
      BY <1>0, <2>1, RestInJobs DEF Jobs, Ops, Named, Rest
    <2>3. JobOK("lock", j)
      BY <1>0, <2>1, <2>2 DEF JobOK, Razing
    <2> HIDE DEF j
    <2> QED
      BY <1>grows, <2>1, <2>3, JobMoves DEF Stages
  <1>10. ASSUME NEW c \in Callers, Lock(c)
         PROVE  JobsOK'
    <2>1. /\ pc[c] = "lock" /\ JobOK(pc[c], job[c])
          /\ pc' = [pc EXCEPT ![c] = "find"] /\ job' = job
      BY <1>10 DEF Lock, JobsOK
    <2>2. JobOK("find", job[c])
      BY <2>1 DEF JobOK, Razing
    <2> QED
      BY <1>grows, <2>1, <2>2, JobGoesOn DEF Stages
  <1>11. ASSUME NEW c \in Callers, Find(c)
         PROVE  JobsOK'
    <2>1. pc[c] = "find" /\ JobOK("find", job[c])
      BY <1>11 DEF Find, JobsOK
    <2>2. CASE Becomes(c, "make", job[c])
      <3>1. JobOK("make", job[c])
        BY <2>1 DEF JobOK, Razing
      <3> QED
        BY <1>grows, <2>2, <3>1, JobMoves DEF Stages
    <2>3. CASE ~Becomes(c, "make", job[c])
      <3>1. PICK id \in Numbers : Becomes(c, "open", [job[c] EXCEPT !.id = id])
        BY <1>11, <2>3 DEF Find
      <3> DEFINE j == [job[c] EXCEPT !.id = id]
      <3>2. job[c] \in Jobs
        BY <2>1 DEF JobOK
      <3>3. j \in Jobs /\ j.op = job[c].op /\ j.profile = job[c].profile /\ j.n = job[c].n /\ j.id = id
            /\ j.place = job[c].place
        BY <1>00, <3>2 DEF Jobs
      <3>4. JobOK("open", j)
        BY <2>1, <3>3 DEF JobOK, Razing
      <3> HIDE DEF j
      <3> QED
        BY <1>grows, <3>1, <3>4, JobMoves DEF Stages, j
    <2> QED
      BY <2>2, <2>3
  <1>12. ASSUME NEW c \in Callers, OpenDefault(c)
         PROVE  JobsOK'
    <2>1. pc[c] = "open" /\ JobOK("open", job[c])
      BY <1>12 DEF OpenDefault, JobsOK
    <2>2. CASE Recorded(job[c].id)
      <3>1. job[c].id \in Numbers /\ records[job[c].id].profile = Default
        BY <2>1, <2>2 DEF JobOK, NumberInv, Recorded
      <3>2. Opens(c, "default", job[c].id, Default)
        BY <1>12, <2>2 DEF OpenDefault
      <3> QED
        BY <1>7, <2>2, <3>1, <3>2 DEF Named
    <2>3. CASE ~Recorded(job[c].id)
      BY <1>12, <1>grows, <2>3, JobEnds DEF OpenDefault
    <2> QED
      BY <2>2, <2>3
  <1>13. ASSUME NEW c \in Callers, NEW id \in Numbers, NEW op \in {"start", "stop"}, Power(c, id, op)
         PROVE  JobsOK'
    <2> DEFINE j == [Rest EXCEPT !.op = op, !.id = id]
    <2>1. Becomes(c, "power", j)
      BY <1>13 DEF Power
    <2>2. j \in Jobs /\ j.op = op /\ j.id = id /\ j.place = None
      BY <1>00, RestInJobs DEF Jobs, Ops, Rest
    <2>3. JobOK("power", j)
      BY <2>2 DEF JobOK, Razing
    <2> HIDE DEF j
    <2> QED
      BY <1>grows, <2>1, <2>3, JobMoves DEF Stages
  <1>14. ASSUME NEW c \in Callers, NEW id \in Numbers, Destroy(c, id)
         PROVE  JobsOK'
    <2> DEFINE place == records[id].place
               p == records[id].profile
               j == [Rest EXCEPT !.op = "destroy", !.id = id, !.profile = p, !.place = place]
    <2>1. Becomes(c, "raze", j) /\ Recorded(id)
      BY <1>14 DEF Destroy
    <2>2. place \in Places /\ p \in Named /\ Fits(p, place)
      BY <2>1 DEF TypeOK, Records, Recorded, Named, TablesFit
    <2> HIDE DEF place, p
    <2>3. j \in Jobs /\ j.op = "destroy" /\ j.id = id /\ j.place = place /\ j.profile = p /\ place # None
      BY <1>00, <2>2, RestInJobs, NoneIsNoPlace DEF Jobs, Ops
    <2>4. JobOK("raze", j)
      BY <2>2, <2>3 DEF JobOK, Razing
    <2> HIDE DEF j
    <2> QED
      BY <1>grows, <2>1, <2>4, JobMoves DEF Stages
  <1>15. CASE UNCHANGED vars
    BY <1>15, <1>grows, JobsStay DEF vars
  <1>16. CASE \E n \in Numbers : LetGo(n)
    BY <1>16, <1>grows, JobsStay DEF LetGo
  <1>17. QED
    BY <1>1, <1>2, <1>3, <1>4, <1>5, <1>6, <1>8, <1>9, <1>10, <1>11, <1>12, <1>13, <1>14, <1>15, <1>16
       DEF Next, Step

(* -- tables ---------------------------------------------------------------------- *)

LEMMA LockTyped ==
  ASSUME TypeOK, NEW c \in Callers, Step(c)
  PROVE  lock' \in Callers \union {None} /\ ops' \in 0..MaxOps
  <1>1. lock' \in {lock, c, None}
    BY DEF Step, Acquire, Create, Register, Make, MakeFails, Insert, Cache, Name, Inline, Get, Opens, Load,
           AskDefault, Lock, Find, OpenDefault, Power, UpdateStatus, Destroy, Raze, RazeFails, Evict, Unname,
           Delete, Ends, Moves
  <1>2. ops' = ops \/ (ops < MaxOps /\ ops' = ops + 1)
    BY DEF Step, Acquire, Create, Register, Make, MakeFails, Insert, Cache, Name, Inline, Get, Load,
           AskDefault, Lock, Find, OpenDefault, Power, UpdateStatus, Destroy, Raze, RazeFails, Evict, Unname,
           Delete, Begin
  <1>3. QED
    BY <1>1, <1>2 DEF TypeOK

LEMMA HandlesKept ==
  ASSUME TypeOK, Grows, FitsKept, NEW h, NEW place \in Places, HandleFits(h, place)
  PROVE  HandleFits(h, place)'
  <1>1. \A q : SpecOf(q)' = SpecOf(q)
    BY DEF SpecOf, Grows
  <1>2. \A q : Handle(q, place)' = Handle(q, place) /\ Reopened(q, place)' = Reopened(q, place)
    BY <1>1 DEF Handle, Reopened
  <1> QED
    BY <1>2 DEF HandleFits, FitsKept

LEMMA TablesKept ==
  ASSUME TypeOK, TablesFit, Grows, FitsKept,
         \A id \in Numbers : records'[id] # None =>
            /\ records[id] # None
            /\ records'[id].profile = records[id].profile /\ records'[id].place = records[id].place,
         \A place \in Places : instances'[place] # None => instances'[place] = instances[place],
         \A p \in Profiles : names'[p] # None => names'[p] = names[p]
  PROVE  TablesFit'
  <1>1. \A id \in Numbers : records[id] # None => records[id].profile \in Named /\ records[id].place \in Places
    BY DEF TypeOK, Records, Named
  <1>2. ASSUME NEW id \in Numbers, records'[id] # None
        PROVE  \A p, place : p = records'[id].profile /\ place = records'[id].place => Fits(p, place)'
    BY <1>1, <1>2 DEF TablesFit, Recorded, FitsKept
  <1>3. ASSUME NEW place \in Places, instances'[place] # None
        PROVE  \A h : h = instances'[place] => HandleFits(h, place)'
    BY <1>3, HandlesKept DEF TablesFit
  <1>4. ASSUME NEW p \in Profiles, names'[p] # None
        PROVE  \A place : place = names'[p] => Fits(p, place)'
    BY <1>4 DEF TypeOK, TablesFit, FitsKept, Named
  <1> QED
    BY <1>2, <1>3, <1>4 DEF TablesFit, Recorded

(* The cache after a handle of the profile was put into it.                 *)
LEMMA CacheFits ==
  ASSUME TypeOK, TablesFit, Grows, FitsKept, NEW p \in Named, NEW place \in Places, Fits(p, place),
         NEW h, h = Handle(p, place) \/ (place.type # "host" /\ h = Reopened(p, place)),
         instances' = [instances EXCEPT ![place] = h], UNCHANGED <<records, names>>
  PROVE  instances' \in [Places -> Handles \union {None}] /\ TablesFit'
  <1>1. h \in Handles /\ HandleFits(h, place)
    BY HandleTyped, ReopenedTyped DEF HandleFits
  <1>2. instances \in [Places -> Handles \union {None}]
    BY DEF TypeOK
  <1>3. instances' \in [Places -> Handles \union {None}]
    BY <1>1, <1>2
  <1>4. ASSUME NEW b \in Places, instances'[b] # None
        PROVE  \A k : k = instances'[b] => HandleFits(k, b)'
    <2>1. CASE b = place
      <3>1. instances'[b] = h
        BY <1>2, <2>1
      <3> QED
        BY <1>1, <2>1, <3>1, HandlesKept
    <2>2. CASE b # place
      <3>1. instances'[b] = instances[b] /\ HandleFits(instances[b], b)
        BY <1>2, <1>4, <2>2 DEF TablesFit
      <3> QED
        BY <3>1, HandlesKept
    <2> QED
      BY <2>1, <2>2
  <1>5. \A id \in Numbers : records[id] # None => records[id].profile \in Named /\ records[id].place \in Places
    BY DEF TypeOK, Records, Named
  <1>6. \A id \in Numbers : records'[id] # None =>
           \A q, b : q = records'[id].profile /\ b = records'[id].place => Fits(q, b)'
    BY <1>5 DEF TablesFit, Recorded, FitsKept
  <1>7. \A q \in Profiles : names'[q] # None => \A b : b = names'[q] => Fits(q, b)'
    BY DEF TypeOK, TablesFit, FitsKept, Named
  <1> QED
    BY <1>3, <1>4, <1>6, <1>7 DEF TablesFit, Recorded

LEMMA TableStep == TypeOK /\ TablesFit /\ JobsOK /\ [Next]_vars => TypeOK' /\ TablesFit'
  <1> SUFFICES ASSUME TypeOK, TablesFit, JobsOK, [Next]_vars
               PROVE  TypeOK' /\ TablesFit'
    OBVIOUS
  <1>grows. /\ FitsKept /\ Grows
            /\ made' \in [{"local", "tmp"} -> 0..MaxOps] /\ dropped' \subseteq Numbers
    BY StepGrows
  <1>typed. /\ specs \in [Profiles -> Settings] /\ records \in [Numbers -> Records \union {None}]
            /\ instances \in [Places -> Handles \union {None}]
            /\ names \in [Profiles -> Places \union {None}] /\ dirs \subseteq Places
            /\ specs' = specs
    BY <1>grows DEF TypeOK, Grows
  <1>same. ASSUME UNCHANGED <<records, instances, names>>
           PROVE  TablesFit'
    BY <1>grows, <1>same, TablesKept
  <1>1. CASE UNCHANGED vars
    BY <1>1, <1>same DEF vars, TypeOK
  <1>2. CASE \E n \in Numbers : LetGo(n)
    <2>1. UNCHANGED <<records, instances, names, lock, ops>> /\ dirs' \subseteq Places
      BY <1>typed, <1>2 DEF LetGo
    <2>2. TablesFit'
      BY <1>same, <2>1
    <2>3. TypeOK'
      BY <1>grows, <1>typed, <2>1 DEF TypeOK
    <2> QED
      BY <2>2, <2>3
  <1>3. ASSUME NEW c \in Callers, Step(c)
        PROVE  TypeOK' /\ TablesFit'
    <2>1. lock' \in Callers \union {None} /\ ops' \in 0..MaxOps
      BY <1>3, LockTyped
    <2>job. JobOK(pc[c], job[c]) /\ job[c] \in Jobs
      BY DEF JobsOK
    <2>type. ASSUME records' \in [Numbers -> Records \union {None}], instances' \in [Places -> Handles \union {None}],
                    names' \in [Profiles -> Places \union {None}], dirs' \subseteq Places
             PROVE  TypeOK'
      BY <1>grows, <1>typed, <2>1, <2>type DEF TypeOK
    <2>3. CASE UNCHANGED <<records, instances, names>> /\ dirs' \subseteq Places
      <3>1. TypeOK'
        BY <1>typed, <2>3, <2>type
      <3>2. TablesFit'
        BY <1>same, <2>3
      <3> QED
        BY <3>1, <3>2
    <2>4. CASE UNCHANGED Tables
      BY <1>typed, <2>3, <2>4 DEF Tables, Directories
    <2>5. CASE Make(c)
      <3>1. dirs' \subseteq Places
        BY <1>grows, <2>5, MakeBuilds, PlaceTyped
      <3>2. UNCHANGED <<records, instances, names>>
        BY <2>5 DEF Make
      <3> QED
        BY <2>3, <3>1, <3>2
    <2>6. CASE \E p \in Profiles : Register(c, p)
      <3>1. PICK p \in Profiles : Register(c, p)
        BY <2>6
      <3>2. dirs' \subseteq Places
        BY <1>grows, <3>1, RegisterBuilds, PlaceTyped
      <3>3. UNCHANGED <<records, instances, names>>
        BY <3>1 DEF Register
      <3> QED
        BY <2>3, <3>2, <3>3
    <2>7. CASE \E s \in Settings : Inline(c, s)
      <3>1. PICK s \in Settings : Inline(c, s)
        BY <2>7
      <3>2. dirs' \subseteq Places
        BY <1>grows, <3>1, PlaceTyped DEF Inline
      <3>3. UNCHANGED <<records, instances, names>>
        BY <3>1 DEF Inline
      <3> QED
        BY <2>3, <3>2, <3>3
    <2>8. CASE Raze(c)
      BY <1>typed, <2>3, <2>8 DEF Raze
    <2>9. CASE Insert(c)
      <3> DEFINE r == [profile |-> job[c].profile, place |-> job[c].place, status |-> "running"]
      <3>1. JobOK("record", job[c])
        BY <2>9, <2>job DEF Insert
      <3>2. job[c].profile \in Profiles \union {Default} /\ job[c].place \in Places
        BY <2>job, <3>1 DEF JobOK, Jobs
      <3>3. r \in Records /\ r.profile = job[c].profile /\ r.place = job[c].place
        BY <3>2 DEF Records
      <3>4. Fits(r.profile, r.place) /\ r.profile \in Named /\ r.place \in Places
        BY <3>1, <3>2, <3>3, NoneIsNoPlace DEF JobOK, Named
      <3>5. records' = [records EXCEPT ![job[c].n] = r] /\ UNCHANGED <<instances, names, Directories>>
        BY <2>9 DEF Insert
      <3> HIDE DEF r
      <3>6. TypeOK'
        BY <1>typed, <2>type, <3>3, <3>5 DEF Directories
      <3>7. \A id \in Numbers : records[id] # None => 
            /\ records[id].profile \in Named /\ records[id].place \in Places
            /\ Fits(records[id].profile, records[id].place)
        BY <1>typed DEF TablesFit, Recorded, Records, Named
      <3>8. \A id \in Numbers : records'[id] # None => 
            /\ records'[id].profile \in Named /\ records'[id].place \in Places
            /\ Fits(records'[id].profile, records'[id].place)
        <4> SUFFICES ASSUME NEW id \in Numbers, records'[id] # None
                     PROVE  \A k : k = records'[id] => k.profile \in Named /\ k.place \in Places /\ Fits(k.profile, k.place)
          OBVIOUS
        <4>1. records'[id] \in {r, records[id]}
          BY <1>typed, <3>5
        <4> QED
          BY <3>4, <3>7, <4>1
      <3>9. \A id \in Numbers : records'[id] # None =>
               \A q, b : q = records'[id].profile /\ b = records'[id].place => Fits(q, b)'
        BY <1>grows, <3>8 DEF FitsKept
      <3>10. ASSUME NEW b \in Places, instances'[b] # None
             PROVE  \A k : k = instances'[b] => HandleFits(k, b)'
        BY <1>grows, <3>5, <3>10, HandlesKept DEF TablesFit
      <3>11. \A q \in Profiles : names'[q] # None => \A b : b = names'[q] => Fits(q, b)'
        BY <1>grows, <1>typed, <3>5 DEF TablesFit, FitsKept, Named
      <3>12. TablesFit'
        BY <3>9, <3>10, <3>11 DEF TablesFit, Recorded
      <3> QED
        BY <3>6, <3>12
    <2>10. CASE Cache(c) \/ (Load(c) /\ job[c].place.type # "host")
      <3>1. /\ UNCHANGED <<records, names, Directories>> /\ pc[c] \in {"cache", "load"}
            /\ instances' = [instances EXCEPT ![job[c].place] =
                                 IF pc[c] = "cache" THEN Handle(job[c].profile, job[c].place)
                                 ELSE Reopened(job[c].profile, job[c].place)]
            /\ pc[c] = "load" => job[c].place.type # "host"
        BY <2>10 DEF Cache, Load
      <3>2. job[c].place \in Places /\ job[c].profile \in Named /\ Fits(job[c].profile, job[c].place)
        BY <2>job, <3>1 DEF JobOK, Jobs
      <3>3. PICK h :
               /\ h = Handle(job[c].profile, job[c].place)
                  \/ (job[c].place.type # "host" /\ h = Reopened(job[c].profile, job[c].place))
               /\ instances' = [instances EXCEPT ![job[c].place] = h]
        BY <3>1
      <3>4. instances' \in [Places -> Handles \union {None}] /\ TablesFit'
        <4>1. PICK p \in Named, place \in Places : p = job[c].profile /\ place = job[c].place
          BY <3>2
        <4> QED
          BY <1>grows, <3>1, <3>2, <3>3, <4>1, CacheFits
      <3>5. TypeOK'
        BY <1>typed, <2>type, <3>1, <3>4 DEF Directories
      <3> QED
        BY <3>4, <3>5
    <2>11. CASE Load(c) /\ job[c].place.type = "host"
      BY <1>typed, <2>3, <2>11 DEF Load, Directories
    <2>12. CASE Name(c)
      <3>1. JobOK("name", job[c])
        BY <2>12, <2>job DEF Name
      <3>2. job[c].profile \in Profiles /\ job[c].place \in Places /\ Fits(job[c].profile, job[c].place)
        BY <2>job, <3>1 DEF JobOK, Jobs
      <3>3. names' = [names EXCEPT ![job[c].profile] = job[c].place] /\ UNCHANGED <<records, instances, Directories>>
        BY <2>12 DEF Name
      <3>4. TypeOK'
        BY <1>typed, <2>type, <3>2, <3>3 DEF Directories
      <3>5. \A q \in Profiles : names'[q] # None => Fits(q, names'[q])
        BY <1>typed, <3>2, <3>3 DEF TablesFit
      <3>6. \A q \in Profiles : names'[q] # None => \A b : b = names'[q] => Fits(q, b)'
        BY <1>grows, <3>4, <3>5 DEF FitsKept, Named, TypeOK
      <3>7. \A id \in Numbers : records[id] # None => records[id].profile \in Named /\ records[id].place \in Places
        BY <1>typed DEF Records, Named
      <3>8. \A id \in Numbers : records'[id] # None =>
               \A q, b : q = records'[id].profile /\ b = records'[id].place => Fits(q, b)'
        BY <1>grows, <3>3, <3>7 DEF TablesFit, Recorded, FitsKept
      <3>9. ASSUME NEW b \in Places, instances'[b] # None
            PROVE  \A k : k = instances'[b] => HandleFits(k, b)'
        BY <1>grows, <3>3, <3>9, HandlesKept DEF TablesFit
      <3>10. TablesFit'
        BY <3>6, <3>8, <3>9 DEF TablesFit, Recorded
      <3> QED
        BY <3>4, <3>10
    <2>13. CASE UpdateStatus(c)
      <3>1. JobOK("power", job[c])
        BY <2>13, <2>job DEF UpdateStatus
      <3>2. job[c].id \in Numbers
        BY <3>1 DEF JobOK
      <3>3. CASE Recorded(job[c].id)
        <4> DEFINE id == job[c].id
                   r == [records[id] EXCEPT !.status = IF job[c].op = "start" THEN "running" ELSE "stopped"]
        <4>1. records' = [records EXCEPT ![id] = r] /\ UNCHANGED <<instances, names, Directories>>
          BY <2>13, <3>3 DEF UpdateStatus
        <4>2. records[id] \in Records
          BY <1>typed, <3>2, <3>3 DEF Recorded
        <4>3. r \in Records /\ r.profile = records[id].profile /\ r.place = records[id].place
          BY <4>2 DEF Records
        <4> HIDE DEF r
        <4>4. TypeOK'
          BY <1>typed, <2>type, <4>1, <4>3 DEF Directories
        <4>5. \A n \in Numbers : records'[n] # None =>
                 /\ records[n] # None
                 /\ records'[n].profile = records[n].profile /\ records'[n].place = records[n].place
          BY <1>typed, <3>2, <3>3, <4>1, <4>3 DEF Recorded
        <4>6. TablesFit'
          BY <1>grows, <4>1, <4>5, TablesKept
        <4> QED
          BY <4>4, <4>6
      <3>4. CASE ~Recorded(job[c].id)
        BY <1>typed, <2>3, <2>13, <3>4 DEF UpdateStatus, Directories
      <3> QED
        BY <3>3, <3>4
    <2>14. CASE Evict(c)
      <3>1. instances' = [instances EXCEPT ![job[c].place] = None] /\ UNCHANGED <<records, names, Directories>>
        BY <2>14 DEF Evict
      <3>2. TypeOK'
        BY <1>typed, <2>type, <3>1 DEF Directories
      <3>3. \A b \in Places : instances'[b] # None => instances'[b] = instances[b]
        BY <1>typed, <3>1
      <3>4. TablesFit'
        BY <1>grows, <3>1, <3>3, TablesKept
      <3> QED
        BY <3>2, <3>4
    <2>15. CASE Unname(c)
      <3>1. /\ names' = [p \in Profiles |-> IF names[p] = job[c].place THEN None ELSE names[p]]
            /\ UNCHANGED <<records, instances, Directories>>
        BY <2>15 DEF Unname
      <3>2. TypeOK'
        BY <1>typed, <2>type, <3>1 DEF Directories
      <3>3. TablesFit'
        BY <1>grows, <3>1, TablesKept
      <3> QED
        BY <3>2, <3>3
    <2>16. CASE Delete(c)
      <3>1. records' = [records EXCEPT ![job[c].id] = None] /\ UNCHANGED <<instances, names, Directories>>
        BY <2>16 DEF Delete
      <3>2. TypeOK'
        BY <1>typed, <2>type, <3>1 DEF Directories
      <3>3. \A id \in Numbers : records'[id] # None => records'[id] = records[id]
        BY <1>typed, <3>1
      <3>4. TablesFit'
        BY <1>grows, <3>1, <3>3, TablesKept
      <3> QED
        BY <3>2, <3>4
    <2>17. QED
      BY <1>3, <2>4, <2>5, <2>6, <2>7, <2>8, <2>9, <2>10, <2>11, <2>12, <2>13, <2>14, <2>15, <2>16
         DEF Step, Acquire, Create, MakeFails, Get, AskDefault, Lock, Find, OpenDefault, Power,
             Destroy, RazeFails
  <1>4. QED
    BY <1>1, <1>2, <1>3 DEF Next

(* -- ids ----------------------------------------------------------------------------- *)

LEMMA NumberMoves ==
  ASSUME TypeOK, JobsOK, NumberInv, NEW c \in Callers, NEW where \in Stages, NEW j \in Jobs,
         Becomes(c, where, j),
         ops' = ops \/ (ops < MaxOps /\ ops' = ops + 1),
         \A id \in Numbers : records'[id] = None
                             \/ (records[id] # None /\ records'[id].profile = records[id].profile),
         \/ j.n = 0
         \/ j.n = ops + 1 /\ ops' = ops + 1
         \/ j.n = job[c].n /\ (where \in Making => pc[c] \in Making),
         where = "open" => j.id \in Numbers /\ records[j.id] # None /\ records[j.id].profile = Default
                           /\ pc[c] \in Making /\ j.n = job[c].n
  PROVE  NumberInv'
  <1> USE DEF Numbers
  <1>1. /\ pc'[c] = where /\ job'[c] = j
        /\ \A d \in Callers \ {c} : pc'[d] = pc[d] /\ job'[d] = job[d]
    BY DEF Becomes, JobsOK
  <1>2. ops \in Nat /\ ops' \in Nat /\ ops <= ops' /\ j.n \in Nat /\ \A d \in Callers : job[d].n \in Nat
    BY DEF TypeOK, JobsOK, Jobs
  <1>3. \A id \in Numbers : id > ops' => records'[id] = None
    BY <1>2 DEF NumberInv
  <1>4. \A d \in Callers : job'[d].n <= ops'
    BY <1>1, <1>2 DEF NumberInv
  <1>5. \A d, e \in Callers : job'[d].n # 0 /\ job'[d].n = job'[e].n => d = e
    <2>1. \A d \in Callers \ {c} : j.n # 0 => job[d].n # j.n
      BY <1>2 DEF NumberInv
    <2> QED
      BY <1>1, <2>1 DEF NumberInv
  <1>6. ASSUME NEW d \in Callers, pc'[d] \in Making, job'[d].n # 0
        PROVE  job'[d].n \in Numbers /\ records[job'[d].n] = None /\ records'[job'[d].n] = None
    <2>1. CASE d = c
      <3>1. j.n \in Numbers /\ j.n # 0
        BY <1>1, <1>6, <2>1 DEF Jobs
      <3>2. records[j.n] = None
        BY <1>1, <1>2, <1>6, <2>1, <3>1 DEF NumberInv
      <3> QED
        BY <1>1, <1>6, <2>1, <3>1, <3>2
    <2>2. CASE d # c
      <3>1. pc[d] \in Making /\ job'[d] = job[d] /\ records[job[d].n] = None
        BY <1>1, <1>6, <2>2 DEF NumberInv
      <3>2. job[d].n \in Numbers
        BY <1>6, <3>1 DEF JobsOK, Jobs
      <3> QED
        BY <3>1, <3>2
    <2> QED
      BY <2>1, <2>2
  <1>7. ASSUME NEW d \in Callers, pc'[d] = "open"
        PROVE  /\ job'[d].id <= ops'
               /\ records'[job'[d].id] = None \/ records'[job'[d].id].profile = Default
               /\ \A e \in Callers : pc'[e] \in Making => job'[e].n # job'[d].id
    <2>1. CASE d = c
      <3>1. j.id \in Numbers /\ records[j.id] # None /\ records[j.id].profile = Default /\ job'[d] = j
        BY <1>1, <1>7, <2>1
      <3>2. j.id <= ops
        BY <1>2, <3>1 DEF NumberInv
      <3> QED
        BY <1>2, <1>6, <3>1, <3>2
    <2>2. CASE d # c
      <3>1. pc[d] = "open" /\ job'[d] = job[d]
        BY <1>1, <1>7, <2>2
      <3>2. /\ job[d].id <= ops /\ job[d].id \in Numbers
            /\ records[job[d].id] = None \/ records[job[d].id].profile = Default
            /\ \A e \in Callers : pc[e] \in Making => job[e].n # job[d].id
        BY <3>1 DEF NumberInv, JobsOK, JobOK
      <3>3. records'[job[d].id] = None \/ records'[job[d].id].profile = Default
        BY <3>2
      <3>4. ASSUME NEW e \in Callers, pc'[e] \in Making
            PROVE  job'[e].n # job[d].id
        <4>1. CASE e # c
          BY <1>1, <3>2, <3>4, <4>1
        <4>2. CASE e = c /\ j.n = ops + 1
          BY <1>1, <1>2, <3>2, <4>2
        <4>3. CASE e = c /\ j.n # ops + 1
          BY <1>1, <3>2, <3>4, <4>3
        <4> QED
          BY <4>1, <4>2, <4>3
      <3> QED
        BY <1>2, <3>1, <3>2, <3>3, <3>4
    <2> QED
      BY <2>1, <2>2
  <1>8. QED
    BY <1>3, <1>4, <1>5, <1>6, <1>7 DEF NumberInv

(* A step moves one caller.                                                 *)
LEMMA OneMoves ==
  ASSUME JobsOK, NEW c \in Callers, Step(c)
  PROVE  Becomes(c, pc'[c], job'[c])
  <1>1. \/ UNCHANGED <<pc, job>>
        \/ \E where, j : Becomes(c, where, j)
        \/ job' = job /\ \E where : pc' = [pc EXCEPT ![c] = where]
    BY DEF Step, Acquire, Create, Register, Make, MakeFails, Insert, Cache, Name, Inline, Get, Opens, Load,
           AskDefault, Lock, Find, OpenDefault, Power, UpdateStatus, Destroy, Raze, RazeFails, Evict, Unname,
           Delete, Ends, Moves
  <1>2. pc \in [Callers -> Stages] /\ job \in [Callers -> Jobs]
    BY DEF JobsOK
  <1>3. CASE UNCHANGED <<pc, job>>
    BY <1>2, <1>3 DEF Becomes
  <1>4. CASE \E where, j : Becomes(c, where, j)
    BY <1>2, <1>4 DEF Becomes
  <1>5. CASE job' = job /\ \E where : pc' = [pc EXCEPT ![c] = where]
    BY <1>2, <1>5 DEF Becomes
  <1>6. QED
    BY <1>1, <1>3, <1>4, <1>5

LEMMA InsertNumber ==
  ASSUME TypeOK, JobsOK, NumberInv, NEW c \in Callers, Insert(c)
  PROVE  NumberInv'
  <1> DEFINE n == job[c].n
  <1>1. /\ pc[c] = "record" /\ pc' = [pc EXCEPT ![c] = "cache"] /\ job' = job /\ ops' = ops
        /\ \A id \in Numbers : id # n => records'[id] = records[id]
    BY DEF Insert, Moves, TypeOK
  <1>2. n \in Numbers /\ n <= ops /\ ops \in Nat /\ \A d \in Callers : job[d].n \in Nat
    BY <1>1 DEF JobsOK, JobOK, Jobs, NumberInv, TypeOK
  <1>3. n # 0 /\ \A id \in Numbers : id > ops => id # n
    BY <1>2 DEF Numbers
  <1>4. \A d \in Callers : pc'[d] \in Making => pc[d] \in Making /\ d # c
    BY <1>1 DEF Making, JobsOK
  <1>5. ASSUME NEW d \in Callers, pc'[d] \in Making, job'[d].n # 0
        PROVE  records'[job'[d].n] = None
    <2>1. pc[d] \in Making /\ d # c /\ job[d].n # n
      BY <1>3, <1>4, <1>5 DEF NumberInv
    <2>n. job[d].n # 0
      BY <1>1, <1>5
    <2>2. job[d].n \in Numbers /\ records[job[d].n] = None
      <3>1. job[d].n \in 0..MaxOps
        BY DEF JobsOK, Jobs
      <3> QED
        BY <2>n, <2>1, <3>1 DEF NumberInv, Numbers
    <2> QED
      BY <1>1, <2>1, <2>2
  <1>6. ASSUME NEW d \in Callers, pc'[d] = "open"
        PROVE  /\ job'[d].id <= ops'
               /\ records'[job'[d].id] = None \/ records'[job'[d].id].profile = Default
               /\ \A e \in Callers : pc'[e] \in Making => job'[e].n # job'[d].id
    <2>1. pc[d] = "open"
      BY <1>1, <1>6 DEF JobsOK
    <2>2. job[d].id \in Numbers /\ job[d].id # n
      BY <1>1, <2>1 DEF JobsOK, JobOK, NumberInv, Making
    <2> QED
      BY <1>1, <1>4, <2>1, <2>2 DEF NumberInv
  <1>7. \A id \in Numbers : id > ops' => records'[id] = None
    BY <1>1, <1>3 DEF NumberInv
  <1>8. QED
    BY <1>1, <1>5, <1>6, <1>7 DEF NumberInv

LEMMA NumberStep == TypeOK /\ JobsOK /\ JobsOK' /\ NumberInv /\ [Next]_vars => NumberInv'
  <1> SUFFICES ASSUME TypeOK, JobsOK, JobsOK', NumberInv, [Next]_vars
               PROVE  NumberInv'
    OBVIOUS
  <1>1. CASE UNCHANGED vars \/ \E n \in Numbers : LetGo(n)
    BY <1>1 DEF vars, LetGo, NumberInv
  <1>2. ASSUME NEW c \in Callers, Step(c), ~Insert(c)
        PROVE  NumberInv'
    <2>1. Becomes(c, pc'[c], job'[c])
      BY <1>2, OneMoves
    <2>2. pc'[c] \in Stages /\ job'[c] \in Jobs /\ JobOK(pc[c], job[c])'
      BY DEF JobsOK
    <2>3. ops' = ops \/ (ops < MaxOps /\ ops' = ops + 1)
      BY <1>2 DEF Step, Acquire, Create, Register, Make, MakeFails, Cache, Name, Inline, Get, Load,
           AskDefault, Lock, Find, OpenDefault, Power, UpdateStatus, Destroy, Raze, RazeFails, Evict, Unname,
           Delete, Begin
    <2>4. \A id \in Numbers : records'[id] = None
                             \/ (records[id] # None /\ records'[id].profile = records[id].profile)
      <3>1. CASE records' = records
        BY <3>1
      <3>2. CASE UpdateStatus(c)
        <4>1. \A id \in Numbers : records[id] \in Records \union {None}
          BY DEF TypeOK
        <4> QED
          BY <3>1, <3>2, <4>1 DEF UpdateStatus, TypeOK, Records, Recorded
      <3>3. CASE Delete(c)
        BY <3>3 DEF Delete, TypeOK
      <3> QED
        BY <1>2, <3>1, <3>2, <3>3 DEF Step, Acquire, Create, Register, Make, MakeFails, Cache, Name, Inline,
           Get, Load, AskDefault, Lock, Find, OpenDefault, Power, Destroy, Raze, RazeFails, Evict, Unname, Tables
    <2>typed. pc \in [Callers -> Stages] /\ job \in [Callers -> Jobs]
      BY DEF JobsOK
    <2>6. /\ \/ job'[c].n = 0
             \/ job'[c].n = ops + 1 /\ ops' = ops + 1
             \/ job'[c].n = job[c].n /\ (pc'[c] \in Making => pc[c] \in Making)
          /\ pc'[c] = "open" =>
                /\ job'[c].id \in Numbers /\ records[job'[c].id] # None
                /\ records[job'[c].id].profile = Default /\ pc[c] \in Making /\ job'[c].n = job[c].n
      <3> USE DEF Making
      <3>1. CASE Becomes(c, "idle", Rest)
        BY <2>typed, <3>1, RestInJobs DEF Becomes
      <3>2. CASE UNCHANGED <<pc, job>> /\ pc[c] = "idle"
        BY <3>2
      <3>3. ASSUME NEW where \in {"make", "record", "lock"}, NEW j, Becomes(c, where, j), j.n = ops + 1,
                   ops' = ops + 1
            PROVE  job'[c].n = ops + 1 /\ pc'[c] # "open"
        BY <2>typed, <3>3 DEF Becomes
      <3>4. ASSUME NEW where \in {"make", "load", "power", "raze"}, NEW j, Becomes(c, where, j), j.n = 0
            PROVE  job'[c].n = 0 /\ pc'[c] = where
        BY <2>typed, <3>4 DEF Becomes
      <3>5. CASE \E p \in Profiles : Acquire(c, p) \/ Create(c, p)
        <4>1. PICK p \in Profiles : Acquire(c, p) \/ Create(c, p)
          BY <3>5
        <4>2. /\ [Rest EXCEPT !.op = "create", !.profile = p, !.n = ops + 1].n = ops + 1
              /\ [Rest EXCEPT !.op = "acquire", !.profile = p].n = 0
          BY RestInJobs DEF Jobs
        <4> QED
          BY <3>2, <3>3, <3>4, <4>1, <4>2 DEF Acquire, Create, Begin
      <3>6. CASE \E p \in Profiles : Register(c, p)
        <4>1. PICK p \in Profiles : Register(c, p)
          BY <3>6
        <4>2. \A place : [Rest EXCEPT !.op = "create", !.profile = p, !.n = ops + 1, !.place = place].n = ops + 1
          BY RestInJobs DEF Jobs
        <4> QED
          BY <3>3, <4>1, <4>2 DEF Register, Begin
      <3>7. CASE AskDefault(c)
        <4>1. [Rest EXCEPT !.op = "default", !.profile = Default, !.n = ops + 1].n = ops + 1
          BY RestInJobs DEF Jobs
        <4> QED
          BY <3>3, <3>7, <4>1 DEF AskDefault, Begin
      <3>8. ASSUME NEW op, NEW id, NEW p, Opens(c, op, id, p)
            PROVE  Becomes(c, "idle", Rest) \/ (job'[c].n = 0 /\ pc'[c] = "load")
        <4>1. [Rest EXCEPT !.op = op, !.id = id, !.place = records[id].place, !.profile = p].n = 0
          BY RestInJobs DEF Jobs
        <4> QED
          BY <3>4, <3>8, <4>1 DEF Opens, Ends
      <3>9. CASE (\E id \in Numbers : Get(c, id)) \/ OpenDefault(c)
        BY <3>1, <3>8, <3>9 DEF Get, OpenDefault, Ends
      <3>10. CASE (\E id \in Numbers, op \in {"start", "stop"} : Power(c, id, op))
        <4>1. \A op, id : [Rest EXCEPT !.op = op, !.id = id].n = 0
          BY RestInJobs DEF Jobs
        <4> QED
          BY <3>4, <3>10, <4>1 DEF Power
      <3>11. CASE \E id \in Numbers : Destroy(c, id)
        <4>1. \A id, p, place : [Rest EXCEPT !.op = "destroy", !.id = id, !.profile = p, !.place = place].n = 0
          BY RestInJobs DEF Jobs
        <4>2. PICK id \in Numbers : Destroy(c, id)
          BY <3>11
        <4> DEFINE j == [Rest EXCEPT !.op = "destroy", !.id = id, !.profile = records[id].profile,
                                     !.place = records[id].place]
        <4>3. Becomes(c, "raze", j) /\ j.n = 0
          BY <4>1, <4>2 DEF Destroy
        <4> HIDE DEF j
        <4> QED
          BY <3>4, <4>3
      <3>12. CASE Make(c)
        <4>1. job[c] \in Jobs /\ pc[c] = "make"
          BY <2>typed, <3>12 DEF Make
        <4> DEFINE place == Place(SpecOf(job[c].profile))
        <4>2. PICK where \in {"cache", "record"} : Becomes(c, where, [job[c] EXCEPT !.place = place])
          BY <3>12 DEF Make
        <4> HIDE DEF place
        <4>3. job'[c].n = job[c].n /\ pc'[c] = where
          BY <2>typed, <4>1, <4>2 DEF Becomes, Jobs
        <4> QED
          BY <4>1, <4>3
      <3>13. CASE Find(c)
        <4>1. job[c] \in Jobs /\ pc[c] = "find"
          BY <2>typed, <3>13 DEF Find
        <4>2. CASE Becomes(c, "make", job[c])
          BY <2>typed, <4>1, <4>2 DEF Becomes
        <4>3. CASE ~Becomes(c, "make", job[c])
          <5>1. PICK id \in Numbers : /\ Recorded(id) /\ records[id].profile = Default
                                      /\ Becomes(c, "open", [job[c] EXCEPT !.id = id])
            BY <3>13, <4>3 DEF Find
          <5>2. job'[c].n = job[c].n /\ job'[c].id = id
            BY <2>typed, <4>1, <5>1 DEF Becomes, Jobs
          <5> QED
            BY <4>1, <5>1, <5>2 DEF Recorded
        <4> QED
          BY <4>2, <4>3
      <3>14. CASE Lock(c)
        BY <2>typed, <3>14 DEF Lock
      <3>15. CASE Raze(c) \/ Evict(c) \/ Unname(c) \/ Cache(c)
        BY <2>typed, <3>1, <3>15 DEF Raze, Evict, Unname, Cache, Moves, Ends
      <3>16. CASE \/ MakeFails(c) \/ Name(c) \/ Load(c) \/ UpdateStatus(c) \/ RazeFails(c) \/ Delete(c)
        BY <3>1, <3>16 DEF MakeFails, Name, Load, UpdateStatus, RazeFails, Delete, Ends
      <3>17. CASE \E s \in Settings : Inline(c, s)
        BY <3>2, <3>17 DEF Inline, Begin
      <3>18. QED
        BY <1>2, <3>5, <3>6, <3>7, <3>9, <3>10, <3>11, <3>12, <3>13, <3>14, <3>15, <3>16, <3>17 DEF Step
    <2> HIDE DEF Becomes
    <2>7. QED
      BY <2>1, <2>2, <2>3, <2>4, <2>6, NumberMoves
  <1>3. QED
    BY <1>1, <1>2, InsertNumber DEF Next

(* -- the scratch sandbox ---------------------------------------------------------------- *)

(* Who is past the lock of default() holds it; while a scratch sandbox is   *)
(* being made there is none.                                                *)
InDefault(c) == job[c].op = "default" /\ pc[c] # "lock"
ScratchInv ==
    /\ \A c \in Callers : lock = c <=> InDefault(c)
    /\ \A c \in Callers : InDefault(c) /\ pc[c] \in {"make", "record"} =>
          \A id \in Numbers : Recorded(id) => records[id].profile # Default
    /\ ScratchUnique

(* A caller moves outside default(), or on within it, and no scratch record *)
(* comes into being.                                                        *)
LEMMA ScratchMoves ==
  ASSUME TypeOK, JobsOK, ScratchInv, NEW c \in Callers, Becomes(c, pc'[c], job'[c]),
         \A id \in Numbers : records'[id] = None
                             \/ records'[id].profile # Default
                             \/ (records[id] # None /\ records'[id].profile = records[id].profile),
         \/ lock' = lock /\ (InDefault(c)' <=> InDefault(c))
         \/ ~InDefault(c)' /\ lock' = IF lock = c THEN None ELSE lock
         \/ lock = None /\ lock' = c /\ InDefault(c)',
         InDefault(c)' /\ pc'[c] \in {"make", "record"} =>
            \/ InDefault(c) /\ pc[c] \in {"make", "record"}
            \/ \A id \in Numbers : Recorded(id) => records[id].profile # Default
  PROVE  ScratchInv'
  <1>1. \A d \in Callers \ {c} : pc'[d] = pc[d] /\ job'[d] = job[d] /\ (InDefault(d)' <=> InDefault(d))
    BY DEF Becomes, JobsOK, InDefault
  <1>2. \A d \in Callers : lock' = d <=> InDefault(d)'
    BY <1>1 DEF ScratchInv
  <1>3. \A id \in Numbers : records'[id] # None /\ records'[id].profile = Default
                            => records[id] # None /\ records[id].profile = Default
    OBVIOUS
  <1>4. ScratchUnique'
    BY <1>3 DEF ScratchInv, ScratchUnique, Recorded
  <1>5. ASSUME NEW d \in Callers, InDefault(d)', pc'[d] \in {"make", "record"}, NEW id \in Numbers, records'[id] # None
        PROVE  records'[id].profile # Default
    <2>1. \A n \in Numbers : Recorded(n) => records[n].profile # Default
      <3>1. CASE d = c
        BY <1>5, <3>1 DEF ScratchInv
      <3>2. CASE d # c
        BY <1>1, <1>5, <3>2 DEF ScratchInv
      <3> QED
        BY <3>1, <3>2
    <2> QED
      BY <1>3, <1>5, <2>1 DEF Recorded
  <1>6. QED
    BY <1>2, <1>4, <1>5 DEF ScratchInv, Recorded

LEMMA ScratchInsert ==
  ASSUME TypeOK, JobsOK, ScratchInv, NEW c \in Callers, Insert(c), job[c].op = "default"
  PROVE  ScratchInv'
  <1>1. /\ pc[c] = "record" /\ pc' = [pc EXCEPT ![c] = "cache"] /\ job' = job /\ lock' = lock
        /\ \A id \in Numbers : id # job[c].n => records'[id] = records[id]
    BY DEF Insert, Moves, TypeOK
  <1>2. InDefault(c) /\ lock = c
    BY <1>1 DEF InDefault, ScratchInv
  <1>3. \A d \in Callers : InDefault(d)' <=> InDefault(d)
    BY <1>1 DEF InDefault, JobsOK
  <1>4. \A id \in Numbers : Recorded(id) => records[id].profile # Default
    BY <1>1, <1>2 DEF ScratchInv
  <1>5. ScratchUnique'
    BY <1>1, <1>4 DEF ScratchUnique, Recorded
  <1>6. \A d \in Callers : InDefault(d)' => pc'[d] \notin {"make", "record"}
    BY <1>1, <1>2, <1>3 DEF ScratchInv, JobsOK
  <1>7. QED
    BY <1>1, <1>3, <1>5, <1>6 DEF ScratchInv

LEMMA ScratchStep == TypeOK /\ JobsOK /\ ScratchInv /\ [Next]_vars => ScratchInv'
  <1> SUFFICES ASSUME TypeOK, JobsOK, ScratchInv, [Next]_vars
               PROVE  ScratchInv'
    OBVIOUS
  <1>1. CASE UNCHANGED vars \/ \E n \in Numbers : LetGo(n)
    BY <1>1 DEF vars, LetGo, ScratchInv, ScratchUnique, Recorded, InDefault
  <1>2. ASSUME NEW c \in Callers, Step(c), ~(Insert(c) /\ job[c].op = "default")
        PROVE  ScratchInv'
    <2>1. Becomes(c, pc'[c], job'[c])
      BY <1>2, OneMoves
    <2>2. pc \in [Callers -> Stages] /\ job \in [Callers -> Jobs] /\ JobOK(pc[c], job[c])
      BY DEF JobsOK
    <2>3. \A id \in Numbers : records'[id] = None
                             \/ records'[id].profile # Default
                             \/ (records[id] # None /\ records'[id].profile = records[id].profile)
      <3>1. CASE records' = records
        BY <3>1
      <3>2. CASE UpdateStatus(c)
        <4>1. \A id \in Numbers : records[id] \in Records \union {None}
          BY DEF TypeOK
        <4> QED
          BY <3>1, <3>2, <4>1 DEF UpdateStatus, TypeOK, Records, Recorded
      <3>3. CASE Delete(c)
        BY <3>3 DEF Delete, TypeOK
      <3>4. CASE Insert(c)
        <4> DEFINE r == [profile |-> job[c].profile, place |-> job[c].place, status |-> "running"]
        <4>1. records' = [records EXCEPT ![job[c].n] = r]
          BY <3>4 DEF Insert
        <4>2. r.profile # Default
          BY <1>2, <2>2, <3>4 DEF Insert, JobOK
        <4> HIDE DEF r
        <4> QED
          BY <4>1, <4>2 DEF TypeOK
      <3> QED
        BY <1>2, <3>1, <3>2, <3>3, <3>4 DEF Step, Acquire, Create, Register, Make, MakeFails, Cache, Name, Inline,
           Get, Load, AskDefault, Lock, Find, OpenDefault, Power, Destroy, Raze, RazeFails, Evict, Unname, Tables
    <2> DEFINE LockMoves == \/ lock' = lock /\ (InDefault(c)' <=> InDefault(c))
                            \/ ~InDefault(c)' /\ lock' = IF lock = c THEN None ELSE lock
                            \/ lock = None /\ lock' = c /\ InDefault(c)'
               MakesAlone == InDefault(c)' /\ pc'[c] \in {"make", "record"} =>
                                \/ InDefault(c) /\ pc[c] \in {"make", "record"}
                                \/ \A id \in Numbers : Recorded(id) => records[id].profile # Default
    <2>4. LockMoves /\ MakesAlone
      <3> USE DEF InDefault
      <3>rest. Rest.op = "none"
        BY DEF Rest
      <3>1. CASE Ends(c)
        BY <2>2, <3>1, <3>rest DEF Ends, Becomes
      <3>2. CASE UNCHANGED <<pc, job, lock>> /\ pc[c] = "idle"
        BY <2>2, <3>2, <3>rest DEF JobOK
      <3>3. ASSUME NEW where, NEW j, Becomes(c, where, j), lock' = lock, pc[c] = "idle",
                   j.op # "default" \/ where = "lock"
            PROVE  LockMoves /\ MakesAlone
        <4>1. pc'[c] = where /\ job'[c] = j /\ job[c].op # "default"
          BY <2>2, <3>3, <3>rest DEF Becomes, JobOK
        <4> QED
          BY <3>3, <4>1
      <3>4. CASE \E p \in Profiles : Acquire(c, p) \/ Create(c, p)
        <4>1. PICK p \in Profiles : Acquire(c, p) \/ Create(c, p)
          BY <3>4
        <4>2. /\ [Rest EXCEPT !.op = "create", !.profile = p, !.n = ops + 1].op = "create"
              /\ [Rest EXCEPT !.op = "acquire", !.profile = p].op = "acquire"
          BY RestInJobs DEF Jobs
        <4> QED
          BY <3>2, <3>3, <4>1, <4>2 DEF Acquire, Create, Begin
      <3>5. CASE \E p \in Profiles : Register(c, p)
        <4>1. PICK p \in Profiles : Register(c, p)
          BY <3>5
        <4>2. \A place : [Rest EXCEPT !.op = "create", !.profile = p, !.n = ops + 1, !.place = place].op = "create"
          BY RestInJobs DEF Jobs
        <4> QED
          BY <3>3, <4>1, <4>2 DEF Register, Begin
      <3>6. CASE AskDefault(c)
        BY <3>3, <3>6 DEF AskDefault, Begin
      <3>7. CASE \E id \in Numbers : Get(c, id)
        <4>1. PICK id \in Numbers : Get(c, id)
          BY <3>7
        <4>2. \A place, p : [Rest EXCEPT !.op = "get", !.id = id, !.place = place, !.profile = p].op = "get"
          BY RestInJobs DEF Jobs
        <4> QED
          BY <3>1, <3>3, <4>1, <4>2 DEF Get, Begin, Opens
      <3>8. CASE OpenDefault(c)
        <4>1. pc[c] = "open" /\ job[c].op = "default"
          BY <2>2, <3>8 DEF OpenDefault, JobOK
        <4>2. CASE ~Ends(c)
          <5> DEFINE id == job[c].id
                     j == [Rest EXCEPT !.op = "default", !.id = id, !.place = records[id].place, !.profile = Default]
          <5>1. Becomes(c, "load", j) /\ lock' = lock
            BY <3>8, <4>2 DEF OpenDefault, Opens
          <5>2. j.op = "default"
            BY RestInJobs DEF Jobs
          <5> HIDE DEF j
          <5>3. pc'[c] = "load" /\ job'[c].op = "default"
            BY <2>2, <5>1, <5>2 DEF Becomes
          <5> QED
            BY <4>1, <5>1, <5>3
        <4> QED
          BY <3>1, <4>2
      <3>9. CASE (\E id \in Numbers, op \in {"start", "stop"} : Power(c, id, op))
        <4>1. \A id, op : [Rest EXCEPT !.op = op, !.id = id].op = op
          BY RestInJobs DEF Jobs
        <4> QED
          BY <3>3, <3>9, <4>1 DEF Power, Begin
      <3>10. CASE \E id \in Numbers : Destroy(c, id)
        <4>1. \A id, p, place : [Rest EXCEPT !.op = "destroy", !.id = id, !.profile = p, !.place = place].op = "destroy"
          BY RestInJobs DEF Jobs
        <4> QED
          BY <3>3, <3>10, <4>1 DEF Destroy, Begin
      <3>11. CASE Make(c)
        <4> DEFINE place == Place(SpecOf(job[c].profile))
        <4>1. pc[c] = "make" /\ lock' = lock
          BY <3>11 DEF Make
        <4>2. PICK where \in {"cache", "record"} : Becomes(c, where, [job[c] EXCEPT !.place = place])
          BY <3>11 DEF Make
        <4> HIDE DEF place
        <4>3. job'[c].op = job[c].op /\ pc'[c] = where
          BY <2>2, <4>2 DEF Becomes, Jobs
        <4> QED
          BY <4>1, <4>3
      <3>12. CASE Find(c)
        <4>1. pc[c] = "find" /\ lock' = lock
          BY <3>12 DEF Find
        <4>2. CASE Becomes(c, "make", job[c])
          <5>1. pc'[c] = "make" /\ job'[c] = job[c]
            BY <2>2, <4>2 DEF Becomes
          <5>2. \A id \in Numbers : Recorded(id) => records[id].profile # Default
            <6>1. ASSUME NEW id \in Numbers
                  PROVE  ~Becomes(c, "open", [job[c] EXCEPT !.id = id])
              BY <2>2, <5>1 DEF Becomes
            <6> QED
              BY <3>12, <6>1 DEF Find
          <5> QED
            BY <4>1, <5>1, <5>2
        <4>3. CASE ~Becomes(c, "make", job[c])
          <5>1. PICK id \in Numbers : Becomes(c, "open", [job[c] EXCEPT !.id = id])
            BY <3>12, <4>3 DEF Find
          <5>2. job'[c].op = job[c].op /\ pc'[c] = "open"
            BY <2>2, <5>1 DEF Becomes, Jobs
          <5> QED
            BY <4>1, <5>2
        <4> QED
          BY <4>2, <4>3
      <3>13. CASE Lock(c)
        BY <2>2, <3>13 DEF Lock, JobOK
      <3>14. CASE Raze(c) \/ Evict(c) \/ Unname(c) \/ Insert(c)
        BY <1>2, <2>2, <3>14 DEF Raze, Evict, Unname, Insert, Moves, JobOK
      <3>15. CASE Cache(c)
        BY <2>2, <3>1, <3>15 DEF Cache, Moves
      <3>16. CASE \/ MakeFails(c) \/ Name(c) \/ Load(c) \/ UpdateStatus(c) \/ RazeFails(c) \/ Delete(c)
        BY <3>1, <3>16 DEF MakeFails, Name, Load, UpdateStatus, RazeFails, Delete
      <3>17. CASE \E s \in Settings : Inline(c, s)
        BY <3>2, <3>17 DEF Inline, Begin
      <3>18. QED
        BY <1>2, <3>4, <3>5, <3>6, <3>7, <3>8, <3>9, <3>10, <3>11, <3>12, <3>13, <3>14, <3>15, <3>16, <3>17
           DEF Step
    <2>5. QED
      BY <2>1, <2>3, <2>4, ScratchMoves
  <1>3. QED
    BY <1>1, <1>2, ScratchInsert DEF Next

(* -- the invariant ------------------------------------------------------------------ *)

SandboxInv == TypeOK /\ TablesFit /\ JobsOK /\ NumberInv /\ ScratchInv

LEMMA SandboxInit == Init => SandboxInv
  <1> SUFFICES ASSUME Init PROVE SandboxInv
    OBVIOUS
  <1>1. TypeOK
    <2>1. [kind \in {"local", "tmp"} |-> 0] \in [{"local", "tmp"} -> 0..MaxOps] /\ 0 \in 0..MaxOps
      OBVIOUS
    <2> QED
      BY <2>1 DEF Init, TypeOK
  <1>2. TablesFit
    BY DEF Init, TablesFit, Recorded
  <1>3. JobsOK
    <2>1. Rest \in Jobs /\ "idle" \in Stages
      BY RestInJobs DEF Stages
    <2>2. \A c \in Callers : pc[c] = "idle" /\ job[c] = Rest
      BY DEF Init
    <2>3. pc \in [Callers -> Stages] /\ job \in [Callers -> Jobs]
      BY <2>1 DEF Init
    <2> QED
      BY <2>2, <2>3, RestTyped DEF JobsOK
  <1>4. NumberInv
    <2>1. \A c \in Callers : pc[c] = "idle" /\ job[c].n = 0
      BY RestInJobs DEF Init
    <2>2. ops = 0 /\ \A id \in Numbers : records[id] = None
      BY DEF Init
    <2> QED
      BY <2>1, <2>2 DEF NumberInv, Making
  <1>5. ScratchInv
    <2>1. \A c \in Callers : pc[c] = "idle" /\ lock # c
      BY DEF Init
    <2>2. \A c \in Callers : ~InDefault(c)
      BY <2>1 DEF Init, InDefault, Rest
    <2>3. \A id \in Numbers : ~Recorded(id)
      BY DEF Init, Recorded
    <2> QED
      BY <2>1, <2>2, <2>3 DEF ScratchInv, ScratchUnique
  <1>6. QED
    BY <1>1, <1>2, <1>3, <1>4, <1>5 DEF SandboxInv

LEMMA SandboxStep == SandboxInv /\ [Next]_vars => SandboxInv'
  BY TableStep, JobStep, NumberStep, ScratchStep DEF SandboxInv

(* There is one scratch sandbox whatever the callers do: the searches and   *)
(* creations of default() exclude each other (manager.rs default).          *)
THEOREM ScratchOKHolds == Spec => []ScratchOK
  <1>1. SandboxInv => ScratchOK
    BY DEF SandboxInv, ScratchInv, ScratchOK
  <1>2. QED
    BY <1>1, SandboxInit, SandboxStep, PTL DEF Spec

(* -- whose a generated name is -------------------------------------------------------- *)

(* A table or an operation relates the place to the profile.                *)
Uses(p, place) ==
    \/ p \in Profiles /\ names[p] = place
    \/ \E id \in Numbers : Recorded(id) /\ records[id].profile = p /\ records[id].place = place
    \/ instances[place] # None /\ instances[place].owner = p
    \/ \E c \in Callers : job[c].profile = p /\ job[c].place = place

(* A generated name that only sandboxes of one kind have got is of one      *)
(* profile.                                                                 *)
OwnerInv ==
    \A n \in Numbers :
        \/ Twice(Generated(n))
        \/ \A p, q \in Named : Uses(p, Generated(n)) /\ Uses(q, Generated(n)) => p = q

LEMMA GeneratedTyped ==
  ASSUME NEW n \in Numbers
  PROVE  /\ Generated(n) \in Places /\ Generated(n) # None
         /\ Generated(n).type = "generated" /\ Generated(n).n = n /\ Generated(n).home = None
  BY NoneIsNoPlace DEF Places, Generated

LEMMA TwiceStays ==
  ASSUME TypeOK, Grows, NEW place \in Places, Twice(place)
  PROVE  Twice(place)'
  <1>1. place.type = "generated" /\ place.n <= made["local"] /\ place.n <= made["tmp"]
    BY DEF Twice
  <1>2. place.n \in Nat
    BY <1>1 DEF Places, Generated, Numbers
  <1>3. ASSUME NEW k \in {"local", "tmp"}
        PROVE  place.n <= made'[k]
    <2>1. made[k] \in Nat /\ made'[k] \in Nat /\ made[k] <= made'[k] /\ place.n <= made[k]
      BY <1>1 DEF TypeOK, Grows
    <2> QED
      BY <1>2, <2>1
  <1> QED
    BY <1>1, <1>3 DEF Twice

(* What uses a generated name was given it.                                 *)
LEMMA UsesFit ==
  ASSUME TypeOK, TablesFit, JobsOK, NEW n \in Numbers, NEW p \in Named, Uses(p, Generated(n))
  PROVE  /\ SpecOf(p).home = None /\ SpecOf(p).kind \in {"local", "tmp"}
         /\ n <= made[SpecOf(p).kind]
  <1> DEFINE place == Generated(n)
  <1>1. place \in Places /\ place # None /\ place.type = "generated" /\ place.n = n
    BY GeneratedTyped
  <1> HIDE DEF place
  <1>2. Fits(p, place)
    <2>1. CASE p \in Profiles /\ names[p] = place
      BY <1>1, <2>1 DEF TablesFit
    <2>2. CASE \E id \in Numbers : Recorded(id) /\ records[id].profile = p /\ records[id].place = place
      BY <2>2 DEF TablesFit
    <2>3. CASE instances[place] # None /\ instances[place].owner = p
      <3>1. PICK q \in Named : /\ Fits(q, place)
                               /\ instances[place] = Handle(q, place) \/ instances[place] = Reopened(q, place)
        BY <1>1, <2>3 DEF TablesFit, HandleFits
      <3>2. instances[place].owner = q
        BY <1>1, <3>1, HandleTyped, ReopenedTyped
      <3> QED
        BY <2>3, <3>1, <3>2
    <2>4. CASE \E c \in Callers : job[c].profile = p /\ job[c].place = place
      BY <1>1, <2>4 DEF JobsOK, JobOK
    <2> QED
      BY <2>1, <2>2, <2>3, <2>4 DEF Uses, place
  <1>3. SpecOf(p).home = None
    BY <1>1, <1>2 DEF Fits
  <1> QED
    BY <1>1, <1>2, <1>3, SpecTyped DEF Fits

(* The tables get what an operation had in hand.                            *)
LEMMA UsesTables ==
  ASSUME SandboxInv, NEW c \in Callers, Step(c), NEW n \in Numbers
  PROVE  /\ \A p \in Profiles : names'[p] = Generated(n) => Uses(p, Generated(n))
         /\ \A id \in Numbers : records'[id] # None /\ records'[id].place = Generated(n) =>
               Uses(records'[id].profile, Generated(n))
         /\ instances'[Generated(n)] # None => Uses(instances'[Generated(n)].owner, Generated(n))
  <1> DEFINE place == Generated(n)
             N == \A p \in Profiles : names'[p] = place => Uses(p, place)
             R == \A id \in Numbers : records'[id] # None /\ records'[id].place = place =>
                     Uses(records'[id].profile, place)
             I == instances'[place] # None => Uses(instances'[place].owner, place)
  <1> SUFFICES N /\ R /\ I
    OBVIOUS
  <1>0. TypeOK /\ JobsOK /\ JobOK(pc[c], job[c]) /\ job[c] \in Jobs
    BY DEF SandboxInv, JobsOK
  <1>1. place \in Places /\ place # None /\ place.type = "generated"
    BY GeneratedTyped
  <1> HIDE DEF place
  <1>typed. /\ names \in [Profiles -> Places \union {None}] /\ records \in [Numbers -> Records \union {None}]
            /\ instances \in [Places -> Handles \union {None}]
    BY <1>0 DEF TypeOK
  <1>names. names' = names => N
    BY DEF Uses
  <1>records. (\A id \in Numbers : records'[id] # None =>
                  /\ records[id] # None
                  /\ records'[id].profile = records[id].profile /\ records'[id].place = records[id].place) => R
    BY DEF Uses, Recorded
  <1>instances. instances'[place] \in {None, instances[place]} => I
    BY DEF Uses
  <1>2. CASE UNCHANGED <<records, instances, names>>
    BY <1>2, <1>names, <1>records, <1>instances
  <1>3. CASE Insert(c)
    <2> DEFINE r == [profile |-> job[c].profile, place |-> job[c].place, status |-> "running"]
    <2>1. records' = [records EXCEPT ![job[c].n] = r] /\ UNCHANGED <<instances, names>>
      BY <1>3 DEF Insert
    <2>2. r.profile = job[c].profile /\ r.place = job[c].place
      OBVIOUS
    <2> HIDE DEF r
    <2>3. R
      <3> SUFFICES ASSUME NEW id \in Numbers, records'[id] # None, records'[id].place = place
                   PROVE  Uses(records'[id].profile, place)
        OBVIOUS
      <3>1. records'[id] = r \/ records'[id] = records[id]
        BY <1>typed, <2>1
      <3> QED
        BY <2>2, <3>1 DEF Uses, Recorded
    <2> QED
      BY <2>1, <2>3, <1>names, <1>instances
  <1>4. CASE Cache(c) \/ Load(c)
    <2>1. /\ UNCHANGED <<records, names>> /\ pc[c] \in {"cache", "load"}
          /\ \/ instances' = instances
             \/ instances' = [instances EXCEPT ![job[c].place] = Handle(job[c].profile, job[c].place)]
             \/ instances' = [instances EXCEPT ![job[c].place] = Reopened(job[c].profile, job[c].place)]
      BY <1>4 DEF Cache, Load
    <2>2. job[c].place \in Places /\ job[c].profile \in Named
      BY <1>0, <2>1 DEF JobOK, Jobs
    <2>3. CASE job[c].place = place
      <3>1. instances'[place] \in {instances[place], Handle(job[c].profile, place), Reopened(job[c].profile, place)}
        BY <1>1, <1>typed, <2>1, <2>3
      <3>2. Handle(job[c].profile, place).owner = job[c].profile
        BY <1>0, <1>1, <2>2, HandleTyped
      <3>3. Reopened(job[c].profile, place).owner = job[c].profile
        BY <1>0, <1>1, <2>2, ReopenedTyped
      <3>4. I
        BY <2>3, <3>1, <3>2, <3>3 DEF Uses
      <3> QED
        BY <2>1, <3>4, <1>names, <1>records
    <2>4. CASE job[c].place # place
      <3>1. instances'[place] = instances[place]
        BY <1>1, <1>typed, <2>1, <2>4
      <3> QED
        BY <2>1, <3>1, <1>names, <1>records, <1>instances
    <2> QED
      BY <2>3, <2>4
  <1>5. CASE Name(c)
    <2>1. names' = [names EXCEPT ![job[c].profile] = job[c].place] /\ UNCHANGED <<records, instances>>
      BY <1>5 DEF Name
    <2>2. N
      <3> SUFFICES ASSUME NEW p \in Profiles, names'[p] = place PROVE Uses(p, place)
        OBVIOUS
      <3>1. names[p] = place \/ (p = job[c].profile /\ job[c].place = place)
        BY <1>typed, <2>1
      <3> QED
        BY <3>1 DEF Uses
    <2> QED
      BY <2>1, <2>2, <1>records, <1>instances
  <1>6. CASE UpdateStatus(c)
    <2>1. UNCHANGED <<instances, names>>
      BY <1>6 DEF UpdateStatus
    <2>2. \A id \in Numbers : records'[id] # None =>
             /\ records[id] # None
             /\ records'[id].profile = records[id].profile /\ records'[id].place = records[id].place
      BY <1>6, <1>typed DEF UpdateStatus, Recorded, Records
    <2> QED
      BY <2>1, <2>2, <1>names, <1>records, <1>instances
  <1>7. CASE Evict(c)
    <2>1. UNCHANGED <<records, names>> /\ instances'[place] \in {None, instances[place]}
      BY <1>1, <1>7, <1>typed DEF Evict
    <2> QED
      BY <2>1, <1>names, <1>records, <1>instances
  <1>8. CASE Unname(c)
    <2>1. UNCHANGED <<records, instances>> /\ \A p \in Profiles : names'[p] \in {None, names[p]}
      BY <1>8 DEF Unname
    <2>2. N
      BY <1>1, <2>1 DEF Uses
    <2> QED
      BY <2>1, <2>2, <1>records, <1>instances
  <1>9. CASE Delete(c)
    <2>1. UNCHANGED <<instances, names>> /\ \A id \in Numbers : records'[id] \in {None, records[id]}
      BY <1>9, <1>typed DEF Delete
    <2> QED
      BY <2>1, <1>names, <1>records, <1>instances
  <1> QED
    BY <1>2, <1>3, <1>4, <1>5, <1>6, <1>7, <1>8, <1>9
       DEF Step, Acquire, Create, Register, Make, MakeFails, Inline, Get, AskDefault, Lock, Find, OpenDefault,
           Power, Destroy, Raze, RazeFails, Tables

(* An operation has in hand what it had, what a record says, or nothing,    *)
(* unless it makes a sandbox.                                               *)
LEMMA UsesJob ==
  ASSUME SandboxInv, NEW c \in Callers, Step(c), ~Make(c), \A p \in Profiles : ~Register(c, p)
  PROVE  \/ job'[c].place = None
         \/ job'[c].place = job[c].place /\ job'[c].profile = job[c].profile
         \/ \E id \in Numbers : /\ Recorded(id) /\ records[id].place = job'[c].place
                                /\ records[id].profile = job'[c].profile
  <1> DEFINE Goal == \/ job'[c].place = None
                     \/ job'[c].place = job[c].place /\ job'[c].profile = job[c].profile
                     \/ \E id \in Numbers : /\ Recorded(id) /\ records[id].place = job'[c].place
                                            /\ records[id].profile = job'[c].profile
  <1>0. TypeOK /\ JobsOK /\ NumberInv /\ JobOK(pc[c], job[c]) /\ job[c] \in Jobs
    BY DEF SandboxInv, JobsOK
  <1>1. job \in [Callers -> Jobs]
    BY <1>0 DEF JobsOK
  <1>2. ASSUME NEW where, NEW j, Becomes(c, where, j)
        PROVE  job'[c] = j
    BY <1>1, <1>2 DEF Becomes
  <1>3. CASE job' = job
    BY <1>3
  <1>4. CASE Ends(c)
    <2>1. job'[c] = Rest /\ Rest.place = None
      BY <1>2, <1>4 DEF Ends, Rest
    <2> QED
      BY <2>1
  <1>5. CASE \E p \in Profiles : Acquire(c, p) \/ Create(c, p)
    <2>1. PICK p \in Profiles : Acquire(c, p) \/ Create(c, p)
      BY <1>5
    <2>2. /\ [Rest EXCEPT !.op = "acquire", !.profile = p].place = None
          /\ [Rest EXCEPT !.op = "create", !.profile = p, !.n = ops + 1].place = None
      BY DEF Rest
    <2>3. CASE job' = job
      BY <1>3, <2>3
    <2>4. CASE job' # job
      <3>1. \/ Becomes(c, "make", [Rest EXCEPT !.op = "acquire", !.profile = p])
            \/ Becomes(c, "make", [Rest EXCEPT !.op = "create", !.profile = p, !.n = ops + 1])
        BY <2>1, <2>4 DEF Acquire, Create
      <3>2. job'[c].place = None
        BY <1>2, <2>2, <3>1
      <3> QED
        BY <3>2
    <2> QED
      BY <2>3, <2>4
  <1>6. ASSUME NEW op, NEW id \in Numbers, Recorded(id), Opens(c, op, id, records[id].profile)
        PROVE  Goal
    <2> DEFINE j == [Rest EXCEPT !.op = op, !.id = id, !.place = records[id].place, !.profile = records[id].profile]
    <2>1. Ends(c) \/ Becomes(c, "load", j)
      BY <1>6 DEF Opens
    <2>2. j.place = records[id].place /\ j.profile = records[id].profile
      BY DEF Rest
    <2> HIDE DEF j
    <2>3. CASE Becomes(c, "load", j)
      <3>1. job'[c] = j
        BY <1>2, <2>3
      <3> QED
        BY <1>6, <2>2, <3>1
    <2> QED
      BY <1>4, <2>1, <2>3
  <1>7. CASE \E id \in Numbers : Get(c, id)
    BY <1>6, <1>7 DEF Get
  <1>8. CASE OpenDefault(c)
    <2>1. job[c].id \in Numbers /\ pc[c] = "open"
      BY <1>0, <1>8 DEF OpenDefault, JobOK
    <2>2. CASE Recorded(job[c].id)
      <3>1. records[job[c].id].profile = Default
        BY <1>0, <2>1, <2>2 DEF NumberInv, Recorded
      <3> QED
        BY <1>6, <1>8, <2>1, <2>2, <3>1 DEF OpenDefault
    <2>3. CASE ~Recorded(job[c].id)
      BY <1>4, <1>8, <2>3 DEF OpenDefault
    <2> QED
      BY <2>2, <2>3
  <1>9. CASE AskDefault(c)
    <2> DEFINE j == [Rest EXCEPT !.op = "default", !.profile = Default, !.n = ops + 1]
    <2>1. Becomes(c, "lock", j) /\ j.place = None
      BY <1>9 DEF AskDefault, Rest
    <2> HIDE DEF j
    <2> QED
      BY <1>2, <2>1
  <1>10. CASE Find(c)
    <2>1. CASE Becomes(c, "make", job[c])
      BY <1>2, <2>1
    <2>2. CASE ~Becomes(c, "make", job[c])
      <3>1. PICK id \in Numbers : Becomes(c, "open", [job[c] EXCEPT !.id = id])
        BY <1>10, <2>2 DEF Find
      <3> DEFINE j == [job[c] EXCEPT !.id = id]
      <3>2. j.place = job[c].place /\ j.profile = job[c].profile
        BY <1>0 DEF Jobs
      <3> HIDE DEF j
      <3>3. job'[c] = j
        BY <1>2, <3>1 DEF j
      <3> QED
        BY <3>2, <3>3
    <2> QED
      BY <2>1, <2>2
  <1>11. CASE \E id \in Numbers, op \in {"start", "stop"} : Power(c, id, op)
    <2>1. PICK id \in Numbers, op \in {"start", "stop"} : Power(c, id, op)
      BY <1>11
    <2> DEFINE j == [Rest EXCEPT !.op = op, !.id = id]
    <2>2. Becomes(c, "power", j) /\ j.place = None
      BY <2>1 DEF Power, Rest
    <2> HIDE DEF j
    <2> QED
      BY <1>2, <2>2
  <1>12. CASE \E id \in Numbers : Destroy(c, id)
    <2>1. PICK id \in Numbers : Destroy(c, id)
      BY <1>12
    <2> DEFINE j == [Rest EXCEPT !.op = "destroy", !.id = id, !.profile = records[id].profile,
                                 !.place = records[id].place]
    <2>2. /\ Becomes(c, "raze", j) /\ Recorded(id)
          /\ j.place = records[id].place /\ j.profile = records[id].profile
      BY <2>1 DEF Destroy, Rest
    <2> HIDE DEF j
    <2>3. job'[c] = j
      BY <1>2, <2>2
    <2> QED
      BY <2>2, <2>3
  <1>13. CASE Cache(c)
    BY <1>3, <1>4, <1>13 DEF Cache, Moves
  <1>14. QED
    BY <1>3, <1>4, <1>5, <1>7, <1>8, <1>9, <1>10, <1>11, <1>12, <1>13
       DEF Step, MakeFails, Insert, Name, Inline, Load, Lock, UpdateStatus, Raze, RazeFails, Evict, Unname,
           Delete, Moves

(* Only who makes a sandbox uses a new name, the next one of its kind.      *)
LEMMA UsesStep ==
  ASSUME SandboxInv, NEW c \in Callers, Step(c), NEW n \in Numbers
  PROVE  \E r \in Named : \A p \in Named : Uses(p, Generated(n))' =>
            \/ Uses(p, Generated(n))
            \/ /\ p = r /\ SpecOf(r).home = None
               /\ n = made[SpecOf(r).kind] + 1 /\ made'[SpecOf(r).kind] = n
  <1>0. TypeOK /\ JobsOK /\ Default \in Named /\ Generated(n) # None
    BY GeneratedTyped DEF SandboxInv, Named
  <1>1. Becomes(c, pc'[c], job'[c])
    BY <1>0, OneMoves
  <1>2. \A p \in Named : Uses(p, Generated(n))' =>
           Uses(p, Generated(n)) \/ (job'[c].profile = p /\ job'[c].place = Generated(n))
    <2> SUFFICES ASSUME NEW p \in Named, Uses(p, Generated(n))'
                 PROVE  Uses(p, Generated(n)) \/ (job'[c].profile = p /\ job'[c].place = Generated(n))
      OBVIOUS
    <2>1. Generated(n)' = Generated(n)
      BY DEF Generated
    <2>2. CASE p \in Profiles /\ names'[p] = Generated(n)
      BY <2>2, UsesTables
    <2>3. CASE \E id \in Numbers : records'[id] # None /\ records'[id].profile = p /\ records'[id].place = Generated(n)
      BY <2>3, UsesTables
    <2>4. CASE instances'[Generated(n)] # None /\ instances'[Generated(n)].owner = p
      BY <2>4, UsesTables
    <2>5. CASE \E d \in Callers : job'[d].profile = p /\ job'[d].place = Generated(n)
      <3>1. \A d \in Callers \ {c} : job'[d] = job[d]
        BY <1>0, <1>1 DEF Becomes, JobsOK
      <3> QED
        BY <2>5, <3>1 DEF Uses
    <2> QED
      BY <2>1, <2>2, <2>3, <2>4, <2>5 DEF Uses, Recorded
  <1>typed. made \in [{"local", "tmp"} -> 0..MaxOps] /\ job \in [Callers -> Jobs]
    BY <1>0 DEF TypeOK, JobsOK
  <1>3. ASSUME NEW r \in Named, SpecOf(r) \in Settings, Builds(SpecOf(r)), job'[c].profile = r,
               job'[c].place = Place(SpecOf(r))
        PROVE  \A p \in Named : Uses(p, Generated(n))' =>
                  \/ Uses(p, Generated(n))
                  \/ /\ p = r /\ SpecOf(r).home = None
                     /\ n = made[SpecOf(r).kind] + 1 /\ made'[SpecOf(r).kind] = n
    <2>1. CASE Place(SpecOf(r)) # Generated(n)
      BY <1>2, <1>3, <2>1
    <2>2. CASE Place(SpecOf(r)) = Generated(n)
      <3>1. SpecOf(r).home = None
        BY <2>2 DEF Place, Generated
      <3>2. SpecOf(r).kind \in {"local", "tmp"}
        BY <1>3, <3>1 DEF Settings
      <3>3. n = made[SpecOf(r).kind] + 1
        BY <2>2, <3>1 DEF Place, Generated
      <3>4. made' = [made EXCEPT ![SpecOf(r).kind] = @ + 1]
        BY <1>3, <3>1 DEF Builds
      <3>5. made'[SpecOf(r).kind] = n
        BY <1>typed, <3>2, <3>3, <3>4
      <3> QED
        BY <1>2, <1>3, <3>1, <3>3, <3>5
    <2> QED
      BY <2>1, <2>2
  <1>4. CASE Make(c)
    <2>1. /\ job[c].profile \in Named /\ SpecOf(job[c].profile) \in Settings
          /\ Builds(SpecOf(job[c].profile))
      BY <1>0, <1>4, MakeBuilds
    <2>2. job'[c] = [job[c] EXCEPT !.place = Place(SpecOf(job[c].profile))]
      BY <1>4, <1>typed DEF Make, Becomes
    <2>3. job'[c].profile = job[c].profile /\ job'[c].place = Place(SpecOf(job[c].profile))
      BY <1>typed, <2>2 DEF Jobs
    <2>4. PICK r \in Named : r = job[c].profile
      BY <2>1
    <2> QED
      BY <1>3, <2>1, <2>3, <2>4
  <1>5. CASE \E p \in Profiles : Register(c, p)
    <2>1. PICK p \in Profiles : Register(c, p)
      BY <1>5
    <2>2. SpecOf(p) = specs[p] /\ SpecOf(p) \in Settings /\ p \in Named /\ Builds(SpecOf(p))
      BY <1>0, <2>1, RegisterBuilds
    <2>3. job'[c] = [Rest EXCEPT !.op = "create", !.profile = p, !.n = ops + 1, !.place = Place(SpecOf(p))]
      BY <1>typed, <2>1, <2>2 DEF Register, Becomes
    <2>4. job'[c].profile = p /\ job'[c].place = Place(SpecOf(p))
      BY <2>3 DEF Rest
    <2> QED
      BY <1>3, <2>2, <2>4
  <1>6. CASE ~Make(c) /\ \A p \in Profiles : ~Register(c, p)
    <2>1. \/ job'[c].place = None
          \/ job'[c].place = job[c].place /\ job'[c].profile = job[c].profile
          \/ \E id \in Numbers : /\ Recorded(id) /\ records[id].place = job'[c].place
                                 /\ records[id].profile = job'[c].profile
      BY <1>6, UsesJob
    <2>2. \A p \in Named : Uses(p, Generated(n))' => Uses(p, Generated(n))
      BY <1>0, <1>2, <2>1 DEF Uses
    <2> QED
      BY <1>0, <2>2
  <1> QED
    BY <1>4, <1>5, <1>6

LEMMA OwnerStep == SandboxInv /\ OwnerInv /\ [Next]_vars => OwnerInv'
  <1> SUFFICES ASSUME SandboxInv, OwnerInv, [Next]_vars, NEW n \in Numbers
               PROVE  \/ Twice(Generated(n))'
                      \/ \A p, q \in Named : Uses(p, Generated(n))' /\ Uses(q, Generated(n))' => p = q
    BY DEF OwnerInv
  <1>0. TypeOK /\ TablesFit /\ JobsOK /\ Grows /\ made' \in [{"local", "tmp"} -> 0..MaxOps]
    BY StepGrows DEF SandboxInv
  <1>1. CASE UNCHANGED vars \/ \E k \in Numbers : LetGo(k)
    <2>1. UNCHANGED <<names, records, instances, job, made>>
      BY <1>1 DEF vars, LetGo
    <2> QED
      BY <2>1 DEF OwnerInv, Uses, Recorded, Twice
  <1>2. CASE Twice(Generated(n))
    BY <1>0, <1>2, GeneratedTyped, TwiceStays
  <1>3. ASSUME NEW c \in Callers, Step(c), ~Twice(Generated(n))
        PROVE  \/ Twice(Generated(n))'
               \/ \A p, q \in Named : Uses(p, Generated(n))' /\ Uses(q, Generated(n))' => p = q
    <2>1. \A p, q \in Named : Uses(p, Generated(n)) /\ Uses(q, Generated(n)) => p = q
      BY <1>3 DEF OwnerInv
    <2>2. PICK r \in Named : \A p \in Named : Uses(p, Generated(n))' =>
             \/ Uses(p, Generated(n))
             \/ /\ p = r /\ SpecOf(r).home = None
                /\ n = made[SpecOf(r).kind] + 1 /\ made'[SpecOf(r).kind] = n
      BY <1>3, UsesStep
    <2>3. CASE \A p \in Named : Uses(p, Generated(n))' => Uses(p, Generated(n))
      BY <2>1, <2>3
    <2>4. CASE SpecOf(r).home = None /\ n = made[SpecOf(r).kind] + 1 /\ made'[SpecOf(r).kind] = n
      <3>1. CASE \E q \in Named : Uses(q, Generated(n))
        <4>1. PICK q \in Named : Uses(q, Generated(n))
          BY <3>1
        <4>2. PICK k \in {"local", "tmp"} : SpecOf(q).kind = k /\ n <= made[k]
          BY <1>0, <4>1, UsesFit
        <4>3. PICK l \in {"local", "tmp"} : SpecOf(r).kind = l
          BY <1>0, <2>4, SpecTyped
        <4>4. made[l] \in Nat /\ made[k] \in Nat /\ made'[k] \in Nat /\ made'[l] \in Nat /\ made[k] <= made'[k]
          BY <1>0 DEF TypeOK, Grows
        <4>5. n = made[l] + 1 /\ made'[l] = n
          BY <2>4, <4>3
        <4>6. n <= made'[l] /\ n <= made'[k] /\ k # l
          BY <4>2, <4>4, <4>5
        <4>7. n <= made'["local"] /\ n <= made'["tmp"]
          BY <4>6
        <4>8. Twice(Generated(n))'
          BY <4>7 DEF Twice, Generated
        <4> QED
          BY <4>8
      <3>2. CASE ~\E q \in Named : Uses(q, Generated(n))
        BY <2>2, <3>2
      <3> QED
        BY <3>1, <3>2
    <2> QED
      BY <2>2, <2>3, <2>4
  <1> QED
    BY <1>1, <1>2, <1>3 DEF Next

(* -- the handles that are given out ---------------------------------------------------- *)

AnswerTypes == {NoAnswer} \union [profile : Named, handle : Handles]
Correct(p, h) == Suits(p, h) \/ SharesHome(p) \/ Nested(p) \/ Twice(h.place)
AnswersOK ==
    /\ answers \in [Callers -> AnswerTypes]
    /\ \A c \in Callers : answers[c] # NoAnswer => Correct(answers[c].profile, answers[c].handle)

(* A handle of the place, made for whatever profile, is one of the profile  *)
(* or a named exception.                                                    *)
LEMMA CachedSuits ==
  ASSUME TypeOK, TablesFit, JobsOK, OwnerInv, NEW p \in Named, NEW place \in Places, Fits(p, place),
         Uses(p, place), instances[place] # None
  PROVE  instances[place] \in Handles /\ Correct(p, instances[place])
  <1> DEFINE h == instances[place]
  <1>1. h \in Handles
    BY DEF TypeOK
  <1>2. PICK q \in Named : /\ Fits(q, place)
                           /\ h = Handle(q, place) \/ (place.type # "host" /\ h = Reopened(q, place))
    BY DEF TablesFit, HandleFits
  <1>3. /\ h.kind = SpecOf(q).kind
        /\ h.owner = IF place.type = "dir" THEN None ELSE q
        /\ \/ h.place = place
           \/ place.type = "dir" /\ SpecOf(q).kind = "tmp" /\ Base[place.home] # place.home
    BY <1>2, HandleTyped, ReopenedTyped
  <1>4. /\ IF SpecOf(p).home = None THEN SpecOf(p).kind \in {"local", "tmp"} ELSE SpecOf(p).home \in Homes
        /\ IF SpecOf(q).home = None THEN SpecOf(q).kind \in {"local", "tmp"} ELSE SpecOf(q).home \in Homes
    BY SpecTyped
  <1>own. Uses(q, place) \/ place.type = "dir"
    BY <1>3 DEF Uses
  <1> HIDE DEF h
  <1>5. Correct(p, h)
    <2>1. CASE place.type = "generated"
      <3>1. SpecOf(p).home = None /\ SpecOf(q).home = None /\ h.place = place /\ h.owner = q
        BY <1>2, <1>3, <2>1 DEF Fits
      <3>2. PICK n \in Numbers : place = Generated(n)
        BY <2>1 DEF Places
      <3>3. CASE Twice(place)
        BY <3>1, <3>3 DEF Correct
      <3>4. CASE ~Twice(place)
        <4>1. p = q
          BY <1>own, <2>1, <3>2, <3>4 DEF OwnerInv
        <4>2. place.home = None
          BY <3>2 DEF Generated
        <4>3. Suits(p, h)
          BY <1>3, <3>1, <4>1, <4>2 DEF Suits
        <4> QED
          BY <4>3 DEF Correct
      <3> QED
        BY <3>3, <3>4
    <2>2. CASE place.type # "generated"
      <3>1. /\ SpecOf(p).home # None /\ SpecOf(q).home = SpecOf(p).home /\ place.home = SpecOf(p).home
            /\ (SpecOf(q).kind = "ssh") = (SpecOf(p).kind = "ssh")
            /\ (place.type = "host") = (SpecOf(p).kind = "ssh")
        <4>1. SpecOf(p).home # None /\ SpecOf(q).home # None
          BY <1>2, <2>2 DEF Fits
        <4>2. place.home = SpecOf(p).home /\ place.home = SpecOf(q).home
          BY <1>2, <4>1 DEF Fits
        <4>3. /\ place.type = IF SpecOf(p).kind = "ssh" THEN "host" ELSE "dir"
              /\ place.type = IF SpecOf(q).kind = "ssh" THEN "host" ELSE "dir"
          BY <1>2, <4>1 DEF Fits
        <4>4. SpecOf(p).kind = "ssh" \/ SpecOf(p).kind # "ssh"
          OBVIOUS
        <4>5. SpecOf(p).kind = "ssh" <=> SpecOf(q).kind = "ssh"
          BY <4>3
        <4> QED
          BY <4>1, <4>2, <4>3, <4>5
      <3>2. place.type \in {"dir", "host"}
        BY <2>2 DEF Places, Generated
      <3>3. q \in Profiles /\ SpecOf(q) = specs[q]
        BY <3>1 DEF SpecOf, Scratch, Named
      <3>4. CASE q # p /\ (SpecOf(p).kind = "ssh" \/ SpecOf(q).kind # SpecOf(p).kind)
        <4>1. specs[q].home = SpecOf(p).home /\ (specs[q].kind = "ssh") = (SpecOf(p).kind = "ssh")
          BY <3>1, <3>3
        <4>2. specs[q].kind = "ssh" \/ specs[q].kind # SpecOf(p).kind
          BY <3>3, <3>4, <4>1
        <4> QED
          BY <3>1, <3>3, <3>4, <4>1, <4>2 DEF Correct, SharesHome
      <3>5. CASE q = p \/ (SpecOf(p).kind # "ssh" /\ SpecOf(q).kind = SpecOf(p).kind)
        <4>1. h.kind = SpecOf(p).kind /\ h.owner \in {None, p}
          BY <1>3, <3>1, <3>2, <3>5
        <4>2. CASE h.place = place
          BY <3>1, <4>1, <4>2 DEF Correct, Suits
        <4>3. CASE h.place # place
          BY <1>3, <3>1, <4>1, <4>3 DEF Correct, Nested
        <4> QED
          BY <4>2, <4>3
      <3> QED
        BY <3>4, <3>5
    <2> QED
      BY <2>1, <2>2
  <1> QED
    BY <1>1, <1>5 DEF h

LEMMA MadeSuits ==
  ASSUME TypeOK, NEW p \in Named, NEW place \in Places, Fits(p, place)
  PROVE  /\ Handle(p, place) \in Handles /\ Correct(p, Handle(p, place))
         /\ place.type # "host" => Reopened(p, place) \in Handles /\ Correct(p, Reopened(p, place))
  <1>1. place.home = SpecOf(p).home
    <2>1. CASE SpecOf(p).home = None
      <3>1. place.type = "generated"
        BY <2>1 DEF Fits
      <3> QED
        BY <2>1, <3>1 DEF Places, Generated
    <2>2. CASE SpecOf(p).home # None
      BY <2>2 DEF Fits
    <2> QED
      BY <2>1, <2>2
  <1>2. Suits(p, Handle(p, place)) /\ Handle(p, place) \in Handles
    BY <1>1, HandleTyped DEF Suits
  <1>3. Reopened(p, place) \in Handles
    BY ReopenedTyped
  <1>4. CASE Reopened(p, place).place = place
    BY <1>1, <1>2, <1>3, <1>4, ReopenedTyped DEF Correct, Suits
  <1>5. CASE Reopened(p, place).place # place
    <2>1. SpecOf(p).kind = "tmp" /\ Base[place.home] # place.home /\ place.type = "dir"
      BY <1>5, ReopenedTyped
    <2>2. Nested(p)
      BY <1>1, <2>1 DEF Nested, Fits
    <2> QED
      BY <1>2, <1>3, <2>2 DEF Correct
  <1> QED
    BY <1>4, <1>5

LEMMA CorrectStays ==
  ASSUME TypeOK, Grows, NEW p \in Named, NEW h \in Handles, Correct(p, h)
  PROVE  Correct(p, h)'
  <1>1. \A q : SpecOf(q)' = SpecOf(q)
    BY DEF SpecOf, Grows
  <1>2. h.place \in Places
    BY DEF Handles
  <1>3. Twice(h.place) => Twice(h.place)'
    BY <1>2, TwiceStays
  <1>4. Suits(p, h) => Suits(p, h)'
    BY <1>1 DEF Suits
  <1>5. SharesHome(p) => SharesHome(p)'
    BY <1>1 DEF SharesHome, Grows
  <1>6. Nested(p) => Nested(p)'
    BY <1>1 DEF Nested
  <1> QED
    BY <1>3, <1>4, <1>5, <1>6 DEF Correct

LEMMA AnswersStay ==
  ASSUME TypeOK, Grows, AnswersOK, answers' \in [Callers -> AnswerTypes],
         \A c \in Callers : \/ answers'[c] = answers[c]
                            \/ Correct(answers'[c].profile, answers'[c].handle)
  PROVE  AnswersOK'
  <1> SUFFICES ASSUME NEW c \in Callers, answers'[c] # NoAnswer
               PROVE  \A p, h : p = answers'[c].profile /\ h = answers'[c].handle => Correct(p, h)'
    BY DEF AnswersOK, AnswerTypes, NoAnswer
  <1>1. answers'[c].profile \in Named /\ answers'[c].handle \in Handles
    BY DEF AnswerTypes
  <1>2. Correct(answers'[c].profile, answers'[c].handle)
    BY DEF AnswersOK
  <1> QED
    BY <1>1, <1>2, CorrectStays

LEMMA AnswerSuits ==
  ASSUME TypeOK, Grows, AnswersOK, NEW c \in Callers, NEW p \in Named, NEW h \in Handles,
         Correct(p, h), Answer(c, p, h)
  PROVE  AnswersOK'
  <1> DEFINE a == [profile |-> p, handle |-> h]
  <1>1. a \in AnswerTypes /\ a.profile = p /\ a.handle = h
    BY DEF AnswerTypes
  <1>2. answers' = [answers EXCEPT ![c] = a]
    BY DEF Answer
  <1> HIDE DEF a
  <1>3. answers' \in [Callers -> AnswerTypes]
    BY <1>1, <1>2 DEF AnswersOK
  <1>4. \A d \in Callers : answers'[d] = answers[d] \/ Correct(answers'[d].profile, answers'[d].handle)
    BY <1>1, <1>2 DEF AnswersOK
  <1>5. QED
    BY <1>3, <1>4, AnswersStay

LEMMA NoAnswerChange ==
  ASSUME TypeOK, Grows, AnswersOK, UNCHANGED answers
  PROVE  AnswersOK'
  BY AnswersStay DEF AnswersOK

LEMMA OpensSuits ==
  ASSUME TypeOK, TablesFit, JobsOK, OwnerInv, Grows, AnswersOK, NEW c \in Callers, NEW op, NEW id \in Numbers,
         Recorded(id), Opens(c, op, id, records[id].profile)
  PROVE  AnswersOK'
  <1> DEFINE place == records[id].place
             p == records[id].profile
  <1>1. p \in Named /\ place \in Places /\ Fits(p, place)
    BY DEF TypeOK, TablesFit, Recorded, Records, Named
  <1>used. Uses(p, place)
    BY DEF Uses
  <1>2. CASE instances[place] # None
    <2>1. Answer(c, p, instances[place])
      BY <1>2 DEF Opens
    <2> HIDE DEF place, p
    <2> QED
      BY <1>1, <1>2, <1>used, <2>1, CachedSuits, AnswerSuits
  <1>3. CASE instances[place] = None
    BY <1>3, NoAnswerChange DEF Opens
  <1>4. QED
    BY <1>2, <1>3

LEMMA AnswerStep == SandboxInv /\ OwnerInv /\ AnswersOK /\ [Next]_vars => AnswersOK'
  <1> SUFFICES ASSUME SandboxInv, OwnerInv, AnswersOK, [Next]_vars
               PROVE  AnswersOK'
    OBVIOUS
  <1>0. TypeOK /\ TablesFit /\ JobsOK /\ NumberInv /\ Grows
    BY StepGrows DEF SandboxInv
  <1>1. CASE UNCHANGED vars \/ \E n \in Numbers : LetGo(n)
    BY <1>0, <1>1, NoAnswerChange DEF vars, LetGo
  <1>2. ASSUME NEW c \in Callers, Step(c)
        PROVE  AnswersOK'
    <2>2. JobOK(pc[c], job[c]) /\ job[c].place \in Places \union {None}
      BY <1>0 DEF JobsOK, Jobs
    <2>3. CASE \E p \in Profiles : Acquire(c, p)
      <3>1. PICK p \in Profiles : Acquire(c, p)
        BY <2>3
      <3>2. CASE Cached(p) # None
        <4>1. names[p] # None /\ Cached(p) = instances[names[p]]
          BY <3>2 DEF Cached
        <4>2. names[p] \in Places /\ Fits(p, names[p]) /\ p \in Named
          BY <1>0, <4>1 DEF TypeOK, TablesFit, Named
        <4>used. Uses(p, names[p])
          BY DEF Uses
        <4>3. Answer(c, p, instances[names[p]])
          BY <3>1, <3>2, <4>1 DEF Acquire
        <4> QED
          BY <1>0, <3>2, <4>1, <4>2, <4>used, <4>3, CachedSuits, AnswerSuits
      <3>3. CASE Cached(p) = None
        BY <1>0, <3>1, <3>3, NoAnswerChange DEF Acquire
      <3> QED
        BY <3>2, <3>3
    <2>4. CASE Cache(c)
      <3>1. job[c].place \in Places /\ Fits(job[c].profile, job[c].place)
        BY <2>2, <2>4 DEF Cache, JobOK
      <3>2. CASE job[c].op = "default"
        <4>1. job[c].profile = Default /\ Default \in Named
          BY <2>2, <2>4, <3>2 DEF Cache, JobOK, Named
        <4>2. Answer(c, Default, Handle(Default, job[c].place))
          BY <2>4, <3>2 DEF Cache
        <4> QED
          BY <1>0, <3>1, <4>1, <4>2, MadeSuits, AnswerSuits
      <3>3. CASE job[c].op # "default"
        BY <1>0, <2>4, <3>3, NoAnswerChange DEF Cache
      <3> QED
        BY <3>2, <3>3
    <2>5. CASE Name(c)
      <3>1. job[c].place \in Places /\ Fits(job[c].profile, job[c].place) /\ job[c].profile \in Named
        BY <2>2, <2>5 DEF Name, JobOK, Named
      <3>2. CASE job[c].op = "acquire"
        <4>1. Answer(c, job[c].profile, Handle(job[c].profile, job[c].place))
          BY <2>5, <3>2 DEF Name
        <4> QED
          BY <1>0, <3>1, <4>1, MadeSuits, AnswerSuits
      <3>3. CASE job[c].op # "acquire"
        BY <1>0, <2>5, <3>3, NoAnswerChange DEF Name
      <3> QED
        BY <3>2, <3>3
    <2>6. CASE Load(c)
      <3>1. job[c].place \in Places /\ Fits(job[c].profile, job[c].place) /\ job[c].profile \in Named
        BY <2>2, <2>6 DEF Load, JobOK
      <3>2. CASE job[c].place.type # "host"
        <4>1. Answer(c, job[c].profile, Reopened(job[c].profile, job[c].place))
          BY <2>6, <3>2 DEF Load
        <4> QED
          BY <1>0, <3>1, <3>2, <4>1, MadeSuits, AnswerSuits
      <3>3. CASE job[c].place.type = "host"
        BY <1>0, <2>6, <3>3, NoAnswerChange DEF Load
      <3> QED
        BY <3>2, <3>3
    <2>7. CASE \E id \in Numbers : Get(c, id)
      BY <1>0, <2>7, OpensSuits DEF Get
    <2>8. CASE OpenDefault(c)
      <3>1. job[c].id \in Numbers /\ pc[c] = "open"
        BY <2>2, <2>8 DEF OpenDefault, JobOK
      <3>2. CASE Recorded(job[c].id)
        <4>1. records[job[c].id].profile = Default
          BY <1>0, <3>1, <3>2 DEF NumberInv, Recorded
        <4>2. Opens(c, "default", job[c].id, Default)
          BY <2>8, <3>2 DEF OpenDefault
        <4> QED
          BY <1>0, <3>1, <3>2, <4>1, <4>2, OpensSuits
      <3>3. CASE ~Recorded(job[c].id)
        BY <1>0, <2>8, <3>3, NoAnswerChange DEF OpenDefault
      <3> QED
        BY <3>2, <3>3
    <2>9. CASE UNCHANGED answers
      BY <1>0, <2>9, NoAnswerChange
    <2>10. QED
      BY <1>2, <2>3, <2>4, <2>5, <2>6, <2>7, <2>8, <2>9
         DEF Step, Create, Register, Make, MakeFails, Insert, Inline, AskDefault, Lock, Find, Power, UpdateStatus,
             Destroy, Raze, RazeFails, Evict, Unname, Delete
  <1>3. QED
    BY <1>1, <1>2 DEF Next

(* Whoever asks for a profile gets a sandbox of its settings (manager.rs    *)
(* acquire_by_name, get and default), unless another profile has the same   *)
(* key in the cache, a generated name was given twice, or a nested sub_dir  *)
(* was reopened.                                                            *)
THEOREM RightSandboxHolds == Spec => []RightSandbox
  <1>1. Init => SandboxInv /\ OwnerInv /\ AnswersOK
    <2>1. Init => AnswersOK
      BY DEF Init, AnswersOK, AnswerTypes
    <2>2. Init => OwnerInv
      <3> SUFFICES ASSUME Init, NEW n \in Numbers, NEW p \in Named
                   PROVE  ~Uses(p, Generated(n))
        BY DEF OwnerInv
      <3>1. Generated(n) # None /\ Generated(n) \in Places
        BY GeneratedTyped
      <3> QED
        BY <3>1 DEF Init, Uses, Recorded, Rest
    <2> QED
      BY <2>1, <2>2, SandboxInit
  <1>2. SandboxInv /\ OwnerInv /\ AnswersOK /\ [Next]_vars
        => (SandboxInv /\ OwnerInv /\ AnswersOK)'
    BY SandboxStep, OwnerStep, AnswerStep
  <1>3. AnswersOK => RightSandbox
    BY DEF AnswersOK, RightSandbox, Correct
  <1>4. QED
    BY <1>1, <1>2, <1>3, PTL DEF Spec

(* -- the directories of temporary sandboxes --------------------------------------------- *)

(* A table or an operation leads to the temporary sandbox there.            *)
HasTmp(place) ==
    \/ Leads(place)
    \/ \E c \in Callers : job[c].place = place /\ SpecOf(job[c].profile).kind = "tmp"

(* Nobody but the destroy of c, and no record but the one it is about to    *)
(* delete, concerns the place.                                              *)
Alone(c, place) ==
    /\ \A v \in Callers \ {c} : job[v].place # place
    /\ \A id \in Numbers \ {job[c].id} : Recorded(id) => records[id].place # place

DestroyAt(c, place) ==
    /\ Alone(c, place)
    /\ pc[c] = "raze" /\ SpecOf(job[c].profile).kind = "tmp" => place \in dirs
    /\ pc[c] \in {"unname", "delete"} => instances[place] = None
    /\ pc[c] = "delete" => \A p \in Profiles : names[p] # place

DirAt(place) ==
    /\ ~Destroying(place) /\ HasTmp(place) => place \in dirs
    /\ \A c \in Callers : pc[c] \in Razing /\ job[c].place = place => DestroyAt(c, place)

(* A directory that nobody else concerned while it was destroyed exists as  *)
(* long as anything leads to it; its destroy, alone with it, takes the      *)
(* handle, the names and the record away in turn.                           *)
DirInv == \A place \in Places \ raced : Twice(place) \/ DirAt(place)

LEMMA BecomesMoves ==
  ASSUME JobsOK, NEW c \in Callers, NEW where, NEW what, Becomes(c, where, what)
  PROVE  /\ pc'[c] = where /\ job'[c] = what
         /\ \A v \in Callers \ {c} : pc'[v] = pc[v] /\ job'[v] = job[v]
  BY DEF JobsOK, Becomes

(* What a step of c does to the tables at a place, with what it had in hand *)
(* there.                                                                   *)
Keeps(c, place) ==
    /\ \/ job'[c].place # place
       \/ job[c].place = place /\ job'[c].profile = job[c].profile
    /\ \/ instances'[place] \in {None, instances[place]}
       \/ job[c].place = place /\ instances'[place].kind = SpecOf(job[c].profile).kind
    /\ \A p \in Profiles : names'[p] = place =>
          names[p] = place \/ (job[c].place = place /\ job[c].profile = p)
    /\ \A id \in Numbers : records'[id] # None /\ records'[id].place = place =>
          \/ records[id] # None /\ records[id].place = place /\ records'[id].profile = records[id].profile
          \/ job[c].place = place /\ records'[id].profile = job[c].profile

LEMMA KeepsTmp ==
  ASSUME NEW place \in Places, NEW c \in Callers, specs' = specs, Keeps(c, place),
         \A v \in Callers \ {c} : job'[v] = job[v],
         HasTmp(place)'
  PROVE  HasTmp(place)
  <1>1. \A p : SpecOf(p)' = SpecOf(p)
    BY DEF SpecOf
  <1>2. \A p \in Profiles : SpecOf(p) = specs[p]
    BY DEF SpecOf
  <1>3. CASE instances'[place] # None /\ instances'[place].kind = "tmp"
    BY <1>3 DEF Keeps, HasTmp, Leads
  <1>4. CASE \E p \in Profiles : names'[p] = place /\ specs'[p].kind = "tmp"
    BY <1>2, <1>4 DEF Keeps, HasTmp, Leads
  <1>5. CASE \E id \in Numbers : records'[id] # None /\ records'[id].place = place
                                 /\ SpecOf(records'[id].profile).kind = "tmp"
    BY <1>5 DEF Keeps, HasTmp, Leads, Recorded
  <1>6. CASE \E v \in Callers : job'[v].place = place /\ SpecOf(job'[v].profile).kind = "tmp"
    BY <1>6 DEF Keeps, HasTmp
  <1>7. \A id \in Numbers : SpecOf(records[id].profile)' = SpecOf(records'[id].profile)
    BY DEF SpecOf
  <1>8. \A v \in Callers : SpecOf(job[v].profile)' = SpecOf(job'[v].profile)
    BY DEF SpecOf
  <1> QED
    BY <1>3, <1>4, <1>5, <1>6, <1>7, <1>8 DEF HasTmp, Leads, Recorded

(* A step of c that brings nothing new to the place, and is no part of its  *)
(* destroy.                                                                 *)
LEMMA DirStays ==
  ASSUME NEW place \in Places, DirAt(place), NEW c \in Callers, specs' = specs, Keeps(c, place),
         \A v \in Callers \ {c} : pc'[v] = pc[v] /\ job'[v] = job[v],
         pc[c] \in Razing => job[c].place # place,
         pc'[c] \in Razing => job'[c].place # place,
         place \in dirs => place \in dirs'
  PROVE  DirAt(place)'
  <1>1. Destroying(place)' <=> Destroying(place)
    BY DEF Destroying, Razing
  <1>2. HasTmp(place)' => HasTmp(place)
    BY KeepsTmp
  <1>3. ~Destroying(place)' /\ HasTmp(place)' => place \in dirs'
    BY <1>1, <1>2 DEF DirAt
  <1>4. ASSUME NEW v \in Callers, pc'[v] \in Razing, job'[v].place = place
        PROVE  DestroyAt(v, place)'
    <2>1. v # c /\ pc'[v] = pc[v] /\ job'[v] = job[v]
      BY <1>4
    <2>2. DestroyAt(v, place)
      BY <1>4, <2>1 DEF DirAt
    <2>3. job[c].place # place
      BY <2>1, <2>2 DEF DestroyAt, Alone
    <2>4. Alone(v, place)'
      BY <2>1, <2>2, <2>3 DEF DestroyAt, Alone, Recorded, Keeps
    <2>5. SpecOf(job[v].profile)' = SpecOf(job[v].profile)
      BY <2>1 DEF SpecOf
    <2> QED
      BY <2>1, <2>2, <2>3, <2>4, <2>5 DEF DestroyAt, Keeps
  <1> QED
    BY <1>3, <1>4 DEF DirAt

(* A step that brings c to a place that nobody destroys and that exists.    *)
LEMMA DirArrives ==
  ASSUME NEW place \in Places, NEW c \in Callers, ~Destroying(place),
         \A v \in Callers \ {c} : pc'[v] = pc[v] /\ job'[v] = job[v],
         pc'[c] \notin Razing, HasTmp(place)' => place \in dirs'
  PROVE  DirAt(place)'
  <1>1. \A v \in Callers : ~(pc'[v] \in Razing /\ job'[v].place = place)
    BY DEF Destroying, Razing
  <1> QED
    BY <1>1 DEF DirAt

(* A step that leaves the tables and the directories alone, and ends or     *)
(* begins an operation that has no place.                                   *)
LEMMA DirQuiet ==
  ASSUME NEW place \in Places, DirAt(place), JobsOK, NEW c \in Callers, specs' = specs,
         pc[c] \in Razing => job[c].place # place,
         UNCHANGED <<instances, names, records, dirs>>,
         Ends(c) \/ UNCHANGED <<pc, job>>
  PROVE  DirAt(place)'
  <1>1. place # None
    BY NoneIsNoPlace
  <1>2. \A v \in Callers \ {c} : pc'[v] = pc[v] /\ job'[v] = job[v]
    BY DEF Ends, Becomes, JobsOK
  <1>3. job'[c].place = None \/ job'[c] = job[c]
    BY DEF Ends, Becomes, JobsOK, Rest
  <1>4. pc'[c] \in Razing => pc'[c] = pc[c] /\ job'[c] = job[c]
    BY DEF Ends, Becomes, JobsOK, Razing
  <1>5. Keeps(c, place)
    BY <1>1, <1>3 DEF Keeps
  <1> QED
    BY <1>2, <1>4, <1>5, DirStays

(* The same, of a step on which c goes on with no new place.                *)
LEMMA DirGoesOn ==
  ASSUME NEW place \in Places, DirAt(place), JobsOK, NEW c \in Callers, specs' = specs, pc[c] \notin Razing,
         UNCHANGED <<instances, names, records, dirs>>,
         NEW where, where \notin Razing, NEW what, Becomes(c, where, what),
         what.place = None \/ (what.place = job[c].place /\ what.profile = job[c].profile)
  PROVE  DirAt(place)'
  <1>1. place # None
    BY NoneIsNoPlace
  <1>2. /\ pc'[c] = where /\ job'[c] = what
        /\ \A v \in Callers \ {c} : pc'[v] = pc[v] /\ job'[v] = job[v]
    BY BecomesMoves
  <1>3. Keeps(c, place)
    BY <1>1, <1>2 DEF Keeps
  <1> QED
    BY <1>2, <1>3, DirStays

(* An operation that opens a recorded sandbox goes there only if nobody is  *)
(* destroying it.                                                           *)
LEMMA DirOpens ==
  ASSUME NEW place \in Places \ raced', DirAt(place), JobsOK, NEW c \in Callers,
         pc[c] \notin Razing, UNCHANGED Tables,
         NEW op, NEW id \in Numbers, Recorded(id), Opens(c, op, id, records[id].profile)
  PROVE  DirAt(place)'
  <1>0. UNCHANGED <<specs, instances, names, records, dirs>>
    BY DEF Tables, Directories
  <1>1. CASE Ends(c)
    BY <1>0, <1>1, DirQuiet
  <1>2. CASE ~Ends(c)
    <2> DEFINE p == records[id].profile
               what == [Rest EXCEPT !.op = op, !.id = id, !.place = records[id].place, !.profile = p]
    <2>1. /\ Becomes(c, "load", what)
          /\ raced' = Races(records[id].place)
      BY <1>2 DEF Opens
    <2>2. /\ pc'[c] = "load" /\ job'[c] = what
          /\ \A v \in Callers \ {c} : pc'[v] = pc[v] /\ job'[v] = job[v]
      BY <2>1, BecomesMoves
    <2>3. what.place = records[id].place /\ what.profile = p
      BY DEF Rest
    <2> HIDE DEF what
    <2>4. CASE records[id].place = place
      <3>1. ~Destroying(place)
        BY <2>1, <2>4 DEF Races
      <3>2. HasTmp(place)' => HasTmp(place)
        <4>1. \A q : SpecOf(q)' = SpecOf(q)
          BY <1>0 DEF SpecOf
        <4>2. SpecOf(job[c].profile)' = SpecOf(p)
          BY <1>0, <2>2, <2>3 DEF SpecOf
        <4>3. \A v \in Callers \ {c} : SpecOf(job[v].profile)' = SpecOf(job[v].profile)
          BY <1>0, <2>2 DEF SpecOf
        <4>4. Leads(place)' => Leads(place)
          BY <1>0 DEF Leads, Recorded, SpecOf
        <4>5. CASE SpecOf(p).kind = "tmp"
          BY <2>4, <4>5 DEF HasTmp, Leads
        <4>6. CASE SpecOf(p).kind # "tmp"
          BY <2>2, <4>2, <4>3, <4>4, <4>6 DEF HasTmp
        <4> QED
          BY <4>5, <4>6
      <3>3. HasTmp(place)' => place \in dirs'
        BY <1>0, <3>1, <3>2 DEF DirAt
      <3> QED
        BY <2>2, <3>1, <3>3, DirArrives DEF Razing
    <2>5. CASE records[id].place # place
      <3>1. Keeps(c, place)
        BY <1>0, <2>2, <2>3, <2>5 DEF Keeps
      <3> QED
        BY <1>0, <2>2, <2>3, <2>5, <3>1, DirStays DEF Razing
    <2> QED
      BY <2>4, <2>5
  <1> QED
    BY <1>1, <1>2

(* The steps of a destroy of the place itself.                              *)
LEMMA DirDestroy ==
  ASSUME NEW place \in Places, DirAt(place), TypeOK, JobsOK, NEW c \in Callers, specs' = specs,
         pc[c] \in Razing, job[c].place = place,
         Raze(c) \/ RazeFails(c) \/ Evict(c) \/ Unname(c) \/ Delete(c)
  PROVE  DirAt(place)'
  <1>1. /\ \A v \in Callers \ {c} : job[v].place # place
        /\ \A id \in Numbers \ {job[c].id} : Recorded(id) => records[id].place # place
        /\ pc[c] = "raze" /\ SpecOf(job[c].profile).kind = "tmp" => place \in dirs
        /\ pc[c] \in {"unname", "delete"} => instances[place] = None
        /\ pc[c] = "delete" => \A p \in Profiles : names[p] # place
    BY DEF DirAt, DestroyAt, Alone
  <1>2. ASSUME NEW where \in Razing \ {"raze"}, Moves(c, where), records' = records,
               where \in {"unname", "delete"} => instances'[place] = None,
               where = "delete" => \A p \in Profiles : names'[p] # place
        PROVE  DirAt(place)'
    <2>1. pc'[c] = where /\ job' = job /\ \A v \in Callers \ {c} : pc'[v] = pc[v]
      BY <1>2 DEF Moves, JobsOK
    <2>2. Destroying(place)'
      BY <2>1 DEF Destroying, Razing
    <2>3. Alone(c, place)'
      BY <1>1, <1>2, <2>1 DEF Alone, Recorded
    <2>4. \A v \in Callers : job'[v].place = place => v = c
      BY <1>1, <2>1
    <2>5. DestroyAt(c, place)'
      BY <1>2, <2>1, <2>3 DEF DestroyAt
    <2> QED
      BY <2>2, <2>4, <2>5 DEF DirAt
  <1>3. ASSUME Ends(c),
               \/ place \in dirs'
               \/ /\ instances'[place] = None /\ \A p \in Profiles : names'[p] # place
                  /\ \A id \in Numbers : Recorded(id)' => records'[id].place # place
        PROVE  DirAt(place)'
    <2>1. /\ job'[c] = Rest /\ \A v \in Callers \ {c} : job'[v] = job[v]
      BY <1>3 DEF Ends, Becomes, JobsOK
    <2>2. Rest.place = None /\ place # None
      BY NoneIsNoPlace DEF Rest
    <2>3. \A v \in Callers : job'[v].place # place
      BY <1>1, <2>1, <2>2
    <2> QED
      BY <1>3, <2>3 DEF DirAt, HasTmp, Leads
  <1>4. CASE Raze(c)
    BY <1>2, <1>4 DEF Raze, Razing
  <1>5. CASE RazeFails(c)
    BY <1>1, <1>3, <1>5 DEF RazeFails, Tables, Directories
  <1>6. CASE Evict(c)
    <2>1. instances'[place] = None
      BY <1>6 DEF Evict, TypeOK
    <2> QED
      BY <1>2, <1>6, <2>1 DEF Evict, Razing
  <1>7. CASE Unname(c)
    <2>1. \A p \in Profiles : names'[p] # place
      BY <1>7, NoneIsNoPlace DEF Unname
    <2> QED
      BY <1>1, <1>2, <1>7, <2>1 DEF Unname, Razing
  <1>8. CASE Delete(c)
    <2>1. \A id \in Numbers : Recorded(id)' => records'[id].place # place
      BY <1>1, <1>8 DEF Delete, Recorded, TypeOK
    <2> QED
      BY <1>1, <1>3, <1>8, <2>1 DEF Delete
  <1> QED
    BY <1>4, <1>5, <1>6, <1>7, <1>8

LEMMA TmpNumbers ==
  ASSUME SandboxInv, NEW n \in Numbers, HasTmp(Generated(n))
  PROVE  n <= made["tmp"]
  <1> DEFINE place == Generated(n)
  <1>0. TypeOK /\ TablesFit /\ JobsOK
    BY DEF SandboxInv
  <1>1. place \in Places /\ place # None /\ place.type = "generated"
    BY GeneratedTyped
  <1> SUFFICES \E p \in Named : SpecOf(p).kind = "tmp" /\ Uses(p, place)
    BY <1>0, UsesFit
  <1> HIDE DEF place
  <1>2. CASE instances[place] # None /\ instances[place].kind = "tmp"
    <2>1. PICK q \in Named : instances[place] = Handle(q, place) \/ instances[place] = Reopened(q, place)
      BY <1>0, <1>1, <1>2 DEF TablesFit, HandleFits
    <2>2. instances[place].owner = q /\ instances[place].kind = SpecOf(q).kind
      BY <1>0, <1>1, <2>1, HandleTyped, ReopenedTyped
    <2> QED
      BY <1>2, <2>2 DEF Uses
  <1>3. CASE \E p \in Profiles : names[p] = place /\ specs[p].kind = "tmp"
    BY <1>3 DEF Uses, SpecOf, Named
  <1>4. CASE \E id \in Numbers : Recorded(id) /\ records[id].place = place
                                 /\ SpecOf(records[id].profile).kind = "tmp"
    <2>1. \A id \in Numbers : Recorded(id) => records[id].profile \in Named
      BY <1>0 DEF TypeOK, Recorded, Records, Named
    <2> QED
      BY <1>4, <2>1 DEF Uses
  <1>5. CASE \E c \in Callers : job[c].place = place /\ SpecOf(job[c].profile).kind = "tmp"
    <2>1. \A c \in Callers : job[c].place = place => job[c].profile \in Named
      BY <1>0, <1>1 DEF JobsOK, JobOK
    <2> QED
      BY <1>5, <2>1 DEF Uses
  <1> QED
    BY <1>2, <1>3, <1>4, <1>5 DEF HasTmp, Leads, place

(* A directory that goes with the handle of a local sandbox is that of no   *)
(* temporary one, unless both got the name.                                 *)
LEMMA DirLetGo ==
  ASSUME SandboxInv, NEW n \in Numbers, LetGo(n), NEW place \in Places, DirAt(place), ~Twice(place)
  PROVE  DirAt(place)'
  <1>1. /\ UNCHANGED <<specs, records, instances, names, pc, job>> /\ n <= made["local"]
        /\ dirs' = dirs \ {Generated(n)}
    BY DEF LetGo, SandboxInv, TypeOK
  <1>2. /\ HasTmp(place)' <=> HasTmp(place)
        /\ Destroying(place)' <=> Destroying(place)
        /\ \A c \in Callers : Alone(c, place)' <=> Alone(c, place)
    BY <1>1 DEF HasTmp, Leads, Destroying, Alone, Recorded, SpecOf
  <1>3. HasTmp(place) /\ place \in dirs => place \in dirs'
    <2>1. CASE place = Generated(n)
      BY <1>1, <2>1, TmpNumbers, GeneratedTyped DEF Twice
    <2>2. CASE place # Generated(n)
      BY <1>1, <2>2
    <2> QED
      BY <2>1, <2>2
  <1>4. ASSUME NEW c \in Callers, DestroyAt(c, place), job[c].place = place
        PROVE  DestroyAt(c, place)'
    <2>1. SpecOf(job[c].profile)' = SpecOf(job[c].profile)
      BY <1>1 DEF SpecOf
    <2>2. SpecOf(job[c].profile).kind = "tmp" => HasTmp(place)
      BY <1>4 DEF HasTmp
    <2> QED
      BY <1>1, <1>2, <1>3, <1>4, <2>1, <2>2 DEF DestroyAt
  <1> QED
    BY <1>1, <1>2, <1>3, <1>4 DEF DirAt

(* A sandbox is made where nobody destroys one.                             *)
LEMMA DirBuilds ==
  ASSUME NEW place \in Places \ raced', DirAt(place), JobsOK, NEW c \in Callers, specs' = specs,
         pc[c] \notin Razing, UNCHANGED <<instances, names, records>>,
         NEW s, Builds(s), raced' = Races(Place(s)),
         NEW where, where \notin Razing, NEW what, Becomes(c, where, what),
         what.place = Place(s), SpecOf(what.profile) = s
  PROVE  DirAt(place)'
  <1>1. /\ pc'[c] = where /\ job'[c] = what
        /\ \A v \in Callers \ {c} : pc'[v] = pc[v] /\ job'[v] = job[v]
    BY BecomesMoves
  <1>2. dirs' = IF s.kind = "tmp" THEN dirs \union {Place(s)} ELSE dirs
    BY DEF Builds
  <1>3. CASE Place(s) = place
    <2>1. ~Destroying(place)
      BY <1>3 DEF Races
    <2>2. CASE s.kind = "tmp"
      BY <1>1, <1>2, <1>3, <2>1, <2>2, DirArrives
    <2>3. CASE s.kind # "tmp"
      <3>1. \A q : SpecOf(q)' = SpecOf(q)
        BY DEF SpecOf
      <3>2. SpecOf(job[c].profile)' = s
        BY <1>1 DEF SpecOf
      <3>3. \A v \in Callers \ {c} : SpecOf(job[v].profile)' = SpecOf(job[v].profile)
        BY <1>1 DEF SpecOf
      <3>4. Leads(place)' => Leads(place)
        BY DEF Leads, Recorded, SpecOf
      <3>5. HasTmp(place)' => HasTmp(place)
        BY <1>1, <2>3, <3>2, <3>3, <3>4 DEF HasTmp
      <3>6. HasTmp(place)' => place \in dirs'
        BY <1>2, <2>1, <3>5 DEF DirAt
      <3> QED
        BY <1>1, <2>1, <3>6, DirArrives
    <2> QED
      BY <2>2, <2>3
  <1>4. CASE Place(s) # place
    <2>1. Keeps(c, place)
      BY <1>1, <1>4 DEF Keeps
    <2> QED
      BY <1>1, <1>2, <1>4, <2>1, DirStays
  <1> QED
    BY <1>3, <1>4

LEMMA DirStep ==
  ASSUME SandboxInv, NEW c \in Callers, Step(c), specs' = specs,
         NEW place \in Places \ raced', DirAt(place)
  PROVE  DirAt(place)'
  <1>1. TypeOK /\ JobsOK /\ JobOK(pc[c], job[c]) /\ place # None
    BY NoneIsNoPlace DEF SandboxInv, JobsOK
  <1>2. Rest.place = None
    BY DEF Rest
  <1>3. ASSUME NEW p \in Profiles, Acquire(c, p)
        PROVE  DirAt(place)'
    <2> DEFINE what == [Rest EXCEPT !.op = "acquire", !.profile = p]
    <2>1. /\ UNCHANGED <<pc, job>> \/ Becomes(c, "make", what)
          /\ UNCHANGED <<instances, names, records, dirs>> /\ pc[c] = "idle"
      BY <1>3 DEF Acquire, Begin, Tables, Directories
    <2>2. what.place = None
      BY DEF Rest
    <2> HIDE DEF what
    <2> QED
      BY <1>1, <2>1, <2>2, DirQuiet, DirGoesOn DEF Razing
  <1>4. ASSUME NEW p \in Profiles, Create(c, p)
        PROVE  DirAt(place)'
    <2> DEFINE what == [Rest EXCEPT !.op = "create", !.profile = p, !.n = ops + 1]
    <2>1. Becomes(c, "make", what) /\ UNCHANGED <<instances, names, records, dirs>> /\ pc[c] = "idle"
      BY <1>4 DEF Create, Begin, Tables, Directories
    <2>2. what.place = None
      BY DEF Rest
    <2> HIDE DEF what
    <2> QED
      BY <1>1, <2>1, <2>2, DirGoesOn DEF Razing
  <1>5. ASSUME NEW p \in Profiles, Register(c, p)
        PROVE  DirAt(place)'
    <2> DEFINE s == specs[p]
               what == [Rest EXCEPT !.op = "create", !.profile = p, !.n = ops + 1, !.place = Place(s)]
    <2>1. /\ Becomes(c, "record", what) /\ UNCHANGED <<instances, names, records>> /\ pc[c] = "idle"
          /\ Builds(s) /\ raced' = Races(Place(s))
      BY <1>5 DEF Register, Begin
    <2>2. what.place = Place(s) /\ what.profile = p
      BY DEF Rest
    <2>3. SpecOf(p) = s
      BY DEF SpecOf
    <2> HIDE DEF what, s
    <2> QED
      BY <1>1, <2>1, <2>2, <2>3, DirBuilds DEF Razing
  <1>6. CASE Make(c)
    <2> DEFINE s == SpecOf(job[c].profile)
               where == IF job[c].op = "acquire" THEN "cache" ELSE "record"
               what == [job[c] EXCEPT !.place = Place(s)]
    <2>1. /\ Becomes(c, where, what) /\ UNCHANGED <<instances, names, records>> /\ pc[c] = "make"
          /\ Builds(s) /\ raced' = Races(Place(s))
      BY <1>6 DEF Make
    <2>2. what.place = Place(s) /\ what.profile = job[c].profile
      BY <1>1 DEF JobsOK, Jobs
    <2>3. SpecOf(what.profile) = s /\ where \notin Razing
      BY <2>2 DEF Razing
    <2> HIDE DEF what, s, where
    <2> QED
      BY <1>1, <2>1, <2>2, <2>3, DirBuilds DEF Razing
  <1>7. CASE MakeFails(c)
    BY <1>1, <1>7, DirQuiet DEF MakeFails, Tables, Directories, Razing
  <1>8. CASE Insert(c)
    <2>1. \A id \in Numbers : records'[id] = IF id = job[c].n
             THEN [profile |-> job[c].profile, place |-> job[c].place, status |-> "running"]
             ELSE records[id]
      BY <1>1, <1>8 DEF Insert, TypeOK
    <2>2. pc[c] = "record" /\ pc'[c] = "cache" /\ job' = job /\ \A v \in Callers \ {c} : pc'[v] = pc[v]
      BY <1>1, <1>8 DEF Insert, Moves, JobsOK
    <2>3. UNCHANGED <<instances, names, dirs>>
      BY <1>8 DEF Insert, Directories
    <2>4. Keeps(c, place)
      BY <2>1, <2>2, <2>3 DEF Keeps
    <2> QED
      BY <2>2, <2>3, <2>4, DirStays DEF Razing
  <1>9. ASSUME pc[c] \notin Razing, Ends(c) \/ Moves(c, "name"), UNCHANGED <<records, dirs>>,
               \/ instances' = instances
               \/ \E h : h.kind = SpecOf(job[c].profile).kind
                         /\ instances' = [instances EXCEPT ![job[c].place] = h],
               names' \in {names, [names EXCEPT ![job[c].profile] = job[c].place]}
        PROVE  DirAt(place)'
    <2>1. /\ pc'[c] \in {"idle", "name"} /\ job'[c] \in {Rest, job[c]}
          /\ \A v \in Callers \ {c} : pc'[v] = pc[v] /\ job'[v] = job[v]
      BY <1>1, <1>9 DEF Ends, Becomes, Moves, JobsOK
    <2>2. \/ instances'[place] = instances[place]
          \/ job[c].place = place /\ instances'[place].kind = SpecOf(job[c].profile).kind
      BY <1>1, <1>9 DEF TypeOK
    <2>3. \A p \in Profiles : names'[p] = place => names[p] = place \/ (job[c].place = place /\ job[c].profile = p)
      BY <1>1, <1>9 DEF TypeOK
    <2>4. Keeps(c, place)
      BY <1>1, <1>2, <1>9, <2>1, <2>2, <2>3 DEF Keeps
    <2> QED
      BY <1>9, <2>1, <2>4, DirStays DEF Razing
  <1>10. CASE Cache(c)
    <2>1. pc[c] = "cache" /\ job[c].place \in Places /\ job[c].profile \in Named
      BY <1>1, <1>10 DEF Cache, JobOK, Jobs
    <2>2. Handle(job[c].profile, job[c].place).kind = SpecOf(job[c].profile).kind
      BY <1>1, <2>1, HandleTyped
    <2>3. instances' = [instances EXCEPT ![job[c].place] = Handle(job[c].profile, job[c].place)]
      BY <1>10 DEF Cache
    <2>4. (Ends(c) \/ Moves(c, "name")) /\ UNCHANGED <<records, names, dirs>>
      BY <1>10 DEF Cache, Directories
    <2> QED
      BY <1>9, <2>1, <2>2, <2>3, <2>4 DEF Razing
  <1>11. CASE Name(c)
    <2>1. pc[c] = "name" /\ Ends(c) /\ UNCHANGED <<instances, records, dirs>>
          /\ names' = [names EXCEPT ![job[c].profile] = job[c].place]
      BY <1>11 DEF Name, Directories
    <2> QED
      BY <1>9, <2>1 DEF Razing
  <1>12. ASSUME NEW s \in Settings, Inline(c, s)
         PROVE  DirAt(place)'
    <2>1. UNCHANGED <<pc, job, instances, names, records>> /\ dirs \subseteq dirs' /\ pc[c] = "idle"
      BY <1>12 DEF Inline, Begin, Builds
    <2>2. Keeps(c, place)
      BY <2>1 DEF Keeps
    <2> QED
      BY <2>1, <2>2, DirStays DEF Razing
  <1>13. ASSUME NEW id \in Numbers, Get(c, id)
         PROVE  DirAt(place)'
    BY <1>1, <1>13, DirOpens DEF Get, Begin, Razing
  <1>14. CASE Load(c)
    <2>1. pc[c] = "load" /\ job[c].place \in Places /\ job[c].profile \in Named
      BY <1>1, <1>14 DEF Load, JobOK, Jobs
    <2>2. Reopened(job[c].profile, job[c].place).kind = SpecOf(job[c].profile).kind
      BY <1>1, <2>1, ReopenedTyped
    <2>3. \/ instances' = instances
          \/ instances' = [instances EXCEPT ![job[c].place] = Reopened(job[c].profile, job[c].place)]
      BY <1>14 DEF Load
    <2>4. Ends(c) /\ UNCHANGED <<records, names, dirs>>
      BY <1>14 DEF Load, Directories
    <2> QED
      BY <1>9, <2>1, <2>2, <2>3, <2>4 DEF Razing
  <1>15. CASE AskDefault(c)
    <2> DEFINE what == [Rest EXCEPT !.op = "default", !.profile = Default, !.n = ops + 1]
    <2>1. Becomes(c, "lock", what) /\ UNCHANGED <<instances, names, records, dirs>> /\ pc[c] = "idle"
      BY <1>15 DEF AskDefault, Begin, Tables, Directories
    <2>2. what.place = None
      BY DEF Rest
    <2> HIDE DEF what
    <2> QED
      BY <1>1, <2>1, <2>2, DirGoesOn DEF Razing
  <1>16. CASE Lock(c)
    <2>1. /\ pc[c] = "lock" /\ pc'[c] = "find" /\ job' = job /\ \A v \in Callers \ {c} : pc'[v] = pc[v]
          /\ UNCHANGED <<instances, names, records, dirs>>
      BY <1>1, <1>16 DEF Lock, JobsOK, Tables, Directories
    <2>2. Keeps(c, place)
      BY <2>1 DEF Keeps
    <2> QED
      BY <2>1, <2>2, DirStays DEF Razing
  <1>17. CASE Find(c)
    <2>1. pc[c] = "find" /\ UNCHANGED <<instances, names, records, dirs>>
      BY <1>17 DEF Find, Tables, Directories
    <2>2. ASSUME NEW id \in Numbers, Becomes(c, "open", [job[c] EXCEPT !.id = id])
          PROVE  DirAt(place)'
      <3> DEFINE what == [job[c] EXCEPT !.id = id]
      <3>1. what.place = job[c].place /\ what.profile = job[c].profile
        BY <1>1 DEF JobsOK, Jobs
      <3>2. Becomes(c, "open", what)
        BY <2>2
      <3> HIDE DEF what
      <3> QED
        BY <1>1, <2>1, <3>1, <3>2, DirGoesOn DEF Razing
    <2>3. CASE Becomes(c, "make", job[c])
      BY <1>1, <2>1, <2>3, DirGoesOn DEF Razing
    <2> QED
      BY <1>17, <2>2, <2>3 DEF Find
  <1>18. CASE OpenDefault(c)
    <2>1. pc[c] = "open" /\ UNCHANGED Tables /\ job[c].id \in Numbers
      BY <1>1, <1>18 DEF OpenDefault, JobOK
    <2>2. CASE Recorded(job[c].id)
      <3>1. records[job[c].id].profile = Default
        BY <2>1, <2>2 DEF SandboxInv, NumberInv, Recorded
      <3>2. Opens(c, "default", job[c].id, records[job[c].id].profile)
        BY <1>18, <2>2, <3>1 DEF OpenDefault
      <3> QED
        BY <1>1, <2>1, <2>2, <3>2, DirOpens DEF Razing
    <2>3. CASE ~Recorded(job[c].id)
      BY <1>1, <1>18, <2>1, <2>3, DirQuiet DEF OpenDefault, Tables, Directories, Razing
    <2> QED
      BY <2>2, <2>3
  <1>19. ASSUME NEW id \in Numbers, NEW op \in {"start", "stop"}, Power(c, id, op)
         PROVE  DirAt(place)'
    <2> DEFINE what == [Rest EXCEPT !.op = op, !.id = id]
    <2>1. Becomes(c, "power", what) /\ UNCHANGED <<instances, names, records, dirs>> /\ pc[c] = "idle"
      BY <1>19 DEF Power, Begin, Tables, Directories
    <2>2. what.place = None
      BY DEF Rest
    <2> HIDE DEF what
    <2> QED
      BY <1>1, <2>1, <2>2, DirGoesOn DEF Razing
  <1>20. CASE UpdateStatus(c)
    <2>1. \A id \in Numbers : records'[id] # None =>
            /\ records[id] # None /\ records'[id].place = records[id].place
            /\ records'[id].profile = records[id].profile
      BY <1>1, <1>20 DEF UpdateStatus, TypeOK, Recorded, Records
    <2>2. /\ pc[c] = "power" /\ pc'[c] = "idle" /\ job'[c] = Rest
          /\ \A v \in Callers \ {c} : pc'[v] = pc[v] /\ job'[v] = job[v]
      BY <1>1, <1>20 DEF UpdateStatus, Ends, Becomes, JobsOK
    <2>3. UNCHANGED <<instances, names, dirs>>
      BY <1>20 DEF UpdateStatus, Directories
    <2>4. Keeps(c, place)
      BY <1>1, <1>2, <2>1, <2>2, <2>3 DEF Keeps
    <2> QED
      BY <2>2, <2>3, <2>4, DirStays DEF Razing
  <1>21. ASSUME NEW id \in Numbers, Destroy(c, id)
         PROVE  DirAt(place)'
    <2> DEFINE p == records[id].profile
               what == [Rest EXCEPT !.op = "destroy", !.id = id, !.profile = p, !.place = records[id].place]
    <2>1. /\ Becomes(c, "raze", what) /\ UNCHANGED <<instances, names, records, dirs>>
          /\ pc[c] = "idle" /\ Recorded(id)
          /\ raced' = IF Claimed(c, id) THEN raced \union {records[id].place} ELSE raced
      BY <1>21 DEF Destroy, Begin, Tables, Directories
    <2>2. what.place = records[id].place /\ what.id = id /\ what.profile = p
      BY DEF Rest
    <2> HIDE DEF what
    <2>3. /\ pc'[c] = "raze" /\ job'[c] = what
          /\ \A v \in Callers \ {c} : pc'[v] = pc[v] /\ job'[v] = job[v]
      BY <1>1, <2>1, BecomesMoves
    <2>4. CASE records[id].place = place
      <3>1. ~Claimed(c, id)
        BY <2>1, <2>4
      <3>2. /\ \A v \in Callers \ {c} : job[v].place # place
            /\ \A other \in Numbers \ {id} : Recorded(other) => records[other].place # place
        BY <2>4, <3>1 DEF Claimed
      <3>3. ~Destroying(place)
        BY <2>1, <3>2 DEF Destroying
      <3>4. SpecOf(p).kind = "tmp" => place \in dirs
        BY <2>1, <2>4, <3>3 DEF DirAt, HasTmp, Leads
      <3>5. Destroying(place)' /\ Alone(c, place)'
        BY <2>1, <2>2, <2>3, <2>4, <3>2 DEF Destroying, Alone, Recorded
      <3>6. SpecOf(job[c].profile)' = SpecOf(p)
        BY <2>2, <2>3 DEF SpecOf
      <3>7. DestroyAt(c, place)'
        BY <2>1, <2>3, <3>4, <3>5, <3>6 DEF DestroyAt
      <3> QED
        BY <2>3, <3>2, <3>5, <3>7 DEF DirAt
    <2>5. CASE records[id].place # place
      <3>1. Keeps(c, place)
        BY <2>1, <2>2, <2>3, <2>5 DEF Keeps
      <3> QED
        BY <2>1, <2>2, <2>3, <2>5, <3>1, DirStays DEF Razing
    <2> QED
      BY <2>4, <2>5
  <1>22. CASE Raze(c) \/ RazeFails(c) \/ Evict(c) \/ Unname(c) \/ Delete(c)
    <2>1. pc[c] \in Razing
      BY <1>22 DEF Raze, RazeFails, Evict, Unname, Delete, Razing
    <2>2. CASE job[c].place = place
      BY <1>1, <1>22, <2>1, <2>2, DirDestroy
    <2>3. CASE job[c].place # place
      <3>1. /\ job'[c] \in {job[c], Rest}
            /\ \A v \in Callers \ {c} : pc'[v] = pc[v] /\ job'[v] = job[v]
        BY <1>1, <1>22 DEF Raze, RazeFails, Evict, Unname, Delete, Moves, Ends, Becomes, JobsOK
      <3>2. instances'[place] \in {None, instances[place]}
        BY <1>1, <1>22 DEF Raze, RazeFails, Evict, Unname, Delete, Tables, TypeOK
      <3>3. \A q \in Profiles : names'[q] = place => names[q] = place
        BY <1>1, <1>22 DEF Raze, RazeFails, Evict, Unname, Delete, Tables
      <3>4. \A id \in Numbers : records'[id] # None => records'[id] = records[id]
        BY <1>1, <1>22 DEF Raze, RazeFails, Evict, Unname, Delete, Tables, TypeOK
      <3>5. place \in dirs => place \in dirs'
        BY <1>22, <2>3 DEF Raze, RazeFails, Evict, Unname, Delete, Tables, Directories
      <3>6. Keeps(c, place)
        BY <1>1, <1>2, <2>3, <3>1, <3>2, <3>3, <3>4 DEF Keeps
      <3> QED
        BY <1>1, <1>2, <2>3, <3>1, <3>5, <3>6, DirStays
    <2> QED
      BY <2>2, <2>3
  <1> QED
    BY <1>3, <1>4, <1>5, <1>6, <1>7, <1>8, <1>10, <1>11, <1>12, <1>13, <1>14, <1>15, <1>16, <1>17,
       <1>18, <1>19, <1>20, <1>21, <1>22 DEF Step

(* After a destroy no table leads to the removed directory, unless another  *)
(* operation or record concerned the directory at the time (manager.rs      *)
(* destroy, which goes through the three tables without a common lock), or  *)
(* a local sandbox got the same generated name.                             *)
THEOREM NothingDanglesHolds == Spec => []NothingDangles
  <1>1. Init => SandboxInv /\ DirInv
    <2>1. Init => DirInv
      <3> SUFFICES ASSUME Init, NEW place \in Places PROVE DirAt(place)
        BY DEF DirInv
      <3>1. ~HasTmp(place)
        BY NoneIsNoPlace DEF Init, HasTmp, Leads, Recorded, Rest
      <3>2. \A c \in Callers : pc[c] \notin Razing
        BY DEF Init, Razing
      <3> QED
        BY <3>1, <3>2 DEF DirAt
    <2> QED
      BY <2>1, SandboxInit
  <1>2. SandboxInv /\ DirInv /\ [Next]_vars => (SandboxInv /\ DirInv)'
    <2> SUFFICES ASSUME SandboxInv, DirInv, [Next]_vars PROVE DirInv'
      BY SandboxStep
    <2>1. CASE UNCHANGED vars
      BY <2>1 DEF vars, DirInv, DirAt, DestroyAt, Destroying, HasTmp, Leads, Alone, Recorded, Twice, SpecOf
    <2>2. CASE Next
      <3>1. TypeOK /\ Grows /\ raced \subseteq raced'
        <4>1. TypeOK /\ Grows
          BY StepGrows DEF SandboxInv
        <4>2. ASSUME NEW c \in Callers, Step(c) PROVE raced \subseteq raced'
          BY <4>2 DEF Step, Acquire, Create, Register, Make, MakeFails, Insert, Cache, Name, Inline, Get,
             Opens, Load, AskDefault, Lock, Find, OpenDefault, Power, UpdateStatus, Destroy, Raze,
             RazeFails, Evict, Unname, Delete, Races
        <4>3. ASSUME NEW n \in Numbers, LetGo(n) PROVE raced \subseteq raced'
          BY <4>3 DEF LetGo
        <4> QED
          BY <2>2, <4>1, <4>2, <4>3 DEF Next
      <3> SUFFICES ASSUME NEW place \in Places, place \notin raced', ~Twice(place)'
                   PROVE  DirAt(place)'
        BY DEF DirInv
      <3>2. DirAt(place) /\ ~Twice(place)
        BY <3>1, TwiceStays DEF DirInv
      <3>3. ASSUME NEW c \in Callers, Step(c) PROVE DirAt(place)'
        BY <3>1, <3>2, <3>3, DirStep DEF Grows
      <3>4. ASSUME NEW n \in Numbers, LetGo(n) PROVE DirAt(place)'
        BY <3>2, <3>4, DirLetGo
      <3> QED
        BY <2>2, <3>3, <3>4 DEF Next
    <2> QED
      BY <2>1, <2>2
  <1>3. DirInv => NothingDangles
    BY DEF DirInv, DirAt, HasTmp, NothingDangles
  <1> QED
    BY <1>1, <1>2, <1>3, PTL DEF Spec
=============================================================================
