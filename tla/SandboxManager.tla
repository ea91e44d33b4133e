--------------------------- MODULE SandboxManager ---------------------------
(***************************************************************************)
(* The sandbox manager (crate vol-llm-sandbox): agents and request handlers *)
(* acquire, create, open, start, stop and destroy sandboxes concurrently.   *)
(* The records, the cache of handles and the table of names have a lock     *)
(* each; an operation goes from one to the next with none held.  Only       *)
(* default() runs under a lock from beginning to end.                       *)
(*                                                                         *)
(* A sandbox is a place (backend_id): a directory, whether of a local or a  *)
(* temporary sandbox, or user@host.  One without a work_dir or sub_dir gets *)
(* a generated name: local and temporary ones count from the same number,   *)
(* and give the same names (TMPDIR is not set).  The directory of such a    *)
(* local sandbox is removed when its handle is dropped.  A handle of an ssh *)
(* sandbox also carries the other settings of the profile it was made from. *)
(***************************************************************************)
EXTENDS Integers, FiniteSets

CONSTANTS
    Callers,
    Profiles,       \* profiles on disk
    Default,        \* the name of the scratch sandbox
    Homes,          \* work_dirs, sub_dirs and hosts of profiles
    Base,           \* home -> the home in /tmp with the same last component
    MaxOps,         \* bound: operations
    None

\* The name is reserved (the manager does not refuse a profile that has it).
ASSUME SandboxConstants ==
    /\ MaxOps \in Nat
    /\ Base \in [Homes -> Homes]
    /\ Default \notin Profiles
    /\ None \notin Callers \union Profiles \union Homes \union {Default}

VARIABLES
    specs,      \* the profiles
    records,    \* SandboxStore: a record for each id, or None
    instances,  \* place -> handle, or None
    names,      \* name_to_backend: profile -> place, or None
    lock,       \* who is in default()
    dirs,       \* directories of temporary sandboxes that exist
    made,       \* TMP_COUNTER and SANDBOX_COUNTER: names generated for each kind
    dropped,    \* local sandboxes with a generated name whose handle was dropped
    pc, job,    \* where each caller is, and with what
    ops,        \* operations so far; also numbers ids and new directories
    answers,    \* history: the last handle each caller was given, for which profile
    raced       \* history: places somebody else worked on during a destroy

vars == <<specs, records, instances, names, lock, dirs, made, dropped, pc, job, ops, answers,
          raced>>

Numbers == 1..MaxOps
Kinds == {"local", "tmp", "ssh"}
Scratch == [kind |-> "tmp", home |-> None]
Settings == [kind : Kinds, home : Homes] \union [kind : {"local", "tmp"}, home : {None}]
SpecOf(p) == IF p = Default THEN Scratch ELSE specs[p]

Generated(n) == [type |-> "generated", home |-> None, n |-> n]
Places == [type : {"dir", "host"}, home : Homes, n : {0}] \union {Generated(n) : n \in Numbers}
ASSUME NoneIsNoPlace == None \notin Places

Handles == [kind : Kinds, place : Places, owner : Profiles \union {Default, None}, temp : BOOLEAN]
Records == [profile : Profiles \union {Default}, place : Places, status : {"running", "stopped"}]

\* provider.create: where a sandbox with these settings lies.
Place(s) ==
    IF s.home = None THEN Generated(made[s.kind] + 1)
    ELSE [type |-> IF s.kind = "ssh" THEN "host" ELSE "dir", home |-> s.home, n |-> 0]

\* The handle made for a profile; one of a given directory is as good as another.
Handle(p, place) ==
    [kind |-> SpecOf(p).kind, place |-> place,
     owner |-> IF place.type = "dir" THEN None ELSE p,
     temp |-> SpecOf(p).kind = "local" /\ place.type = "generated"]

\* provider.get: for a temporary sandbox only the last component of the path counts.
Reopened(p, place) ==
    LET nested == SpecOf(p).kind = "tmp" /\ place.type = "dir"
        opened == IF nested THEN [place EXCEPT !.home = Base[@]] ELSE place
    IN  [Handle(p, opened) EXCEPT !.temp = FALSE]

NoAnswer == [profile |-> None, handle |-> None]
Rest == [op |-> "none", profile |-> None, id |-> 0, place |-> None, n |-> 0]

Init ==
    /\ specs \in [Profiles -> Settings]
    /\ records = [id \in Numbers |-> None]
    /\ instances = [place \in Places |-> None]
    /\ names = [p \in Profiles |-> None]
    /\ lock = None
    /\ dirs = {}
    /\ made = [kind \in {"local", "tmp"} |-> 0]
    /\ dropped = {}
    /\ pc = [c \in Callers |-> "idle"]
    /\ job = [c \in Callers |-> Rest]
    /\ ops = 0
    /\ answers = [c \in Callers |-> NoAnswer]
    /\ raced = {}

Begin(c) ==
    /\ pc[c] = "idle"
    /\ ops < MaxOps
    /\ ops' = ops + 1

Becomes(c, where, what) ==
    /\ pc' = [pc EXCEPT ![c] = where]
    /\ job' = [job EXCEPT ![c] = what]

\* An operation ends and drops the guard of default().
Ends(c) ==
    /\ Becomes(c, "idle", Rest)
    /\ lock' = IF lock = c THEN None ELSE lock

Answer(c, p, handle) == answers' = [answers EXCEPT ![c] = [profile |-> p, handle |-> handle]]

Moves(c, where) ==
    /\ pc' = [pc EXCEPT ![c] = where]
    /\ UNCHANGED <<job, lock>>

Directories == <<dirs, made, dropped>>
Tables == <<specs, records, instances, names, Directories>>

Recorded(id) == records[id] # None
Destroying(place) ==
    \E c \in Callers : pc[c] \in {"raze", "evict", "unname", "delete"} /\ job[c].place = place
Races(place) == IF Destroying(place) THEN raced \union {place} ELSE raced

(* -- acquire_by_name, create, register_instance ------------------------------- *)

\* The fast path: the handle the name leads to.
Cached(p) == IF names[p] = None THEN None ELSE instances[names[p]]

Acquire(c, p) ==
    /\ Begin(c)
    /\ IF Cached(p) # None
       THEN /\ Answer(c, p, Cached(p))
            /\ UNCHANGED <<pc, job, lock>>
       ELSE /\ Becomes(c, "make", [Rest EXCEPT !.op = "acquire", !.profile = p])
            /\ UNCHANGED <<lock, answers>>
    /\ UNCHANGED <<Tables, raced>>

Create(c, p) ==
    /\ Begin(c)
    /\ Becomes(c, "make", [Rest EXCEPT !.op = "create", !.profile = p, !.n = ops + 1])
    /\ UNCHANGED <<Tables, lock, answers, raced>>

\* A sandbox comes to be; a temporary one makes its directory.  MaxOps is also a
\* bound on the generated names (no operation generates more than one).
Builds(s) ==
    /\ s.home = None => made[s.kind] < MaxOps
    /\ made' = IF s.home = None THEN [made EXCEPT ![s.kind] = @ + 1] ELSE made
    /\ dirs' = IF s.kind = "tmp" THEN dirs \union {Place(s)} ELSE dirs
    /\ UNCHANGED dropped

\* The caller made the sandbox.
Register(c, p) ==
    /\ Begin(c)
    /\ specs[p].kind = "local"
    /\ Becomes(c, "record", [Rest EXCEPT !.op = "create", !.profile = p, !.n = ops + 1,
                                         !.place = Place(specs[p])])
    /\ Builds(specs[p])
    /\ raced' = Races(Place(specs[p]))
    /\ UNCHANGED <<specs, records, instances, names, lock, answers>>

\* provider.create, for acquire, create and default.
Make(c) ==
    /\ pc[c] = "make"
    /\ LET s == SpecOf(job[c].profile)
       IN  /\ Builds(s)
           /\ Becomes(c, IF job[c].op = "acquire" THEN "cache" ELSE "record", [job[c] EXCEPT !.place = Place(s)])
           /\ raced' = Races(Place(s))
    /\ UNCHANGED <<specs, records, instances, names, lock, ops, answers>>

MakeFails(c) ==
    /\ pc[c] = "make"
    /\ Ends(c)
    /\ UNCHANGED <<Tables, ops, answers, raced>>

\* The id is a fresh UUID.
Insert(c) ==
    /\ pc[c] = "record"
    /\ records' = [records EXCEPT ![job[c].n] =
                      [profile |-> job[c].profile, place |-> job[c].place, status |-> "running"]]
    /\ Moves(c, "cache")
    /\ UNCHANGED <<specs, instances, names, Directories, ops, answers, raced>>

Cache(c) ==
    /\ pc[c] = "cache"
    /\ instances' = [instances EXCEPT ![job[c].place] = Handle(job[c].profile, job[c].place)]
    /\ IF job[c].op = "default"
       THEN /\ Answer(c, Default, Handle(Default, job[c].place))
            /\ Ends(c)
       ELSE /\ Moves(c, "name")
            /\ UNCHANGED answers
    /\ UNCHANGED <<specs, records, names, Directories, ops, raced>>

Name(c) ==
    /\ pc[c] = "name"
    /\ names' = [names EXCEPT ![job[c].profile] = job[c].place]
    /\ IF job[c].op = "acquire"
       THEN Answer(c, job[c].profile, Handle(job[c].profile, job[c].place))
       ELSE UNCHANGED answers
    /\ Ends(c)
    /\ UNCHANGED <<specs, records, instances, Directories, ops, raced>>

\* build_inline and default_tmp: a sandbox the manager does not know.
Inline(c, s) ==
    /\ Begin(c)
    /\ Builds(s)
    /\ UNCHANGED <<specs, records, instances, names, lock, pc, job, answers, raced>>

\* The operation still has the handle it made.
Holds(c) == pc[c] \in {"record", "cache"} \/ (pc[c] = "name" /\ job[c].op = "acquire")

\* The last reference to the handle of a local sandbox with a generated name goes:
\* neither the cache nor an operation has it, and agents let go of theirs at any time.
LetGo(n) ==
    /\ n \in 1..made["local"] \ dropped
    /\ \A place \in Places :
          instances[place] # None => ~(instances[place].temp /\ instances[place].place.n = n)
    /\ \A c \in Callers :
          Holds(c) => ~(job[c].place = Generated(n) /\ SpecOf(job[c].profile).kind = "local")
    /\ dropped' = dropped \union {n}
    /\ dirs' = dirs \ {Generated(n)}
    /\ UNCHANGED <<specs, records, instances, names, lock, made, pc, job, ops, answers, raced>>

(* -- get and default ------------------------------------------------------------ *)

\* What get does once it has read the record, for who asked for profile p.
Opens(c, op, id, p) ==
    LET place == records[id].place
    IN  IF instances[place] # None
        THEN /\ Answer(c, p, instances[place])
             /\ Ends(c)
             /\ UNCHANGED raced
        ELSE /\ Becomes(c, "load", [Rest EXCEPT !.op = op, !.id = id, !.place = place,
                                                !.profile = p])
             /\ raced' = Races(place)
             /\ UNCHANGED <<lock, answers>>

Get(c, id) ==
    /\ Begin(c)
    /\ Recorded(id)
    /\ Opens(c, "get", id, records[id].profile)
    /\ UNCHANGED Tables

\* provider.get makes a handle of the id, without looking for the directory; an
\* ssh sandbox is not found.
Load(c) ==
    /\ pc[c] = "load"
    /\ IF job[c].place.type = "host"
       THEN UNCHANGED <<instances, answers>>
       ELSE LET handle == Reopened(job[c].profile, job[c].place)
            IN  /\ instances' = [instances EXCEPT ![job[c].place] = handle]
                /\ Answer(c, job[c].profile, handle)
    /\ Ends(c)
    /\ UNCHANGED <<specs, records, names, Directories, ops, raced>>

AskDefault(c) ==
    /\ Begin(c)
    /\ Becomes(c, "lock", [Rest EXCEPT !.op = "default", !.profile = Default, !.n = ops + 1])
    /\ UNCHANGED <<Tables, lock, answers, raced>>

NoLock(c) ==   \* mutant
    /\ pc[c] = "lock"
    /\ lock' = c
    /\ pc' = [pc EXCEPT ![c] = "find"]
    /\ UNCHANGED <<Tables, job, ops, answers, raced>>

Lock(c) ==
    /\ pc[c] = "lock"
    /\ lock = None
    /\ lock' = c
    /\ pc' = [pc EXCEPT ![c] = "find"]
    /\ UNCHANGED <<Tables, job, ops, answers, raced>>

FindAny(c) ==   \* mutant
    /\ pc[c] = "find"
    /\ IF \E id \in Numbers : Recorded(id)
       THEN \E id \in Numbers :
              /\ Recorded(id)
              /\ Becomes(c, "open", [job[c] EXCEPT !.id = id])
       ELSE Becomes(c, "make", job[c])
    /\ UNCHANGED <<Tables, lock, ops, answers, raced>>

\* The first record of the scratch profile, or a new sandbox.
Find(c) ==
    /\ pc[c] = "find"
    /\ LET found == {id \in Numbers : Recorded(id) /\ records[id].profile = Default}
       IN  IF found # {}
           THEN \E id \in found : Becomes(c, "open", [job[c] EXCEPT !.id = id])
           ELSE Becomes(c, "make", job[c])
    /\ UNCHANGED <<Tables, lock, ops, answers, raced>>

\* get, within default(); an error when the record was destroyed meanwhile.
OpenDefault(c) ==
    /\ pc[c] = "open"
    /\ IF Recorded(job[c].id)
       THEN Opens(c, "default", job[c].id, Default)
       ELSE /\ Ends(c)
            /\ UNCHANGED <<answers, raced>>
    /\ UNCHANGED <<Tables, ops>>

(* -- start, stop, destroy ---------------------------------------------------------- *)

\* start and stop read the record and check the transition ...
Power(c, id, op) ==
    /\ Begin(c)
    /\ Recorded(id)
    /\ records[id].status = IF op = "start" THEN "stopped" ELSE "running"
    /\ Becomes(c, "power", [Rest EXCEPT !.op = op, !.id = id])
    /\ UNCHANGED <<Tables, lock, answers, raced>>

\* ... and write the new status, if the record is still there; the providers do
\* nothing.
UpdateStatus(c) ==
    /\ pc[c] = "power"
    /\ LET id == job[c].id
       IN  IF Recorded(id)
           THEN records' = [records EXCEPT ![id].status = IF job[c].op = "start" THEN "running" ELSE "stopped"]
           ELSE UNCHANGED records
    /\ Ends(c)
    /\ UNCHANGED <<specs, instances, names, Directories, ops, answers, raced>>

\* Somebody else holds the place of the record, or has work under way there.
Claimed(c, id) ==
    LET place == records[id].place
    IN  \/ \E other \in Numbers \ {id} : Recorded(other) /\ records[other].place = place
        \/ \E v \in Callers \ {c} : job[v].place = place

Destroy(c, id) ==
    /\ Begin(c)
    /\ Recorded(id)
    /\ Becomes(c, "raze", [Rest EXCEPT !.op = "destroy", !.id = id, !.profile = records[id].profile,
                                       !.place = records[id].place])
    /\ raced' = IF Claimed(c, id) THEN raced \union {records[id].place} ELSE raced
    /\ UNCHANGED <<Tables, lock, answers>>

\* provider.destroy: the directory of a temporary sandbox goes.
Raze(c) ==
    /\ pc[c] = "raze"
    /\ dirs' = IF SpecOf(job[c].profile).kind = "tmp" THEN dirs \ {job[c].place} ELSE dirs
    /\ Moves(c, "evict")
    /\ UNCHANGED <<specs, records, instances, names, made, dropped, ops, answers, raced>>

RazeFails(c) ==
    /\ pc[c] = "raze"
    /\ SpecOf(job[c].profile).kind = "tmp"
    /\ Ends(c)
    /\ UNCHANGED <<Tables, ops, answers, raced>>

Evict(c) ==
    /\ pc[c] = "evict"
    /\ instances' = [instances EXCEPT ![job[c].place] = None]
    /\ Moves(c, "unname")
    /\ UNCHANGED <<specs, records, names, Directories, ops, answers, raced>>

KeepsName(c) ==   \* mutant
    /\ pc[c] = "unname"
    /\ Moves(c, "delete")
    /\ UNCHANGED <<Tables, ops, answers, raced>>

Unname(c) ==
    /\ pc[c] = "unname"
    /\ names' = [p \in Profiles |-> IF names[p] = job[c].place THEN None ELSE names[p]]
    /\ Moves(c, "delete")
    /\ UNCHANGED <<specs, records, instances, Directories, ops, answers, raced>>

Delete(c) ==
    /\ pc[c] = "delete"
    /\ records' = [records EXCEPT ![job[c].id] = None]
    /\ Ends(c)
    /\ UNCHANGED <<specs, instances, names, Directories, ops, answers, raced>>

Step(c) ==
    \/ \E p \in Profiles : Acquire(c, p)
    \/ \E p \in Profiles : Create(c, p)
    \/ \E p \in Profiles : Register(c, p)
    \/ Make(c)
    \/ MakeFails(c)
    \/ Insert(c)
    \/ Cache(c)
    \/ Name(c)
    \/ \E s \in Settings : Inline(c, s)
    \/ \E id \in Numbers : Get(c, id)
    \/ Load(c)
    \/ AskDefault(c)
    \/ Lock(c)
    \/ Find(c)
    \/ OpenDefault(c)
    \/ \E id \in Numbers, op \in {"start", "stop"} : Power(c, id, op)
    \/ UpdateStatus(c)
    \/ \E id \in Numbers : Destroy(c, id)
    \/ Raze(c)
    \/ RazeFails(c)
    \/ Evict(c)
    \/ Unname(c)
    \/ Delete(c)

Next == (\E c \in Callers : Step(c)) \/ (\E n \in Numbers : LetGo(n))

Spec == Init /\ [][Next]_vars

(* -- properties ---------------------------------------------------------------------- *)

(* The shape of the state.                                                   *)
TypeOK ==
    /\ specs \in [Profiles -> Settings]
    /\ records \in [Numbers -> Records \union {None}]
    /\ instances \in [Places -> Handles \union {None}]
    /\ names \in [Profiles -> Places \union {None}]
    /\ lock \in Callers \union {None}
    /\ dirs \subseteq Places
    /\ made \in [{"local", "tmp"} -> 0..MaxOps] /\ dropped \subseteq Numbers
    /\ ops \in 0..MaxOps

(* There is one scratch sandbox, however many callers ask for it and whoever *)
(* destroys it meanwhile: default() searches and creates under a lock.       *)
ScratchUnique ==
    \A a, b \in Numbers :
        (Recorded(a) /\ Recorded(b) /\ records[a].profile = Default /\ records[b].profile = Default) => a = b

ScratchOK == TypeOK /\ ScratchUnique

\* A handle is one of the profile.
Suits(p, handle) ==
    /\ handle.kind = SpecOf(p).kind
    /\ handle.place.home = SpecOf(p).home
    /\ handle.owner \in {None, p}

\* A local and a temporary sandbox got this generated name.
Twice(place) == place.type = "generated" /\ place.n <= made["local"] /\ place.n <= made["tmp"]

\* Another profile leads to the same host, or one of the other kind to the same
\* directory: the cache has one handle for both.
SharesHome(p) ==
    \E q \in Profiles \ {p} :
        /\ SpecOf(p).home # None /\ specs[q].home = SpecOf(p).home
        /\ (specs[q].kind = "ssh") = (SpecOf(p).kind = "ssh")
        /\ specs[q].kind = "ssh" \/ specs[q].kind # SpecOf(p).kind

\* A sub_dir of several components, of which provider.get keeps the last.
Nested(p) == SpecOf(p).kind = "tmp" /\ SpecOf(p).home # None /\ Base[SpecOf(p).home] # SpecOf(p).home

(* Whoever asks for a profile, by name, by id or by default, gets a sandbox  *)
(* of that profile's settings, through every interleaving of the three       *)
(* tables.  The cache is keyed by the bare backend_id, so there are three    *)
(* ways to get another: a second profile with that key (user@host, or the    *)
(* directory under another provider), a generated name that was given        *)
(* twice, and the reopening of a nested sub_dir.                             *)
RightSandbox ==
    \A c \in Callers :
        LET a == answers[c]
        IN  a # NoAnswer => \/ Suits(a.profile, a.handle)
                            \/ SharesHome(a.profile) \/ Nested(a.profile)
                            \/ Twice(a.handle.place)

\* Something leads to the temporary sandbox there.
Leads(place) ==
    \/ instances[place] # None /\ instances[place].kind = "tmp"
    \/ \E p \in Profiles : names[p] = place /\ specs[p].kind = "tmp"
    \/ \E id \in Numbers : Recorded(id) /\ records[id].place = place
                          /\ SpecOf(records[id].profile).kind = "tmp"

(* The directory of a temporary sandbox that the manager leads to exists:    *)
(* after a destroy no table leads to the removed directory, unless another   *)
(* operation or record concerned the same directory at the time (destroy     *)
(* removes the directory, the handle, the name and the record one after the  *)
(* other), or a local sandbox got the same generated name (its directory is  *)
(* removed with its handle).                                                 *)
NothingDangles ==
    \A place \in Places \ raced :
        (Leads(place) /\ ~Destroying(place) /\ ~Twice(place)) => place \in dirs
=============================================================================
