----------------------------- MODULE TaskBoard -----------------------------
(***************************************************************************)
(* The task board (crate vol-llm-task): agents, the task CLI and other      *)
(* processes create, claim, change and stop the tasks of one store.  Every  *)
(* operation reads a whole record and later writes a whole record back; no  *)
(* lock spans the two.                                                      *)
(*                                                                         *)
(* The in-memory and the database store read and write a record in one      *)
(* step.  The file store writes {id}.tmp and renames it over {id}.json; the *)
(* temporary name is shared by all writers of the task, so the model tells  *)
(* apart where the file lies that a writer has open.                        *)
(***************************************************************************)
EXTENDS Integers, FiniteSets

CONSTANTS
    Workers,        \* agents and CLI calls, each with its own store handle
    MaxTasks,       \* bound: ids
    Starting,       \* tasks already on the board: created one by one, with dependencies
    MaxOps,         \* bound: operations
    MaxCrashes,     \* bound: workers that die in the middle of one
    Nobody, NoFile, Empty, Garbage

Unreadable == {Empty, Garbage}

ASSUME TaskConstants ==
    /\ {MaxTasks, MaxOps, MaxCrashes} \subseteq Nat
    /\ Starting \subseteq 0..MaxTasks
    /\ Nobody \notin Workers \union {"agent"}

VARIABLES
    store,      \* the kind of store
    tasks,      \* the record of each id: NoFile when there is none, or unreadable bytes
    counter,    \* next_id, the autoincrement key, or the number in .lock
    flock,      \* who holds the file lock on .lock
    tmp,        \* the content of {id}.tmp
    fd,         \* where the file lies that a writer has open: none, tmp, path, gone
    pc,         \* idle, scan, write, alloc, open, content, rename
    hand,       \* the operation of each worker: its kind and the record to write
    spent,      \* operations and crashes so far
    ver,        \* history: writes of each id
    raced,      \* history: ids written by a worker that had not read the last write
    holders,    \* history: workers told that they claimed the task since it was pending
    once,       \* history: ids that were completed at some time
    given,      \* history: how often an id was handed out
    lostCount   \* history: a crash left the counter empty

vars == <<store, tasks, counter, flock, tmp, fd, pc, hand, spent,
          ver, raced, holders, once, given, lostCount>>
idVars == <<counter, flock, given, lostCount>>
boardVars == <<tasks, tmp, ver, raced, holders, once>>

Ids == 1..MaxTasks
TaskStatus == {"pending", "running", "completed", "failed", "killed"}
Task == [status : TaskStatus, assignee : Workers \union {"agent", Nobody}, deps : SUBSET Ids]

\* Bytes that are no record are told apart from records, and no file from both.
ASSUME ContentsDistinct ==
    /\ {NoFile, Empty, Garbage} \cap Task = {}
    /\ NoFile \notin Unreadable

New(deps) == [status |-> "pending", assignee |-> Nobody, deps |-> deps]

Rest == [kind |-> "none", id |-> 0, task |-> New({}), ver |-> 0, need |-> {}, done |-> {}, got |-> {}]

Init ==
    /\ store \in {"memory", "file", "database"}
    /\ \E n \in Starting : \E deps \in [1..n -> SUBSET Ids] :
          /\ \A id \in 1..n : deps[id] \subseteq 1..(id - 1)
          /\ tasks = [id \in Ids |-> IF id <= n THEN New(deps[id]) ELSE NoFile]
          /\ counter = n
          /\ given = [id \in Ids |-> IF id <= n THEN 1 ELSE 0]
    /\ flock = Nobody
    /\ tmp = [id \in Ids |-> NoFile]
    /\ fd = [w \in Workers |-> "none"]
    /\ pc = [w \in Workers |-> "idle"]
    /\ hand = [w \in Workers |-> Rest]
    /\ spent = [ops |-> 0, crashes |-> 0]
    /\ ver = [id \in Ids |-> 0]
    /\ raced = {}
    /\ holders = [id \in Ids |-> {}]
    /\ once = {}
    /\ lostCount = FALSE

Exists(id) == tasks[id] \in Task

Begin(w) ==
    /\ pc[w] = "idle"
    /\ spent.ops < MaxOps
    /\ spent' = [spent EXCEPT !.ops = @ + 1]

Ends(w) ==
    /\ pc' = [pc EXCEPT ![w] = "idle"]
    /\ hand' = [hand EXCEPT ![w] = Rest]

(* -- what is asked of a task ------------------------------------------------ *)

UncheckedClaim(w, t) ==   \* mutant
    {[kind |-> "claim", task |-> [t EXCEPT !.status = "running", !.assignee = w]],
     [kind |-> "claim_cli", task |-> [t EXCEPT !.status = "running", !.assignee = "agent"]]}

\* task_claim and the claim command: a pending task becomes running.
Claims(w, t) ==
    IF t.status # "pending" THEN {}
    ELSE {[kind |-> "claim", task |-> [t EXCEPT !.status = "running", !.assignee = w]],
          [kind |-> "claim_cli", task |-> [t EXCEPT !.status = "running", !.assignee = "agent"]]}

\* task_stop refuses finished tasks, the stop command stops anything.
Stops(t) ==
    {[kind |-> kind, task |-> [t EXCEPT !.status = "killed"]] :
        kind \in IF t.status \in {"completed", "failed"} THEN {"stop_cli"} ELSE {"stop", "stop_cli"}}

\* task_update and the update command set any status and add dependencies; an
\* edit of the texts writes the record back as it was.
Edits(t) ==
    {[kind |-> "edit", task |-> [t EXCEPT !.status = s]] : s \in TaskStatus}
    \union {[kind |-> "edit", task |-> [t EXCEPT !.deps = @ \union {d}]] : d \in Ids}

(* -- reading ------------------------------------------------------------------ *)

\* get; a missing or unreadable record ends the operation with an error.
Get(w, id) ==
    /\ Begin(w)
    /\ Exists(id)
    /\ \E op \in Claims(w, tasks[id]) \union Stops(tasks[id]) \union Edits(tasks[id]) :
          /\ hand' = [hand EXCEPT ![w] = [Rest EXCEPT !.kind = op.kind, !.id = id,
                                            !.task = op.task, !.ver = ver[id]]]
          /\ pc' = [pc EXCEPT ![w] = IF op.kind = "claim" THEN "scan"
                                     ELSE IF store = "file" THEN "open" ELSE "write"]
    /\ UNCHANGED <<store, fd, idVars, boardVars>>

Completed == {id \in Ids : Exists(id) /\ tasks[id].status = "completed"}

\* get_ready_tasks, as far as the claimed task is concerned: its own record ...
ScanPending(w) ==
    /\ pc[w] = "scan"
    /\ "need" \notin hand[w].got
    /\ LET id == hand[w].id
       IN  IF Exists(id) /\ tasks[id].status = "pending"
           THEN /\ hand' = [hand EXCEPT ![w].need = tasks[id].deps,
                        ![w].done = IF store = "database" THEN Completed ELSE @,
                        ![w].got = @ \union (IF store = "database" THEN {"need", "done"} ELSE {"need"})]
                /\ UNCHANGED pc
           ELSE Ends(w)
    /\ UNCHANGED <<store, fd, spent, idVars, boardVars>>

\* ... and the completed tasks: after it in memory, in either order for the
\* file store, at the same time in the database.  An unreadable task fails it.
ScanCompleted(w) ==
    /\ pc[w] = "scan"
    /\ "done" \notin hand[w].got
    /\ store # "file" => "need" \in hand[w].got
    /\ IF \E id \in Ids : tasks[id] \in Unreadable
       THEN Ends(w)
       ELSE /\ hand' = [hand EXCEPT ![w].done = Completed, ![w].got = @ \union {"done"}]
            /\ UNCHANGED pc
    /\ UNCHANGED <<store, fd, spent, idVars, boardVars>>

NotReady(w) ==   \* mutant
    /\ pc[w] = "scan"
    /\ hand[w].got = {"need", "done"}
    /\ pc' = [pc EXCEPT ![w] = IF store = "file" THEN "open" ELSE "write"]
    /\ UNCHANGED <<store, fd, hand, spent, idVars, boardVars>>

Ready(w) ==
    /\ pc[w] = "scan"
    /\ hand[w].got = {"need", "done"}
    /\ IF hand[w].need \subseteq hand[w].done
       THEN /\ pc' = [pc EXCEPT ![w] = IF store = "file" THEN "open" ELSE "write"]
            /\ UNCHANGED hand
       ELSE Ends(w)
    /\ UNCHANGED <<store, fd, spent, idVars, boardVars>>

(* -- writing -------------------------------------------------------------------- *)

\* The record of an id becomes content, whoever made it so.
Publish(id, content) ==
    /\ tasks' = [tasks EXCEPT ![id] = content]
    /\ ver' = [ver EXCEPT ![id] = @ + 1]
    /\ once' = IF content \in Task /\ content.status = "completed" THEN once \union {id} ELSE once

Pending(content) == content \in Task /\ content.status = "pending"

\* The caller of a claim is told that the task is its own.
Told(w, content) ==
    LET id == hand[w].id
    IN  holders' = [holders EXCEPT ![id] =
            (IF Pending(content) THEN {} ELSE @)
            \union (IF hand[w].kind \in {"claim", "claim_cli"} THEN {w} ELSE {})]

Writing(w, id) == pc[w] \in {"content", "rename"} /\ hand[w].id = id

Races(w) ==
    LET id == hand[w].id
    IN  IF hand[w].ver # ver[id] \/ \E v \in Workers \ {w} : Writing(v, id)
        THEN raced \union {id} ELSE raced

\* The in-memory store inserts, the database updates the row.
Update(w) ==
    /\ pc[w] = "write"
    /\ raced' = Races(w)
    /\ Publish(hand[w].id, hand[w].task)
    /\ Told(w, hand[w].task)
    /\ Ends(w)
    /\ UNCHANGED <<store, tmp, fd, spent, idVars>>

\* std::fs::write opens and truncates {id}.tmp ...
OpenTmp(w) ==
    /\ pc[w] = "open"
    /\ raced' = Races(w)
    /\ tmp' = [tmp EXCEPT ![hand[w].id] = Empty]
    /\ fd' = [fd EXCEPT ![w] = "tmp"]
    /\ pc' = [pc EXCEPT ![w] = "content"]
    /\ UNCHANGED <<store, tasks, hand, spent, ver, holders, once, idVars>>

\* A document written over another one leaves the rest of a longer one behind.
Over(old, new) == IF old = Empty THEN {new} ELSE {new, Garbage}

\* ... and writes into the file it opened, wherever that lies by now.
WriteContent(w) ==
    /\ pc[w] = "content"
    /\ LET id == hand[w].id
       IN  \/ /\ fd[w] = "tmp"
              /\ \E new \in Over(tmp[id], hand[w].task) : tmp' = [tmp EXCEPT ![id] = new]
              /\ UNCHANGED <<tasks, ver, once, holders>>
           \/ /\ fd[w] = "path"
              /\ \E new \in Over(tasks[id], hand[w].task) :
                    /\ Publish(id, new)
                    /\ holders' = [holders EXCEPT ![id] = IF Pending(new) THEN {} ELSE @]
              /\ UNCHANGED tmp
           \/ /\ fd[w] = "gone"
              /\ UNCHANGED <<tasks, tmp, ver, once, holders>>
    /\ fd' = [fd EXCEPT ![w] = "none"]
    /\ pc' = [pc EXCEPT ![w] = "rename"]
    /\ UNCHANGED <<store, hand, spent, raced, idVars>>

\* rename publishes what the temporary file holds, be it another writer's.
Rename(w) ==
    /\ pc[w] = "rename"
    /\ LET id == hand[w].id
       IN  /\ tmp[id] # NoFile
           /\ Publish(id, tmp[id])
           /\ Told(w, tmp[id])
           /\ tmp' = [tmp EXCEPT ![id] = NoFile]
           /\ fd' = [v \in Workers |-> IF hand[v].id # id \/ fd[v] = "none" THEN fd[v]
                                       ELSE IF fd[v] = "tmp" THEN "path" ELSE "gone"]
    /\ Ends(w)
    /\ UNCHANGED <<store, spent, raced, idVars>>

\* Another writer renamed it first: an error, whatever was published.
RenameFails(w) ==
    /\ pc[w] = "rename"
    /\ tmp[hand[w].id] = NoFile
    /\ Ends(w)
    /\ UNCHANGED <<store, fd, spent, idVars, boardVars>>

(* -- creating --------------------------------------------------------------------- *)

Creation(id, deps) == [Rest EXCEPT !.kind = "create", !.id = id, !.task = New(deps)]

\* task_create gives no dependencies, the create command may.
FirstDeps == {{}} \union {{d} : d \in Ids}

Create(w) ==
    /\ Begin(w)
    /\ store # "file"
    /\ counter < MaxTasks
    /\ counter' = counter + 1
    /\ given' = [given EXCEPT ![counter + 1] = @ + 1]
    /\ \E deps \in FirstDeps : hand' = [hand EXCEPT ![w] = Creation(counter + 1, deps)]
    /\ pc' = [pc EXCEPT ![w] = "write"]
    /\ UNCHANGED <<store, fd, flock, lostCount, boardVars>>

\* allocate_id under the file lock: the counter is read and the file
\* truncated ...
Allocate(w) ==
    /\ Begin(w)
    /\ store = "file"
    /\ flock = Nobody
    /\ counter < MaxTasks
    /\ flock' = w
    /\ hand' = [hand EXCEPT ![w] = Creation(counter + 1, {})]
    /\ counter' = 0   \* an empty file counts as 0
    /\ pc' = [pc EXCEPT ![w] = "alloc"]
    /\ UNCHANGED <<store, fd, given, lostCount, boardVars>>

ForgetsCounter(w) ==   \* mutant
    /\ pc[w] = "alloc"
    /\ given' = [given EXCEPT ![hand[w].id] = @ + 1]
    /\ flock' = Nobody
    /\ \E deps \in FirstDeps : hand' = [hand EXCEPT ![w] = Creation(@.id, deps)]
    /\ pc' = [pc EXCEPT ![w] = "open"]
    /\ UNCHANGED <<store, counter, fd, spent, lostCount, boardVars>>

\* ... then the new number is written and the lock released.
WriteCounter(w) ==
    /\ pc[w] = "alloc"
    /\ counter' = hand[w].id
    /\ given' = [given EXCEPT ![hand[w].id] = @ + 1]
    /\ flock' = Nobody
    /\ \E deps \in FirstDeps : hand' = [hand EXCEPT ![w] = Creation(@.id, deps)]
    /\ pc' = [pc EXCEPT ![w] = "open"]
    /\ UNCHANGED <<store, fd, spent, lostCount, boardVars>>

(* -- crashes --------------------------------------------------------------------------- *)

\* A worker's process dies; the system closes its files and drops its lock.
Crash(w) ==
    /\ store = "file"
    /\ pc[w] # "idle"
    /\ spent.crashes < MaxCrashes
    /\ spent' = [spent EXCEPT !.crashes = @ + 1]
    /\ flock' = IF flock = w THEN Nobody ELSE flock
    /\ lostCount' = (lostCount \/ flock = w)
    /\ fd' = [fd EXCEPT ![w] = "none"]
    /\ Ends(w)
    /\ UNCHANGED <<store, counter, given, boardVars>>

Step(w) ==
    \/ \E id \in Ids : Get(w, id)
    \/ ScanPending(w)
    \/ ScanCompleted(w)
    \/ Ready(w)
    \/ Update(w)
    \/ OpenTmp(w)
    \/ WriteContent(w)
    \/ Rename(w)
    \/ RenameFails(w)
    \/ Create(w)
    \/ Allocate(w)
    \/ WriteCounter(w)
    \/ Crash(w)

Next == \E w \in Workers : Step(w)

Spec == Init /\ [][Next]_vars

(* -- properties -------------------------------------------------------------------------- *)

Contents == Task \union Unreadable \union {NoFile}

(* The shape of the state.                                                   *)
TypeOK ==
    /\ tasks \in [Ids -> Contents]
    /\ tmp \in [Ids -> Contents]
    /\ counter \in 0..MaxTasks
    /\ flock \in Workers \union {Nobody}
    /\ \A w \in Workers : (flock = w) = (pc[w] = "alloc")
    /\ \A w \in Workers : (fd[w] # "none") = (pc[w] = "content")
    /\ \A w \in Workers : (hand[w] = Rest) = (pc[w] = "idle")

(* A task's file holds a whole record unless two updates of that task        *)
(* overlapped: neither a crash nor the renames of other tasks spoil it       *)
(* (FileTaskStore writes a temporary file and renames it).                   *)
WholeUnlessRaced == \A id \in Ids \ raced : tasks[id] \notin Unreadable

(* Every id is handed out once, by all creators of all processes, unless a   *)
(* process died between truncating the counter file and writing the number   *)
(* (allocate_id reads an empty counter as 0 and starts over).                *)
IdsUnique == lostCount \/ \A id \in Ids : given[id] <= 1

(* Two workers hold the claim of one task only if one of them had read it    *)
(* before the other's write (get, check and update are separate).            *)
ExclusiveClaims == \A id \in Ids \ raced : Cardinality(holders[id]) <= 1

(* task_claim hands out a task only when every dependency it writes back was *)
(* completed once, whatever others do to the dependencies meanwhile, unless  *)
(* the task's own record was overwritten by a stale one.                     *)
DependenciesFirst ==
    [][\A w \in Workers : \A id \in Ids \ raced' :
          (hand[w].kind = "claim" /\ hand[w].id = id /\ w \in holders'[id] \ holders[id])
              => hand[w].task.deps \subseteq once]_vars

(* The board's files are sound: records of its types, whole, under ids that  *)
(* are unique.                                                               *)
BoardOK == TypeOK /\ WholeUnlessRaced /\ IdsUnique
=============================================================================
