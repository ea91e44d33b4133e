----------------------------- MODULE TaskProofs -----------------------------
(***************************************************************************)
(* Proofs about TaskBoard for any number of workers, tasks, operations and  *)
(* crashes.                                                                 *)
(***************************************************************************)
EXTENDS TaskBoard, FiniteSetTheorems, TLAPS

USE TaskConstants DEF TaskConstants

Places == {"idle", "scan", "write", "alloc", "open", "content", "rename"}
Kinds == {"none", "create", "claim", "claim_cli", "stop", "stop_cli", "edit"}
Hands == [kind : Kinds, id : 0..MaxTasks, task : Task, ver : Nat,
          need : SUBSET Ids, done : SUBSET Ids, got : SUBSET {"need", "done"}]

(* An operation that is under way is one of the kinds the tools and the     *)
(* command line have, on an id of the board; a claim writes "running".      *)
Busy(h) ==
    /\ h.id \in Ids
    /\ h.kind # "none"
    /\ h.kind \in {"claim", "claim_cli"} => h.task.status = "running"

HandOK ==
    /\ pc \in [Workers -> Places]
    /\ hand \in [Workers -> Hands]
    /\ \A w \in Workers : IF pc[w] = "idle" THEN hand[w] = Rest ELSE Busy(hand[w])

(* The files of the board: records, and who writes one.                     *)
FilesOK ==
    /\ tasks \in [Ids -> Contents]
    /\ tmp \in [Ids -> Contents]
    /\ ver \in [Ids -> Nat]
    /\ holders \in [Ids -> SUBSET Workers]
    /\ fd \in [Workers -> {"none", "tmp", "path", "gone"}]
    /\ \A w \in Workers : fd[w] # "none" <=> pc[w] = "content"

(* The counter is the highest id given out; while its file is truncated the *)
(* holder of the lock has the next one in hand.                             *)
CountInv ==
    /\ counter \in 0..MaxTasks
    /\ flock \in Workers \union {Nobody}
    /\ given \in [Ids -> Nat]
    /\ \A w \in Workers : flock = w <=> pc[w] = "alloc"
    /\ store # "file" => flock = Nobody
    /\ \/ lostCount
       \/ \A id \in Ids :
            /\ given[id] <= 1
            /\ given[id] # 0 =>
                  IF flock = Nobody THEN id <= counter ELSE id < hand[flock].id

(* -- helpers ------------------------------------------------------------------ *)

LEMMA RestTyped == Rest \in Hands /\ Rest.kind = "none"
  BY DEF Rest, Hands, Kinds, New, Task, TaskStatus, Ids

LEMMA NewTyped == \A deps \in SUBSET Ids : New(deps) \in Task
  BY DEF New, Task, TaskStatus

LEMMA CreationTyped ==
  ASSUME NEW id \in Ids, NEW deps \in SUBSET Ids
  PROVE  /\ Creation(id, deps) \in Hands
         /\ Busy(Creation(id, deps))
         /\ Creation(id, deps).id = id
         /\ Creation(id, deps).kind = "create"
         /\ Creation(id, deps).ver = 0
  <1>1. New(deps) \in Task
    BY NewTyped
  <1>2. id \in 0..MaxTasks
    BY DEF Ids
  <1>3. Creation(id, deps).kind = "create" /\ Creation(id, deps).id = id /\ Creation(id, deps).ver = 0
    BY DEF Creation, Rest
  <1>4. Creation(id, deps) \in Hands
    <2> HIDE DEF Ids, Task, New
    <2>1. Rest \in Hands
      BY RestTyped
    <2>2. "create" \in Kinds
      BY DEF Kinds
    <2> QED
      BY <1>1, <1>2, <2>1, <2>2 DEF Creation, Hands
  <1>5. QED
    BY <1>3, <1>4 DEF Busy

(* What the tools and commands make of a record.                            *)
LEMMA OperationsTyped ==
  ASSUME NEW w \in Workers, NEW t \in Task,
         NEW op \in Claims(w, t) \union Stops(t) \union Edits(t)
  PROVE  /\ op.kind \in Kinds \ {"none", "create"}
         /\ op.task \in Task
         /\ op.kind \in {"claim", "claim_cli"} =>
               op.task.status = "running" /\ t.status = "pending"
  <1> USE DEF Kinds
  <1>1. \A s \in TaskStatus : [t EXCEPT !.status = s] \in Task
    BY DEF Task
  <1>2. \A d \in Ids : [t EXCEPT !.deps = @ \union {d}] \in Task
    BY DEF Task
  <1>3. CASE op \in Claims(w, t)
    <2>1. \A a \in Workers \union {"agent"} :
             /\ [t EXCEPT !.status = "running", !.assignee = a] \in Task
             /\ [t EXCEPT !.status = "running", !.assignee = a].status = "running"
      BY DEF Task, TaskStatus
    <2>2. t.status = "pending"
      BY <1>3 DEF Claims
    <2>3. PICK a \in Workers \union {"agent"}, kind \in {"claim", "claim_cli"} :
             op = [kind |-> kind, task |-> [t EXCEPT !.status = "running", !.assignee = a]]
      BY <1>3 DEF Claims
    <2> QED
      BY <2>1, <2>2, <2>3
  <1>4. CASE op \in Stops(t)
    BY <1>1, <1>4 DEF Stops, TaskStatus
  <1>5. CASE op \in Edits(t)
    BY <1>1, <1>2, <1>5 DEF Edits
  <1>6. QED
    BY <1>3, <1>4, <1>5

(* -- operations under way ----------------------------------------------------- *)

(* One worker moves: to rest, or on with an operation.                      *)
LEMMA Moves ==
  ASSUME HandOK, NEW w \in Workers, NEW h \in Hands, NEW p \in Places,
         hand' = [hand EXCEPT ![w] = h], pc' = [pc EXCEPT ![w] = p],
         IF p = "idle" THEN h = Rest ELSE Busy(h)
  PROVE  HandOK'
  <1>1. hand \in [Workers -> Hands] /\ pc \in [Workers -> Places]
    BY DEF HandOK
  <1>2. hand' \in [Workers -> Hands] /\ pc' \in [Workers -> Places]
    BY <1>1
  <1>3. ASSUME NEW v \in Workers
        PROVE  IF pc'[v] = "idle" THEN hand'[v] = Rest ELSE Busy(hand'[v])
    BY <1>1, <1>3 DEF HandOK
  <1>4. QED
    BY <1>2, <1>3 DEF HandOK

LEMMA EndsOK == ASSUME HandOK, NEW w \in Workers, Ends(w) PROVE HandOK'
  BY RestTyped, Moves DEF Ends, Places

(* A worker goes on with what it has in hand.                               *)
LEMMA GoesOn ==
  ASSUME HandOK, NEW w \in Workers, NEW p \in Places \ {"idle"}, pc[w] # "idle",
         hand' = hand, pc' = [pc EXCEPT ![w] = p]
  PROVE  HandOK'
  BY DEF HandOK

(* A claim notes what it has scanned.                                        *)
LEMMA Notes ==
  ASSUME HandOK, NEW w \in Workers, pc[w] # "idle", pc' = pc,
         NEW n \in SUBSET Ids, NEW d \in SUBSET Ids, NEW g \in SUBSET {"need", "done"},
         hand' = [hand EXCEPT ![w] = [@ EXCEPT !.need = n, !.done = d, !.got = g]]
  PROVE  HandOK'
  <1> DEFINE h == [hand[w] EXCEPT !.need = n, !.done = d, !.got = g]
  <1>1. hand[w] \in Hands /\ Busy(hand[w]) /\ pc[w] \in Places
    BY DEF HandOK
  <1>2. h \in Hands
    BY <1>1 DEF Hands
  <1>3. h.id = hand[w].id /\ h.kind = hand[w].kind /\ h.task = hand[w].task
    BY <1>1 DEF Hands
  <1>4. Busy(h)
    BY <1>1, <1>3 DEF Busy
  <1>5. hand' = [hand EXCEPT ![w] = h]
    OBVIOUS
  <1>6. pc' = [pc EXCEPT ![w] = pc[w]]
    BY DEF HandOK
  <1> HIDE DEF h
  <1>7. QED
    BY <1>1, <1>2, <1>4, <1>5, <1>6, Moves

(* A worker that has an id takes it in hand.                                 *)
LEMMA Creates ==
  ASSUME HandOK, NEW w \in Workers, NEW id \in Ids, NEW deps \in SUBSET Ids,
         NEW p \in Places \ {"idle"},
         hand' = [hand EXCEPT ![w] = Creation(id, deps)], pc' = [pc EXCEPT ![w] = p]
  PROVE  HandOK'
  BY CreationTyped, Moves

LEMMA HandStep == HandOK /\ FilesOK /\ CountInv /\ [Next]_vars => HandOK'
  <1> SUFFICES ASSUME HandOK, FilesOK, CountInv, [Next]_vars
               PROVE  HandOK'
    OBVIOUS
  <1> USE DEF Places
  <1>1. ASSUME NEW w \in Workers, NEW id \in Ids, Get(w, id)
        PROVE  HandOK'
    <2>1. PICK op \in Claims(w, tasks[id]) \union Stops(tasks[id]) \union Edits(tasks[id]) :
            /\ hand' = [hand EXCEPT ![w] = [Rest EXCEPT !.kind = op.kind, !.id = id,
                                              !.task = op.task, !.ver = ver[id]]]
            /\ pc' = [pc EXCEPT ![w] = IF op.kind = "claim" THEN "scan"
                                       ELSE IF store = "file" THEN "open" ELSE "write"]
      BY <1>1 DEF Get
    <2>2. tasks[id] \in Task
      BY <1>1 DEF Get, Exists
    <2>3. /\ op.kind \in Kinds \ {"none", "create"}
          /\ op.task \in Task
          /\ op.kind \in {"claim", "claim_cli"} => op.task.status = "running"
      BY <2>2, OperationsTyped
    <2> DEFINE h == [Rest EXCEPT !.kind = op.kind, !.id = id, !.task = op.task, !.ver = ver[id]]
    <2>4. h \in Hands /\ h.kind = op.kind /\ h.id = id /\ h.task = op.task
      <3>1. ver[id] \in Nat /\ id \in 0..MaxTasks
        BY DEF FilesOK, Ids
      <3> QED
        BY <2>3, <3>1, RestTyped DEF Hands
    <2>5. Busy(h)
      BY <2>3, <2>4 DEF Busy
    <2> HIDE DEF h
    <2> QED
      BY <2>1, <2>4, <2>5, Moves DEF h
  <1>2. ASSUME NEW w \in Workers, ScanPending(w)
        PROVE  HandOK'
    <2>1. CASE Ends(w)
      BY <2>1, EndsOK
    <2>2. CASE ~Ends(w)
      <3> DEFINE t == tasks[hand[w].id]
                 d == IF store = "database" THEN Completed ELSE hand[w].done
                 g == hand[w].got \union (IF store = "database" THEN {"need", "done"} ELSE {"need"})
      <3>1. hand[w] \in Hands /\ pc[w] # "idle"
        BY <1>2 DEF ScanPending, HandOK
      <3>2. t \in Task /\ pc' = pc
        BY <1>2, <2>2 DEF ScanPending, Exists
      <3>3. t.deps \in SUBSET Ids
        BY <3>2 DEF Task
      <3>4. d \in SUBSET Ids /\ g \in SUBSET {"need", "done"}
        BY <3>1 DEF Hands, Completed
      <3>5. hand' = [hand EXCEPT ![w].need = t.deps, ![w].done = IF store = "database" THEN Completed ELSE @,
                        ![w].got = @ \union (IF store = "database" THEN {"need", "done"} ELSE {"need"})]
        BY <1>2, <2>2 DEF ScanPending
      <3>6. hand' = [hand EXCEPT ![w] = [@ EXCEPT !.need = t.deps, !.done = d, !.got = g]]
        BY <3>1, <3>5 DEF Hands, HandOK
      <3> HIDE DEF t, d, g
      <3> QED
        BY <3>1, <3>2, <3>3, <3>4, <3>6, Notes
    <2> QED
      BY <2>1, <2>2
  <1>3. ASSUME NEW w \in Workers, ScanCompleted(w)
        PROVE  HandOK'
    <2>1. CASE Ends(w)
      BY <2>1, EndsOK
    <2>2. CASE ~Ends(w)
      <3> DEFINE g == hand[w].got \union {"done"}
      <3>1. hand[w] \in Hands /\ pc[w] # "idle"
        BY <1>3 DEF ScanCompleted, HandOK
      <3>2. pc' = pc
        BY <1>3, <2>2 DEF ScanCompleted
      <3>3. Completed \in SUBSET Ids /\ g \in SUBSET {"need", "done"} /\ hand[w].need \in SUBSET Ids
        BY <3>1 DEF Hands, Completed
      <3>4. hand' = [hand EXCEPT ![w].done = Completed, ![w].got = @ \union {"done"}]
        BY <1>3, <2>2 DEF ScanCompleted
      <3>5. hand' = [hand EXCEPT ![w] = [@ EXCEPT !.need = hand[w].need, !.done = Completed, !.got = g]]
        BY <3>1, <3>4 DEF Hands, HandOK
      <3> HIDE DEF g
      <3> QED
        BY <3>1, <3>2, <3>3, <3>5, Notes
    <2> QED
      BY <2>1, <2>2
  <1>4. ASSUME NEW w \in Workers, Ready(w)
        PROVE  HandOK'
    <2>1. CASE Ends(w)
      BY <2>1, EndsOK
    <2>2. CASE ~Ends(w)
      <3>1. /\ pc[w] # "idle"
            /\ hand' = hand
            /\ \E p \in {"open", "write"} : pc' = [pc EXCEPT ![w] = p]
        BY <1>4, <2>2 DEF Ready
      <3> QED
        BY <3>1, GoesOn
    <2> QED
      BY <2>1, <2>2
  <1>5. ASSUME NEW w \in Workers, Update(w) \/ Rename(w) \/ RenameFails(w) \/ Crash(w)
        PROVE  HandOK'
    BY <1>5, EndsOK DEF Update, Rename, RenameFails, Crash
  <1>6. ASSUME NEW w \in Workers, OpenTmp(w) \/ WriteContent(w)
        PROVE  HandOK'
    <2>1. /\ pc[w] # "idle"
          /\ hand' = hand
          /\ \E p \in {"content", "rename"} : pc' = [pc EXCEPT ![w] = p]
      BY <1>6 DEF OpenTmp, WriteContent
    <2> QED
      BY <2>1, GoesOn
  <1>7. ASSUME NEW w \in Workers, Create(w) \/ Allocate(w)
        PROVE  HandOK'
    <2>1. counter + 1 \in Ids
      BY <1>7 DEF Create, Allocate, CountInv, Ids
    <2>2. PICK deps \in SUBSET Ids : hand' = [hand EXCEPT ![w] = Creation(counter + 1, deps)]
      BY <1>7 DEF Create, Allocate, FirstDeps
    <2>3. \E p \in {"write", "alloc"} : pc' = [pc EXCEPT ![w] = p]
      BY <1>7 DEF Create, Allocate
    <2> QED
      BY <2>1, <2>2, <2>3, Creates
  <1>8. ASSUME NEW w \in Workers, WriteCounter(w)
        PROVE  HandOK'
    <2>1. PICK deps \in SUBSET Ids : hand' = [hand EXCEPT ![w] = Creation(@.id, deps)]
      BY <1>8 DEF WriteCounter, FirstDeps
    <2>2. hand[w].id \in Ids /\ pc' = [pc EXCEPT ![w] = "open"]
      BY <1>8 DEF WriteCounter, HandOK, Busy
    <2>3. hand' = [hand EXCEPT ![w] = Creation(hand[w].id, deps)]
      BY <2>1
    <2> QED
      BY <2>2, <2>3, Creates
  <1>9. CASE UNCHANGED vars
    BY <1>9 DEF vars, HandOK
  <1>10. QED
    BY <1>1, <1>2, <1>3, <1>4, <1>5, <1>6, <1>7, <1>8, <1>9 DEF Next, Step

(* -- the files ------------------------------------------------------------------ *)

LEMMA Published ==
  ASSUME FilesOK, NEW id \in Ids, NEW content \in Contents, Publish(id, content)
  PROVE  tasks' \in [Ids -> Contents] /\ ver' \in [Ids -> Nat]
  BY DEF FilesOK, Publish

LEMMA ToldTyped ==
  ASSUME FilesOK, NEW w \in Workers, NEW content, hand[w].id \in Ids, Told(w, content)
  PROVE  holders' \in [Ids -> SUBSET Workers]
  <1> DEFINE new == (IF Pending(content) THEN {} ELSE holders[hand[w].id])
                    \union (IF hand[w].kind \in {"claim", "claim_cli"} THEN {w} ELSE {})
  <1>1. holders' = [holders EXCEPT ![hand[w].id] = new]
    BY DEF Told
  <1>2. new \in SUBSET Workers
    BY DEF FilesOK
  <1> HIDE DEF new
  <1> QED
    BY <1>1, <1>2 DEF FilesOK

LEMMA FilesStep == HandOK /\ FilesOK /\ [Next]_vars => FilesOK'
  <1> SUFFICES ASSUME HandOK, FilesOK, [Next]_vars
               PROVE  FilesOK'
    OBVIOUS
  <1>1. ASSUME NEW w \in Workers, UNCHANGED boardVars, UNCHANGED fd,
               UNCHANGED pc \/ \E p \in Places \ {"content"} : pc' = [pc EXCEPT ![w] = p],
               pc[w] # "content"
        PROVE  FilesOK'
    BY <1>1 DEF FilesOK, boardVars, HandOK
  <1>2. ASSUME NEW w \in Workers,
               \/ \E id \in Ids : Get(w, id)
               \/ ScanPending(w) \/ ScanCompleted(w) \/ Ready(w)
               \/ RenameFails(w) \/ Create(w) \/ Allocate(w) \/ WriteCounter(w)
        PROVE  FilesOK'
    <2>1. UNCHANGED boardVars /\ UNCHANGED fd /\ pc[w] # "content"
      BY <1>2 DEF Get, ScanPending, ScanCompleted, Ready, RenameFails, Create, Allocate,
                  WriteCounter, Begin
    <2>2. UNCHANGED pc \/ \E p \in Places \ {"content"} : pc' = [pc EXCEPT ![w] = p]
      BY <1>2 DEF Get, ScanPending, ScanCompleted, Ready, RenameFails, Create, Allocate,
                  WriteCounter, Ends, Places
    <2> QED
      BY <1>1, <2>1, <2>2
  <1>3. ASSUME NEW w \in Workers, Crash(w)
        PROVE  FilesOK'
    BY <1>3 DEF Crash, Ends, FilesOK, boardVars, HandOK
  <1>4. ASSUME NEW w \in Workers, Update(w)
        PROVE  FilesOK'
    <2>1. hand[w] \in Hands /\ hand[w].id \in Ids
      BY <1>4 DEF Update, HandOK, Busy
    <2>2. hand[w].task \in Contents
      BY <2>1 DEF Hands, Contents
    <2>3. /\ tasks' \in [Ids -> Contents] /\ ver' \in [Ids -> Nat]
          /\ holders' \in [Ids -> SUBSET Workers]
      BY <1>4, <2>1, <2>2, Published, ToldTyped DEF Update
    <2>4. tmp' = tmp /\ fd' = fd /\ pc' = [pc EXCEPT ![w] = "idle"] /\ pc[w] # "content"
      BY <1>4 DEF Update, Ends
    <2> QED
      BY <2>3, <2>4 DEF FilesOK, HandOK
  <1>5. ASSUME NEW w \in Workers, OpenTmp(w)
        PROVE  FilesOK'
    <2>1. Empty \in Contents
      BY DEF Contents, Unreadable
    <2> QED
      BY <1>5, <2>1 DEF OpenTmp, FilesOK, HandOK
  <1>6. ASSUME NEW w \in Workers, WriteContent(w)
        PROVE  FilesOK'
    <2> DEFINE id == hand[w].id
    <2>1. hand[w] \in Hands /\ id \in Ids
      BY <1>6 DEF WriteContent, HandOK, Busy
    <2>2. \A old : Over(old, hand[w].task) \subseteq Contents
      BY <2>1 DEF Over, Hands, Contents, Unreadable
    <2>3. /\ tasks' \in [Ids -> Contents] /\ ver' \in [Ids -> Nat]
          /\ holders' \in [Ids -> SUBSET Workers] /\ tmp' \in [Ids -> Contents]
      <3>1. CASE fd[w] = "tmp"
        BY <1>6, <2>1, <2>2, <3>1 DEF WriteContent, FilesOK
      <3>2. CASE fd[w] = "path"
        <4>1. PICK new \in Over(tasks[id], hand[w].task) :
                 /\ Publish(id, new)
                 /\ holders' = [holders EXCEPT ![id] = IF Pending(new) THEN {} ELSE @]
          BY <1>6, <3>2 DEF WriteContent
        <4>2. new \in Contents
          BY <2>2
        <4>3. tmp' = tmp
          BY <1>6, <3>2 DEF WriteContent
        <4>4. holders' \in [Ids -> SUBSET Workers]
          BY <2>1, <4>1 DEF FilesOK
        <4> QED
          BY <2>1, <4>1, <4>2, <4>3, <4>4, Published DEF FilesOK
      <3>3. CASE fd[w] \notin {"tmp", "path"}
        BY <1>6, <3>3 DEF WriteContent, FilesOK
      <3> QED
        BY <3>1, <3>2, <3>3
    <2>4. fd' = [fd EXCEPT ![w] = "none"] /\ pc' = [pc EXCEPT ![w] = "rename"]
      BY <1>6 DEF WriteContent
    <2> QED
      BY <2>3, <2>4 DEF FilesOK, HandOK
  <1>7. ASSUME NEW w \in Workers, Rename(w)
        PROVE  FilesOK'
    <2> DEFINE id == hand[w].id
    <2>1. hand[w] \in Hands /\ id \in Ids
      BY <1>7 DEF Rename, HandOK, Busy
    <2>2. tmp[id] \in Contents
      BY <2>1 DEF FilesOK
    <2>3. /\ tasks' \in [Ids -> Contents] /\ ver' \in [Ids -> Nat]
          /\ holders' \in [Ids -> SUBSET Workers]
      BY <1>7, <2>1, <2>2, Published, ToldTyped DEF Rename
    <2>4. tmp' \in [Ids -> Contents]
      <3>1. NoFile \in Contents
        BY DEF Contents
      <3> QED
        BY <1>7, <3>1 DEF Rename, FilesOK
    <2>5. /\ fd' \in [Workers -> {"none", "tmp", "path", "gone"}]
          /\ \A v \in Workers : fd'[v] # "none" <=> fd[v] # "none"
      BY <1>7 DEF Rename, FilesOK
    <2>6. pc' = [pc EXCEPT ![w] = "idle"] /\ pc[w] # "content"
      BY <1>7 DEF Rename, Ends
    <2> QED
      BY <2>3, <2>4, <2>5, <2>6 DEF FilesOK, HandOK
  <1>8. CASE UNCHANGED vars
    BY <1>8 DEF vars, FilesOK
  <1>9. QED
    BY <1>2, <1>3, <1>4, <1>5, <1>6, <1>7, <1>8 DEF Next, Step

(* -- the counter ------------------------------------------------------------------ *)

LEMMA CountStep == HandOK /\ CountInv /\ [Next]_vars => CountInv'
  <1> SUFFICES ASSUME HandOK, CountInv, [Next]_vars
               PROVE  CountInv'
    OBVIOUS
  <1> USE DEF Ids
  <1>1. ASSUME NEW w \in Workers, pc[w] # "alloc", UNCHANGED <<store, idVars>>,
               UNCHANGED pc \/ \E p \in Places \ {"alloc"} : pc' = [pc EXCEPT ![w] = p],
               \A v \in Workers \ {w} : hand'[v] = hand[v]
        PROVE  CountInv'
    <2>1. \A v \in Workers : pc'[v] = "alloc" <=> pc[v] = "alloc"
      BY <1>1 DEF HandOK, Places
    <2>2. flock # Nobody => hand'[flock] = hand[flock]
      BY <1>1 DEF CountInv
    <2>3. UNCHANGED <<store, counter, flock, given, lostCount>>
      BY <1>1 DEF idVars
    <2> QED
      BY <2>1, <2>2, <2>3 DEF CountInv
  <1>2. ASSUME NEW w \in Workers,
               \/ \E id \in Ids : Get(w, id)
               \/ ScanPending(w) \/ ScanCompleted(w) \/ Ready(w) \/ Update(w)
               \/ OpenTmp(w) \/ WriteContent(w) \/ Rename(w) \/ RenameFails(w)
        PROVE  CountInv'
    <2>1. pc[w] # "alloc" /\ UNCHANGED <<store, idVars>>
      BY <1>2 DEF Get, ScanPending, ScanCompleted, Ready, Update, OpenTmp, WriteContent, Rename,
                  RenameFails, Begin
    <2>2. UNCHANGED pc \/ \E p \in Places \ {"alloc"} : pc' = [pc EXCEPT ![w] = p]
      BY <1>2 DEF Get, ScanPending, ScanCompleted, Ready, Update, OpenTmp, WriteContent, Rename,
                  RenameFails, Ends, Places
    <2>3. \A v \in Workers \ {w} : hand'[v] = hand[v]
      BY <1>2 DEF Get, ScanPending, ScanCompleted, Ready, Update, OpenTmp, WriteContent, Rename,
                  RenameFails, Ends, HandOK
    <2> QED
      BY <1>1, <2>1, <2>2, <2>3
  <1>3. ASSUME NEW w \in Workers, Create(w)
        PROVE  CountInv'
    <2>1. flock = Nobody /\ flock' = Nobody /\ store' = store /\ lostCount' = lostCount
      BY <1>3 DEF Create, CountInv
    <2>2. /\ counter \in 0..MaxTasks /\ counter < MaxTasks /\ counter' = counter + 1
          /\ given' = [given EXCEPT ![counter + 1] = @ + 1]
      BY <1>3 DEF Create, CountInv
    <2>3. pc' = [pc EXCEPT ![w] = "write"] /\ pc[w] = "idle"
      BY <1>3 DEF Create, Begin
    <2>4. \A v \in Workers : pc'[v] # "alloc"
      BY <2>1, <2>3 DEF CountInv, HandOK
    <2> QED
      BY <2>1, <2>2, <2>4 DEF CountInv
  <1>4. ASSUME NEW w \in Workers, Allocate(w)
        PROVE  CountInv'
    <2>1. /\ flock = Nobody /\ flock' = w /\ store' = store /\ lostCount' = lostCount
          /\ given' = given /\ counter' = 0 /\ store = "file"
          /\ pc' = [pc EXCEPT ![w] = "alloc"]
      BY <1>4 DEF Allocate
    <2>2. hand'[w].id = counter + 1
      <3>1. counter + 1 \in Ids
        BY <1>4 DEF Allocate, CountInv
      <3> QED
        BY <1>4, <3>1, CreationTyped DEF Allocate, HandOK
    <2>3. \A v \in Workers : pc[v] # "alloc"
      BY <2>1 DEF CountInv
    <2> QED
      BY <2>1, <2>2, <2>3 DEF CountInv, HandOK
  <1>5. ASSUME NEW w \in Workers, WriteCounter(w)
        PROVE  CountInv'
    <2>1. /\ flock = w /\ flock' = Nobody /\ store' = store /\ lostCount' = lostCount
          /\ given' = [given EXCEPT ![hand[w].id] = @ + 1] /\ counter' = hand[w].id
          /\ pc' = [pc EXCEPT ![w] = "open"]
      BY <1>5 DEF WriteCounter, CountInv
    <2>2. hand[w].id \in Ids
      BY <1>5 DEF WriteCounter, HandOK, Busy
    <2>3. \A v \in Workers : pc'[v] # "alloc"
      BY <2>1 DEF CountInv, HandOK
    <2> QED
      BY <2>1, <2>2, <2>3 DEF CountInv
  <1>6. ASSUME NEW w \in Workers, Crash(w)
        PROVE  CountInv'
    <2>1. /\ flock' = (IF flock = w THEN Nobody ELSE flock) /\ store' = store
          /\ lostCount' = (lostCount \/ flock = w)
          /\ given' = given /\ counter' = counter
          /\ pc' = [pc EXCEPT ![w] = "idle"] /\ hand' = [hand EXCEPT ![w] = Rest]
      BY <1>6 DEF Crash, Ends
    <2>2. CASE flock = w
      BY <2>1, <2>2 DEF CountInv, HandOK
    <2>3. CASE flock # w
      <3>1. flock # Nobody => hand'[flock] = hand[flock]
        BY <2>1, <2>3 DEF CountInv
      <3> QED
        BY <2>1, <2>3, <3>1 DEF CountInv, HandOK
    <2> QED
      BY <2>2, <2>3
  <1>7. CASE UNCHANGED vars
    BY <1>7 DEF vars, CountInv
  <1>8. QED
    BY <1>2, <1>3, <1>4, <1>5, <1>6, <1>7 DEF Next, Step

(* -- the records -------------------------------------------------------------------- *)

ClaimKinds == {"claim", "claim_cli"}

(* A task whose updates never overlapped: its record is whole, at most one  *)
(* worker is writing it, out of what it read last, and into a temporary     *)
(* file of its own; nobody was told to have claimed a pending task, and     *)
(* who has read the current record and claims it has read it pending.       *)
Sound(id) ==
    /\ tasks[id] \notin Unreadable
    /\ \A w \in Workers : Writing(w, id) =>
          /\ hand[w].ver = ver[id]
          /\ \A v \in Workers : Writing(v, id) => v = w
          /\ pc[w] = "content" => fd[w] = "tmp" /\ tmp[id] = Empty
          /\ pc[w] = "rename" => tmp[id] = hand[w].task
    /\ Pending(tasks[id]) => holders[id] = {}
    /\ holders[id] = {} \/ \E w \in Workers : holders[id] = {w}
    /\ \A w \in Workers :
          hand[w].kind \in ClaimKinds /\ hand[w].id = id /\ hand[w].ver = ver[id] => Pending(tasks[id])

(* No worker has read a version that is still to come.                      *)
ReadPast == \A w \in Workers : \A id \in Ids : hand[w].id = id => hand[w].ver <= ver[id]

RecordInv == ReadPast /\ \A id \in Ids : id \notin raced => Sound(id)

(* What goes on at other tasks leaves a task sound.                         *)
LEMMA Elsewhere ==
  ASSUME NEW id \in Ids, Sound(id), NEW w \in Workers, hand[w].id # id, hand'[w].id # id,
         tasks'[id] = tasks[id], ver'[id] = ver[id], tmp'[id] = tmp[id], holders'[id] = holders[id],
         \A v \in Workers \ {w} : /\ hand'[v] = hand[v] /\ pc'[v] = pc[v]
                                  /\ hand[v].id = id => fd'[v] = fd[v]
  PROVE  Sound(id)'
  <1>1. \A v \in Workers : (Writing(v, id)' <=> Writing(v, id)) /\ (Writing(v, id) => v # w)
    BY DEF Writing
  <1>2. \A v \in Workers : Writing(v, id)' =>
          /\ hand'[v].ver = ver'[id]
          /\ \A u \in Workers : Writing(u, id)' => u = v
          /\ pc'[v] = "content" => fd'[v] = "tmp" /\ tmp'[id] = Empty
          /\ pc'[v] = "rename" => tmp'[id] = hand'[v].task
    BY <1>1 DEF Sound, Writing
  <1>3. \A v \in Workers : hand'[v].kind \in ClaimKinds /\ hand'[v].id = id /\ hand'[v].ver = ver'[id]
                             => Pending(tasks'[id])
    BY DEF Sound
  <1>4. QED
    BY <1>2, <1>3 DEF Sound, Pending

(* A worker moves that neither wrote nor writes a file.                     *)
LEMMA Calm ==
  ASSUME RecordInv, HandOK, NEW w \in Workers, NEW p \in Places \ {"content", "rename"},
         UNCHANGED boardVars, pc' = [pc EXCEPT ![w] = p],
         \A v \in Workers \ {w} : hand'[v] = hand[v] /\ fd'[v] = fd[v],
         \A id \in Ids : hand'[w].id = id =>
            /\ hand'[w].ver <= ver[id]
            /\ id \notin raced /\ hand'[w].kind \in ClaimKinds /\ hand'[w].ver = ver[id]
                  => Pending(tasks[id])
  PROVE  RecordInv'
  <1>1. UNCHANGED <<tasks, tmp, ver, raced, holders>>
    BY DEF boardVars
  <1>2. ReadPast'
    BY <1>1 DEF RecordInv, ReadPast
  <1>3. ASSUME NEW id \in Ids, id \notin raced
        PROVE  Sound(id)'
    <2>1. Sound(id)
      BY <1>3 DEF RecordInv
    <2>2. \A v \in Workers : Writing(v, id)' => Writing(v, id) /\ v # w /\ pc'[v] = pc[v] /\ hand'[v] = hand[v]
      BY DEF Writing, HandOK
    <2>3. \A v \in Workers : Writing(v, id)' =>
            /\ hand'[v].ver = ver'[id]
            /\ \A u \in Workers : Writing(u, id)' => u = v
            /\ pc'[v] = "content" => fd'[v] = "tmp" /\ tmp'[id] = Empty
            /\ pc'[v] = "rename" => tmp'[id] = hand'[v].task
      BY <1>1, <2>1, <2>2 DEF Sound
    <2>4. \A v \in Workers : hand'[v].kind \in ClaimKinds /\ hand'[v].id = id /\ hand'[v].ver = ver'[id]
                               => Pending(tasks'[id])
      BY <1>1, <1>3, <2>1 DEF Sound
    <2>5. QED
      BY <1>1, <2>1, <2>3, <2>4 DEF Sound, Pending
  <1>4. QED
    BY <1>1, <1>2, <1>3 DEF RecordInv

(* The only writer of a task publishes what it made of the current record.  *)
LEMMA Publishes ==
  ASSUME HandOK, FilesOK, ReadPast, NEW w \in Workers, NEW id \in Ids, hand[w].id = id, pc[w] # "idle",
         Sound(id), hand[w].ver = ver[id], \A v \in Workers \ {w} : ~Writing(v, id),
         Publish(id, hand[w].task), Told(w, hand[w].task), Ends(w)
  PROVE  Sound(id)'
  <1> DEFINE claims == hand[w].kind \in ClaimKinds
  <1>1. hand[w] \in Hands /\ Busy(hand[w])
    BY DEF HandOK
  <1>2. hand[w].task \in Task
    BY <1>1 DEF Hands
  <1>3. tasks'[id] = hand[w].task /\ ver'[id] = ver[id] + 1 /\ ver[id] \in Nat
    BY DEF Publish, FilesOK
  <1>4. hand' = [hand EXCEPT ![w] = Rest] /\ pc' = [pc EXCEPT ![w] = "idle"]
    BY DEF Ends
  <1>5. hand'[w] = Rest /\ pc'[w] = "idle" /\ \A v \in Workers \ {w} : hand'[v] = hand[v] /\ pc'[v] = pc[v]
    BY <1>4 DEF HandOK
  <1>6. tasks'[id] \notin Unreadable
    BY <1>2, <1>3, ContentsDistinct DEF ContentsDistinct, Unreadable
  <1>7. \A v \in Workers : ~Writing(v, id)'
    BY <1>5 DEF Writing
  <1>8. holders'[id] = (IF Pending(hand[w].task) THEN {} ELSE holders[id])
                       \union (IF claims THEN {w} ELSE {})
    BY DEF Told, FilesOK, ClaimKinds
  <1>9. claims => ~Pending(hand[w].task) /\ holders[id] = {}
    BY <1>1 DEF Busy, Pending, Sound, ClaimKinds
  <1>10. Pending(tasks'[id]) => holders'[id] = {}
    BY <1>3, <1>8, <1>9
  <1>11. holders'[id] = {} \/ \E v \in Workers : holders'[id] = {v}
    BY <1>8, <1>9 DEF Sound
  <1>12. ASSUME NEW v \in Workers, hand'[v].kind \in ClaimKinds, hand'[v].id = id, hand'[v].ver = ver'[id]
         PROVE  FALSE
    <2>1. CASE v = w
      BY <1>5, <1>12, <2>1, RestTyped DEF ClaimKinds
    <2>2. CASE v # w
      <3>1. hand[v].id = id /\ hand[v].ver = ver[id] + 1
        BY <1>3, <1>5, <1>12, <2>2
      <3>2. hand[v].ver <= ver[id]
        BY <3>1 DEF ReadPast
      <3> QED
        BY <1>3, <3>1, <3>2
    <2> QED
      BY <2>1, <2>2
  <1>13. QED
    BY <1>6, <1>7, <1>10, <1>11, <1>12 DEF Sound, Pending

LEMMA RecordStep == HandOK /\ FilesOK /\ RecordInv /\ [Next]_vars => RecordInv'
  <1> SUFFICES ASSUME HandOK, FilesOK, RecordInv, [Next]_vars
               PROVE  RecordInv'
    OBVIOUS
  <1>1. ReadPast /\ \A w \in Workers : hand[w].id \in Ids => hand[w].ver <= ver[hand[w].id]
    BY DEF RecordInv, ReadPast
  <1>rest. Rest.id \notin Ids
    BY DEF Rest, Ids
  <1>2. ASSUME NEW w \in Workers, NEW id \in Ids, Get(w, id)
        PROVE  RecordInv'
    <2>1. PICK op \in Claims(w, tasks[id]) \union Stops(tasks[id]) \union Edits(tasks[id]) :
            /\ hand' = [hand EXCEPT ![w] = [Rest EXCEPT !.kind = op.kind, !.id = id,
                                              !.task = op.task, !.ver = ver[id]]]
            /\ pc' = [pc EXCEPT ![w] = IF op.kind = "claim" THEN "scan"
                                       ELSE IF store = "file" THEN "open" ELSE "write"]
      BY <1>2 DEF Get
    <2>2. tasks[id] \in Task
      BY <1>2 DEF Get, Exists
    <2>3. op.kind \in ClaimKinds => tasks[id].status = "pending"
      BY <2>2, OperationsTyped DEF ClaimKinds
    <2>4. hand'[w].kind = op.kind /\ hand'[w].id = id /\ hand'[w].ver = ver[id] /\ ver[id] \in Nat
      BY <2>1, RestTyped DEF HandOK, FilesOK, Hands
    <2>5. \A v \in Workers \ {w} : hand'[v] = hand[v] /\ fd'[v] = fd[v]
      BY <1>2, <2>1 DEF Get, HandOK
    <2>6. UNCHANGED boardVars /\ \E p \in Places \ {"content", "rename"} : pc' = [pc EXCEPT ![w] = p]
      BY <1>2, <2>1 DEF Get, Places
    <2>7. \A n \in Ids : hand'[w].id = n =>
            /\ hand'[w].ver <= ver[n]
            /\ n \notin raced /\ hand'[w].kind \in ClaimKinds /\ hand'[w].ver = ver[n]
                  => Pending(tasks[n])
      BY <2>2, <2>3, <2>4 DEF Pending
    <2>8. PICK p \in Places \ {"content", "rename"} : pc' = [pc EXCEPT ![w] = p]
      BY <2>6
    <2> QED
      BY <2>5, <2>6, <2>7, <2>8, Calm
  <1>3. ASSUME NEW w \in Workers,
               ScanPending(w) \/ ScanCompleted(w) \/ Ready(w) \/ RenameFails(w) \/ Crash(w)
        PROVE  RecordInv'
    <2>1. UNCHANGED boardVars /\ \A v \in Workers \ {w} : hand'[v] = hand[v] /\ fd'[v] = fd[v]
      BY <1>3 DEF ScanPending, ScanCompleted, Ready, RenameFails, Crash, Ends, HandOK, FilesOK
    <2>2. \E p \in Places \ {"content", "rename"} : pc' = [pc EXCEPT ![w] = p]
      BY <1>3 DEF ScanPending, ScanCompleted, Ready, RenameFails, Crash, Ends, HandOK, Places
    <2>3. \/ hand'[w] = Rest
          \/ /\ hand'[w].id = hand[w].id /\ hand'[w].kind = hand[w].kind /\ hand'[w].ver = hand[w].ver
      BY <1>3 DEF ScanPending, ScanCompleted, Ready, RenameFails, Crash, Ends, HandOK, Hands
    <2>4. \A id \in Ids : hand'[w].id = id =>
            /\ hand'[w].ver <= ver[id]
            /\ id \notin raced /\ hand'[w].kind \in ClaimKinds /\ hand'[w].ver = ver[id]
                  => Pending(tasks[id])
      BY <1>1, <1>rest, <2>3 DEF RecordInv, Sound
    <2> QED
      BY <2>1, <2>2, <2>4, Calm
  <1>4. ASSUME NEW w \in Workers, Create(w) \/ Allocate(w) \/ WriteCounter(w)
        PROVE  RecordInv'
    <2>1. UNCHANGED boardVars /\ \A v \in Workers \ {w} : hand'[v] = hand[v] /\ fd'[v] = fd[v]
      BY <1>4 DEF Create, Allocate, WriteCounter, HandOK, FilesOK
    <2>2. \E p \in Places \ {"content", "rename"} : pc' = [pc EXCEPT ![w] = p]
      BY <1>4 DEF Create, Allocate, WriteCounter, Places
    <2>3. PICK n, deps : hand'[w] = Creation(n, deps)
      BY <1>4 DEF Create, Allocate, WriteCounter, HandOK
    <2>4. hand'[w].ver = 0 /\ hand'[w].kind = "create"
      BY <2>3 DEF Creation, Rest
    <2>5. \A id \in Ids : 0 <= ver[id]
      BY DEF FilesOK
    <2> QED
      BY <2>1, <2>2, <2>4, <2>5, Calm DEF ClaimKinds
  <1>5. ASSUME NEW w \in Workers, Update(w)
        PROVE  RecordInv'
    <2> DEFINE id == hand[w].id
    <2>1. hand[w] \in Hands /\ id \in Ids
      BY <1>5 DEF Update, HandOK, Busy
    <2>2. /\ raced' = Races(w) /\ Publish(id, hand[w].task) /\ Told(w, hand[w].task) /\ Ends(w)
          /\ tmp' = tmp /\ fd' = fd /\ pc[w] # "idle"
      BY <1>5 DEF Update
    <2>3. /\ hand'[w] = Rest /\ pc'[w] = "idle"
          /\ \A v \in Workers \ {w} : hand'[v] = hand[v] /\ pc'[v] = pc[v]
      BY <2>2 DEF Ends, HandOK
    <2>4. \A n \in Ids \ {id} : tasks'[n] = tasks[n] /\ ver'[n] = ver[n] /\ holders'[n] = holders[n]
      BY <2>2 DEF Publish, Told, FilesOK
    <2>5. ver'[id] = ver[id] + 1 /\ ver[id] \in Nat
      BY <2>1, <2>2 DEF Publish, FilesOK
    <2>6. ReadPast'
      BY <1>1, <1>rest, <2>3, <2>4, <2>5 DEF ReadPast, HandOK, Hands
    <2>7. ASSUME NEW n \in Ids, n \notin raced'
          PROVE  Sound(n)'
      <3>1. Sound(n)
        BY <2>2, <2>7 DEF Races, RecordInv
      <3>2. CASE n = id
        <4>1. hand[w].ver = ver[id] /\ \A v \in Workers \ {w} : ~Writing(v, id)
          BY <2>2, <2>7, <3>2 DEF Races
        <4> QED
          BY <1>1, <2>1, <2>2, <3>1, <3>2, <4>1, Publishes
      <3>3. CASE n # id
        BY <1>rest, <2>2, <2>3, <2>4, <3>1, <3>3, Elsewhere
      <3> QED
        BY <3>2, <3>3
    <2> QED
      BY <2>6, <2>7 DEF RecordInv
  <1>6. ASSUME NEW w \in Workers, OpenTmp(w)
        PROVE  RecordInv'
    <2> DEFINE id == hand[w].id
    <2>1. hand[w] \in Hands /\ id \in Ids
      BY <1>6 DEF OpenTmp, HandOK, Busy
    <2>2. /\ raced' = Races(w) /\ tmp' = [tmp EXCEPT ![id] = Empty] /\ fd' = [fd EXCEPT ![w] = "tmp"]
          /\ pc' = [pc EXCEPT ![w] = "content"] /\ UNCHANGED <<tasks, hand, ver, holders>>
      BY <1>6 DEF OpenTmp
    <2>3. ReadPast'
      BY <1>1, <2>2 DEF ReadPast
    <2>4. ASSUME NEW n \in Ids, n \notin raced'
          PROVE  Sound(n)'
      <3>1. Sound(n)
        BY <2>2, <2>4 DEF Races, RecordInv
      <3>2. CASE n = id
        <4>1. hand[w].ver = ver[id] /\ \A v \in Workers \ {w} : ~Writing(v, id)
          BY <2>2, <2>4, <3>2 DEF Races
        <4>2. \A v \in Workers : Writing(v, id)' => v = w
          BY <2>2, <4>1 DEF Writing, HandOK
        <4>3. pc'[w] = "content" /\ fd'[w] = "tmp" /\ tmp'[id] = Empty
          BY <2>1, <2>2 DEF HandOK, FilesOK
        <4>4. \A v \in Workers : Writing(v, id)' =>
                /\ hand'[v].ver = ver'[id]
                /\ \A u \in Workers : Writing(u, id)' => u = v
                /\ pc'[v] = "content" => fd'[v] = "tmp" /\ tmp'[id] = Empty
                /\ pc'[v] = "rename" => tmp'[id] = hand'[v].task
          BY <2>2, <4>1, <4>2, <4>3
        <4> QED
          BY <2>2, <3>1, <3>2, <4>4 DEF Sound, Pending
      <3>3. CASE n # id
        <4>1. tmp'[n] = tmp[n] /\ \A v \in Workers \ {w} : fd'[v] = fd[v] /\ pc'[v] = pc[v]
          BY <2>2, <3>3 DEF FilesOK, HandOK
        <4> QED
          BY <2>2, <3>1, <3>3, <4>1, Elsewhere
      <3> QED
        BY <3>2, <3>3
    <2> QED
      BY <2>3, <2>4 DEF RecordInv
  <1>7. ASSUME NEW w \in Workers, WriteContent(w)
        PROVE  RecordInv'
    <2> DEFINE id == hand[w].id
    <2>1. hand[w] \in Hands /\ id \in Ids /\ pc[w] = "content"
      BY <1>7 DEF WriteContent, HandOK, Busy
    <2>2. /\ fd' = [fd EXCEPT ![w] = "none"] /\ pc' = [pc EXCEPT ![w] = "rename"]
          /\ UNCHANGED <<hand, raced>>
      BY <1>7 DEF WriteContent
    <2>3. \A n \in Ids \ {id} : /\ tasks'[n] = tasks[n] /\ ver'[n] = ver[n] /\ tmp'[n] = tmp[n]
                                /\ holders'[n] = holders[n]
      <3>1. CASE fd[w] = "tmp"
        BY <1>7, <3>1 DEF WriteContent, FilesOK
      <3>2. CASE fd[w] = "path"
        BY <1>7, <3>2 DEF WriteContent, Publish, FilesOK
      <3>3. CASE fd[w] \notin {"tmp", "path"}
        BY <1>7, <3>3 DEF WriteContent
      <3> QED
        BY <3>1, <3>2, <3>3
    <2>4. ver'[id] = ver[id] \/ ver'[id] = ver[id] + 1
      BY <1>7, <2>1 DEF WriteContent, Publish, FilesOK
    <2>5. ReadPast'
      <3>1. ASSUME NEW v \in Workers, NEW n \in Ids, hand[v].id = n
            PROVE  hand[v].ver <= ver'[n]
        <4>1. hand[v].ver <= ver[n] /\ hand[v].ver \in Nat /\ ver[n] \in Nat
          BY <1>1, <3>1 DEF ReadPast, HandOK, Hands, FilesOK
        <4>2. ver'[n] = ver[n] \/ ver'[n] = ver[n] + 1
          BY <2>3, <2>4
        <4> QED
          BY <4>1, <4>2
      <3> QED
        BY <2>2, <3>1 DEF ReadPast
    <2>6. ASSUME NEW n \in Ids, n \notin raced'
          PROVE  Sound(n)'
      <3>1. Sound(n)
        BY <2>2, <2>6 DEF RecordInv
      <3>2. CASE n = id
        <4>1. Writing(w, id) /\ hand[w].ver = ver[id] /\ fd[w] = "tmp" /\ tmp[id] = Empty
              /\ \A v \in Workers : Writing(v, id) => v = w
          BY <2>1, <3>1, <3>2 DEF Sound, Writing
        <4>2. PICK new \in Over(tmp[id], hand[w].task) : tmp' = [tmp EXCEPT ![id] = new]
          BY <1>7, <4>1 DEF WriteContent
        <4>3. tmp'[id] = hand[w].task /\ UNCHANGED <<tasks, ver, holders>>
          <5>1. new = hand[w].task
            BY <4>1, <4>2 DEF Over
          <5> QED
            BY <1>7, <2>1, <4>1, <4>2, <5>1 DEF WriteContent, FilesOK
        <4>4. \A v \in Workers : Writing(v, id)' => v = w
          BY <2>2, <4>1 DEF Writing, HandOK
        <4>5. pc'[w] = "rename"
          BY <2>2 DEF HandOK
        <4>6. \A v \in Workers : Writing(v, id)' =>
                /\ hand'[v].ver = ver'[id]
                /\ \A u \in Workers : Writing(u, id)' => u = v
                /\ pc'[v] = "content" => fd'[v] = "tmp" /\ tmp'[id] = Empty
                /\ pc'[v] = "rename" => tmp'[id] = hand'[v].task
          BY <2>2, <4>1, <4>3, <4>4, <4>5
        <4> QED
          BY <2>2, <3>1, <3>2, <4>3, <4>6 DEF Sound, Pending
      <3>3. CASE n # id
        <4>1. \A v \in Workers \ {w} : hand'[v] = hand[v] /\ fd'[v] = fd[v] /\ pc'[v] = pc[v]
          BY <2>2 DEF FilesOK, HandOK
        <4>2. hand'[w].id # n /\ hand[w].id # n
          BY <2>2, <3>3
        <4> QED
          BY <2>3, <3>1, <3>3, <4>1, <4>2, Elsewhere
      <3> QED
        BY <3>2, <3>3
    <2> QED
      BY <2>5, <2>6 DEF RecordInv
  <1>8. ASSUME NEW w \in Workers, Rename(w)
        PROVE  RecordInv'
    <2> DEFINE id == hand[w].id
    <2>1. hand[w] \in Hands /\ id \in Ids /\ pc[w] = "rename"
      BY <1>8 DEF Rename, HandOK, Busy
    <2>2. /\ raced' = raced /\ Publish(id, tmp[id]) /\ Told(w, tmp[id]) /\ Ends(w)
          /\ tmp' = [tmp EXCEPT ![id] = NoFile]
      BY <1>8 DEF Rename
    <2>3. /\ hand'[w] = Rest /\ pc'[w] = "idle"
          /\ \A v \in Workers \ {w} : hand'[v] = hand[v] /\ pc'[v] = pc[v]
      BY <2>2 DEF Ends, HandOK
    <2>4. \A n \in Ids \ {id} : /\ tasks'[n] = tasks[n] /\ ver'[n] = ver[n] /\ tmp'[n] = tmp[n]
                                /\ holders'[n] = holders[n]
      BY <2>2 DEF Publish, Told, FilesOK
    <2>5. ver'[id] = ver[id] + 1 /\ ver[id] \in Nat
      BY <2>1, <2>2 DEF Publish, FilesOK
    <2>6. ReadPast'
      BY <1>1, <1>rest, <2>3, <2>4, <2>5 DEF ReadPast, HandOK, Hands
    <2>7. \A v \in Workers : hand[v].id # id => fd'[v] = fd[v]
      BY <1>8 DEF Rename
    <2>8. ASSUME NEW n \in Ids, n \notin raced'
          PROVE  Sound(n)'
      <3>1. Sound(n)
        BY <2>2, <2>8 DEF RecordInv
      <3>2. CASE n = id
        <4>1. hand[w].ver = ver[id] /\ tmp[id] = hand[w].task /\ \A v \in Workers \ {w} : ~Writing(v, id)
          BY <2>1, <3>1, <3>2 DEF Sound, Writing
        <4> QED
          BY <1>1, <2>1, <2>2, <3>1, <3>2, <4>1, Publishes
      <3>3. CASE n # id
        <4>1. hand'[w].id # n /\ hand[w].id # n
          BY <1>rest, <2>3, <3>3
        <4>2. \A v \in Workers \ {w} : hand'[v] = hand[v] /\ pc'[v] = pc[v] /\ (hand[v].id = n => fd'[v] = fd[v])
          BY <2>3, <2>7, <3>3
        <4> QED
          BY <2>4, <3>1, <3>3, <4>1, <4>2, Elsewhere
      <3> QED
        BY <3>2, <3>3
    <2> QED
      BY <2>6, <2>8 DEF RecordInv
  <1>9. CASE UNCHANGED vars
    <2>1. UNCHANGED <<tasks, tmp, fd, pc, hand, ver, raced, holders>>
      BY <1>9 DEF vars
    <2> QED
      BY <2>1 DEF RecordInv, ReadPast, Sound, Writing, Pending
  <1>10. QED
    BY <1>2, <1>3, <1>4, <1>5, <1>6, <1>7, <1>8, <1>9 DEF Next, Step

(* -- theorems ------------------------------------------------------------------------- *)

BoardInv == HandOK /\ FilesOK /\ CountInv /\ RecordInv

LEMMA InitBoard == Init => BoardInv
  <1> SUFFICES ASSUME Init
               PROVE  BoardInv
    OBVIOUS
  <1>1. HandOK
    BY RestTyped DEF Init, HandOK, Places
  <1>2. PICK n \in Starting : \E deps \in [1..n -> SUBSET Ids] :
          /\ \A id \in 1..n : deps[id] \subseteq 1..(id - 1)
          /\ tasks = [id \in Ids |-> IF id <= n THEN New(deps[id]) ELSE NoFile]
          /\ counter = n
          /\ given = [id \in Ids |-> IF id <= n THEN 1 ELSE 0]
    BY DEF Init
  <1>3. PICK deps \in [1..n -> SUBSET Ids] :
          /\ tasks = [id \in Ids |-> IF id <= n THEN New(deps[id]) ELSE NoFile]
          /\ counter = n
          /\ given = [id \in Ids |-> IF id <= n THEN 1 ELSE 0]
    BY <1>2
  <1>4. n \in 0..MaxTasks
    BY <1>2
  <1>5. \A id \in Ids : tasks[id] \in Task \union {NoFile}
    <2>1. ASSUME NEW id \in Ids, id <= n
          PROVE  New(deps[id]) \in Task
      <3>1. id \in 1..n
        BY <1>4, <2>1 DEF Ids
      <3> QED
        BY <1>3, <3>1, NewTyped
    <2> QED
      BY <1>3, <2>1
  <1>6. FilesOK
    <2>1. tasks \in [Ids -> Contents]
      BY <1>3, <1>5 DEF Contents
    <2>2. tmp \in [Ids -> Contents] /\ ver \in [Ids -> Nat] /\ holders \in [Ids -> SUBSET Workers]
      BY DEF Init, Contents
    <2>3. \A w \in Workers : fd[w] = "none" /\ pc[w] = "idle"
      BY DEF Init
    <2>4. fd \in [Workers -> {"none", "tmp", "path", "gone"}]
      BY DEF Init
    <2> QED
      BY <2>1, <2>2, <2>3, <2>4 DEF FilesOK
  <1>7. CountInv
    <2>1. counter \in 0..MaxTasks /\ given \in [Ids -> Nat]
      BY <1>3, <1>4
    <2>2. \A id \in Ids : given[id] <= 1 /\ (given[id] # 0 => id <= counter)
      BY <1>3
    <2> QED
      BY <2>1, <2>2 DEF Init, CountInv
  <1>8. RecordInv
    <2>1. \A id \in Ids : tasks[id] \notin Unreadable
      BY <1>5, ContentsDistinct DEF ContentsDistinct, Unreadable
    <2>2. \A w \in Workers : hand[w] = Rest /\ pc[w] = "idle"
      BY DEF Init
    <2>3. Rest.id \notin Ids
      BY DEF Rest, Ids
    <2> QED
      BY <2>1, <2>2, <2>3 DEF RecordInv, ReadPast, Sound, Writing, Init
  <1> QED
    BY <1>1, <1>6, <1>7, <1>8 DEF BoardInv

LEMMA BoardInvariant == Spec => []BoardInv
  <1>1. BoardInv /\ [Next]_vars => BoardInv'
    BY HandStep, FilesStep, CountStep, RecordStep DEF BoardInv
  <1>2. QED
    BY InitBoard, <1>1, PTL DEF Spec

(* The records, temporary files and counter are of their types; a record is *)
(* whole as long as no two updates of its task overlapped (a file is        *)
(* written under a temporary name and renamed, file_store), whoever crashes *)
(* meanwhile; and no id is given twice unless a crash lost the counter.     *)
THEOREM BoardOKHolds == Spec => []BoardOK
  <1>1. BoardInv => TypeOK
    <2> SUFFICES ASSUME BoardInv
                 PROVE  TypeOK
      OBVIOUS
    <2>1. \A w \in Workers : (hand[w] = Rest) = (pc[w] = "idle")
      BY RestTyped DEF BoardInv, HandOK, Busy
    <2>2. \A w \in Workers : (flock = w) = (pc[w] = "alloc")
      BY DEF BoardInv, CountInv
    <2>3. \A w \in Workers : (fd[w] # "none") = (pc[w] = "content")
      BY DEF BoardInv, FilesOK
    <2> QED
      BY <2>1, <2>2, <2>3 DEF BoardInv, FilesOK, CountInv, TypeOK
  <1>2. BoardInv => WholeUnlessRaced
    BY DEF BoardInv, RecordInv, Sound, WholeUnlessRaced
  <1>3. BoardInv => IdsUnique
    BY DEF BoardInv, CountInv, IdsUnique
  <1>4. BoardInv => BoardOK
    BY <1>1, <1>2, <1>3 DEF BoardOK
  <1>5. QED
    BY BoardInvariant, <1>4, PTL

(* Two workers are told that they claimed a task only if one of them wrote  *)
(* without having read the other's write: the claim reads the record,       *)
(* checks that it is pending and writes it back in separate steps.          *)
THEOREM ExclusiveClaimsHolds == Spec => []ExclusiveClaims
  <1>1. BoardInv => ExclusiveClaims
    <2> SUFFICES ASSUME BoardInv, NEW id \in Ids \ raced
                 PROVE  Cardinality(holders[id]) <= 1
      BY DEF ExclusiveClaims
    <2>1. holders[id] = {} \/ \E w \in Workers : holders[id] = {w}
      BY DEF BoardInv, RecordInv, Sound
    <2>2. CASE holders[id] = {}
      BY <2>2, FS_EmptySet
    <2>3. CASE holders[id] # {}
      <3>1. PICK w \in Workers : holders[id] = {w}
        BY <2>1, <2>3
      <3>2. Cardinality({w}) = 1
        BY FS_Singleton
      <3> QED
        BY <3>1, <3>2
    <2> QED
      BY <2>2, <2>3
  <1>2. QED
    BY BoardInvariant, <1>1, PTL

-----------------------------------------------------------------------------
(* The dependencies of a claimed task.                                      *)

(* A claim that was not overtaken has in hand the dependencies of the       *)
(* record; one that is past the scan found all of them completed.           *)
Scanned(w) ==
    hand[w].kind = "claim" =>
        /\ pc[w] # "scan" => hand[w].got = {"need", "done"} /\ hand[w].need \subseteq hand[w].done
        /\ \A id \in Ids : hand[w].id = id /\ hand[w].ver = ver[id] =>
              /\ hand[w].task.deps = tasks[id].deps
              /\ "need" \in hand[w].got => hand[w].need = hand[w].task.deps

Finished(id) == Exists(id) /\ tasks[id].status = "completed"

ClaimInv ==
    /\ \A id \in Ids : Finished(id) => id \in once
    /\ \A w \in Workers : hand[w].done \subseteq once /\ Scanned(w)

(* Records are replaced, their versions counted, and what is completed is   *)
(* noted.                                                                   *)
Grown ==
    /\ once \subseteq once'
    /\ \A id \in Ids :
          \/ tasks'[id] = tasks[id] /\ ver'[id] = ver[id]
          \/ ver'[id] = ver[id] + 1 /\ (Finished(id)' => id \in once')

LEMMA Unwritten == ASSUME UNCHANGED boardVars PROVE Grown
  BY DEF boardVars, Grown

LEMMA Written ==
  ASSUME FilesOK, NEW id \in Ids, NEW content, Publish(id, content)
  PROVE  Grown
  <1>1. tasks'[id] = content /\ ver'[id] = ver[id] + 1
    BY DEF Publish, FilesOK
  <1>2. \A n \in Ids \ {id} : tasks'[n] = tasks[n] /\ ver'[n] = ver[n]
    BY DEF Publish, FilesOK
  <1>3. once \subseteq once' /\ (content \in Task /\ content.status = "completed" => id \in once')
    BY DEF Publish
  <1>4. QED
    BY <1>1, <1>2, <1>3 DEF Grown, Finished, Exists

(* A worker whose claim is as it was.                                       *)
LEMMA ScannedKeeps ==
  ASSUME HandOK, FilesOK, ReadPast, Grown, NEW v \in Workers, Scanned(v), hand'[v] = hand[v],
         pc'[v] # "scan" => pc[v] # "scan"
  PROVE  Scanned(v)'
  <1> SUFFICES ASSUME hand[v].kind = "claim"
               PROVE  Scanned(v)'
    BY DEF Scanned
  <1>1. ASSUME NEW id \in Ids, hand'[v].id = id, hand'[v].ver = ver'[id]
        PROVE  /\ hand'[v].task.deps = tasks'[id].deps
               /\ "need" \in hand'[v].got => hand'[v].need = hand'[v].task.deps
    <2>1. hand[v].ver \in Nat /\ ver[id] \in Nat /\ hand[v].ver <= ver[id]
      BY <1>1 DEF HandOK, Hands, FilesOK, ReadPast
    <2>2. ver'[id] # ver[id] + 1
      BY <1>1, <2>1
    <2>3. tasks'[id] = tasks[id] /\ ver'[id] = ver[id]
      BY <2>2 DEF Grown
    <2>4. QED
      BY <1>1, <2>3 DEF Scanned
  <1>2. QED
    BY <1>1 DEF Scanned

LEMMA ClaimStep ==
  ASSUME HandOK, FilesOK, ReadPast, ClaimInv, [Next]_vars
  PROVE  ClaimInv'
  <1>rest. Rest.kind = "none" /\ Rest.done = {} /\ Rest \in Hands
    BY RestTyped DEF Rest
  <1>a. ASSUME Grown, NEW w \in Workers,
               \A v \in Workers \ {w} : hand'[v] = hand[v] /\ pc'[v] = pc[v],
               hand'[w].done \subseteq once', Scanned(w)'
        PROVE  ClaimInv'
    <2>1. \A id \in Ids : Finished(id)' => id \in once'
      <3>1. ASSUME NEW id \in Ids, tasks'[id] = tasks[id]
            PROVE  Finished(id)' => id \in once'
        BY <1>a, <3>1 DEF ClaimInv, Finished, Exists, Grown
      <3>2. QED
        BY <1>a, <3>1 DEF Grown
    <2>2. ASSUME NEW v \in Workers \ {w}
          PROVE  hand'[v].done \subseteq once' /\ Scanned(v)'
      <3>1. hand'[v] = hand[v] /\ pc'[v] = pc[v] /\ hand[v].done \subseteq once /\ Scanned(v)
        BY <1>a DEF ClaimInv
      <3>2. once \subseteq once'
        BY <1>a DEF Grown
      <3>3. Scanned(v)'
        BY <1>a, <3>1, ScannedKeeps
      <3>4. QED
        BY <3>1, <3>2, <3>3
    <2>3. QED
      BY <1>a, <2>1, <2>2 DEF ClaimInv
  <1>b. ASSUME Grown, NEW w \in Workers,
               \A v \in Workers \ {w} : hand'[v] = hand[v] /\ pc'[v] = pc[v],
               \/ hand'[w] = Rest
               \/ hand'[w] = hand[w] /\ (pc'[w] # "scan" => pc[w] # "scan")
               \/ hand'[w].kind = "create" /\ hand'[w].done = {}
        PROVE  ClaimInv'
    <2>1. CASE hand'[w] = Rest \/ (hand'[w].kind = "create" /\ hand'[w].done = {})
      BY <1>a, <1>b, <1>rest, <2>1 DEF Scanned
    <2>2. CASE hand'[w] = hand[w] /\ (pc'[w] # "scan" => pc[w] # "scan")
      <3>1. Scanned(w)'
        BY <1>b, <2>2, ScannedKeeps DEF ClaimInv
      <3>2. hand'[w].done \subseteq once'
        BY <1>b, <2>2 DEF ClaimInv, Grown
      <3>3. QED
        BY <1>a, <1>b, <3>1, <3>2
    <2>3. QED
      BY <1>b, <2>1, <2>2
  <1>1. ASSUME NEW w \in Workers, NEW id \in Ids, Get(w, id)
        PROVE  ClaimInv'
    <2>1. PICK op \in Claims(w, tasks[id]) \union Stops(tasks[id]) \union Edits(tasks[id]) :
            /\ hand' = [hand EXCEPT ![w] = [Rest EXCEPT !.kind = op.kind, !.id = id,
                                              !.task = op.task, !.ver = ver[id]]]
            /\ pc' = [pc EXCEPT ![w] = IF op.kind = "claim" THEN "scan"
                                       ELSE IF store = "file" THEN "open" ELSE "write"]
      BY <1>1 DEF Get
    <2>2. UNCHANGED boardVars /\ tasks[id] \in Task
      BY <1>1 DEF Get, Exists
    <2>3. \A v \in Workers \ {w} : hand'[v] = hand[v] /\ pc'[v] = pc[v]
      BY <2>1 DEF HandOK
    <2>4. /\ hand'[w].kind = op.kind /\ hand'[w].id = id /\ hand'[w].task = op.task
          /\ hand'[w].done = {} /\ hand'[w].got = {}
      BY <2>1 DEF HandOK, Rest
    <2>5. pc'[w] = IF op.kind = "claim" THEN "scan" ELSE IF store = "file" THEN "open" ELSE "write"
      BY <2>1 DEF HandOK
    <2>6. op.kind = "claim" => op.task.deps = tasks[id].deps
      <3>1. CASE op \in Claims(w, tasks[id])
        <4>1. PICK a \in Workers \union {"agent"}, kind \in {"claim", "claim_cli"} :
                 op = [kind |-> kind,
                       task |-> [tasks[id] EXCEPT !.status = "running", !.assignee = a]]
          BY <3>1 DEF Claims
        <4>2. QED
          BY <2>2, <4>1 DEF Task
      <3>2. CASE op \in Stops(tasks[id]) \union Edits(tasks[id])
        BY <3>2 DEF Stops, Edits
      <3>3. QED
        BY <3>1, <3>2
    <2>7. Scanned(w)'
      <3>1. UNCHANGED <<tasks, ver>>
        BY <2>2 DEF boardVars
      <3>2. QED
        BY <2>4, <2>5, <2>6, <3>1 DEF Scanned
    <2>8. QED
      BY <1>a, <2>2, <2>3, <2>4, <2>7, Unwritten
  <1>2. ASSUME NEW w \in Workers, ScanPending(w)
        PROVE  ClaimInv'
    <2> DEFINE id == hand[w].id
    <2>1. UNCHANGED boardVars /\ pc[w] = "scan" /\ "need" \notin hand[w].got
      BY <1>2 DEF ScanPending
    <2>2. hand[w] \in Hands /\ id \in Ids
      BY <2>1 DEF HandOK, Busy
    <2>3. CASE Ends(w)
      <3>1. hand'[w] = Rest /\ \A v \in Workers \ {w} : hand'[v] = hand[v] /\ pc'[v] = pc[v]
        BY <2>3 DEF Ends, HandOK
      <3>2. QED
        BY <1>b, <2>1, <3>1, Unwritten
    <2>4. CASE ~Ends(w)
      <3> DEFINE d == IF store = "database" THEN Completed ELSE hand[w].done
                 g == hand[w].got \union (IF store = "database" THEN {"need", "done"} ELSE {"need"})
      <3>1. /\ hand' = [hand EXCEPT ![w].need = tasks[id].deps, ![w].done = d, ![w].got = g]
            /\ pc' = pc
        BY <1>2, <2>4 DEF ScanPending
      <3>2. /\ hand'[w].need = tasks[id].deps /\ hand'[w].done = d /\ hand'[w].got = g
            /\ hand'[w].kind = hand[w].kind /\ hand'[w].id = id /\ hand'[w].ver = hand[w].ver
            /\ hand'[w].task = hand[w].task
            /\ \A v \in Workers \ {w} : hand'[v] = hand[v]
        BY <2>2, <3>1 DEF HandOK, Hands
      <3>3. UNCHANGED <<tasks, ver, once>>
        BY <2>1 DEF boardVars
      <3>4. hand'[w].done \subseteq once'
        <4>1. Completed \subseteq once
          BY DEF ClaimInv, Completed, Finished
        <4>2. hand[w].done \subseteq once
          BY DEF ClaimInv
        <4>3. QED
          BY <3>2, <3>3, <4>1, <4>2
      <3>5. Scanned(w)'
        <4>1. ASSUME hand[w].kind = "claim", NEW n \in Ids, hand[w].id = n, hand[w].ver = ver[n]
              PROVE  hand[w].task.deps = tasks[n].deps
          BY <4>1 DEF ClaimInv, Scanned
        <4>2. ASSUME hand'[w].kind = "claim", NEW n \in Ids, hand'[w].id = n, hand'[w].ver = ver'[n]
              PROVE  hand'[w].task.deps = tasks'[n].deps /\ hand'[w].need = hand'[w].task.deps
          BY <3>2, <3>3, <4>1, <4>2
        <4>3. pc'[w] = "scan"
          BY <2>1, <3>1
        <4>4. QED
          BY <4>2, <4>3 DEF Scanned
      <3>6. QED
        BY <1>a, <2>1, <3>1, <3>2, <3>4, <3>5, Unwritten
    <2>5. QED
      BY <2>3, <2>4
  <1>3. ASSUME NEW w \in Workers, ScanCompleted(w)
        PROVE  ClaimInv'
    <2>1. UNCHANGED boardVars /\ pc[w] = "scan"
      BY <1>3 DEF ScanCompleted
    <2>2. hand[w] \in Hands
      BY DEF HandOK
    <2>3. CASE Ends(w)
      <3>1. hand'[w] = Rest /\ \A v \in Workers \ {w} : hand'[v] = hand[v] /\ pc'[v] = pc[v]
        BY <2>3 DEF Ends, HandOK
      <3>2. QED
        BY <1>b, <2>1, <3>1, Unwritten
    <2>4. CASE ~Ends(w)
      <3>1. /\ hand' = [hand EXCEPT ![w].done = Completed, ![w].got = @ \union {"done"}]
            /\ pc' = pc
        BY <1>3, <2>4 DEF ScanCompleted
      <3>2. /\ hand'[w].need = hand[w].need /\ hand'[w].done = Completed
            /\ hand'[w].got = hand[w].got \union {"done"}
            /\ hand'[w].kind = hand[w].kind /\ hand'[w].id = hand[w].id
            /\ hand'[w].ver = hand[w].ver /\ hand'[w].task = hand[w].task
            /\ \A v \in Workers \ {w} : hand'[v] = hand[v]
        BY <2>2, <3>1 DEF HandOK, Hands
      <3>3. UNCHANGED <<tasks, ver, once>>
        BY <2>1 DEF boardVars
      <3>4. Completed \subseteq once
        BY DEF ClaimInv, Completed, Finished
      <3>5. Scanned(w)'
        <4>1. Scanned(w)
          BY DEF ClaimInv
        <4>2. QED
          BY <2>1, <3>1, <3>2, <3>3, <4>1 DEF Scanned
      <3>6. QED
        BY <1>a, <2>1, <3>1, <3>2, <3>3, <3>4, <3>5, Unwritten
    <2>5. QED
      BY <2>3, <2>4
  <1>4. ASSUME NEW w \in Workers, Ready(w)
        PROVE  ClaimInv'
    <2>1. UNCHANGED boardVars /\ hand[w].got = {"need", "done"}
      BY <1>4 DEF Ready
    <2>2. CASE Ends(w)
      <3>1. hand'[w] = Rest /\ \A v \in Workers \ {w} : hand'[v] = hand[v] /\ pc'[v] = pc[v]
        BY <2>2 DEF Ends, HandOK
      <3>2. QED
        BY <1>b, <2>1, <3>1, Unwritten
    <2>3. CASE ~Ends(w)
      <3>1. /\ hand[w].need \subseteq hand[w].done /\ hand' = hand
            /\ pc' = [pc EXCEPT ![w] = IF store = "file" THEN "open" ELSE "write"]
        BY <1>4, <2>3 DEF Ready
      <3>2. \A v \in Workers \ {w} : hand'[v] = hand[v] /\ pc'[v] = pc[v]
        BY <3>1 DEF HandOK
      <3>3. UNCHANGED <<tasks, ver, once>>
        BY <2>1 DEF boardVars
      <3>4. Scanned(w)' /\ hand'[w].done \subseteq once'
        BY <2>1, <3>1, <3>3 DEF ClaimInv, Scanned
      <3>5. QED
        BY <1>a, <2>1, <3>2, <3>4, Unwritten
    <2>4. QED
      BY <2>2, <2>3
  <1>5. ASSUME NEW w \in Workers, RenameFails(w) \/ Crash(w)
        PROVE  ClaimInv'
    <2>1. UNCHANGED boardVars /\ Ends(w)
      BY <1>5 DEF RenameFails, Crash
    <2>2. hand'[w] = Rest /\ \A v \in Workers \ {w} : hand'[v] = hand[v] /\ pc'[v] = pc[v]
      BY <2>1 DEF Ends, HandOK
    <2>3. QED
      BY <1>b, <2>1, <2>2, Unwritten
  <1>6. ASSUME NEW w \in Workers, Create(w) \/ Allocate(w) \/ WriteCounter(w)
        PROVE  ClaimInv'
    <2>1. UNCHANGED boardVars /\ \A v \in Workers \ {w} : hand'[v] = hand[v] /\ pc'[v] = pc[v]
      BY <1>6 DEF Create, Allocate, WriteCounter, HandOK
    <2>2. PICK n, deps : hand'[w] = Creation(n, deps)
      BY <1>6 DEF Create, Allocate, WriteCounter, HandOK
    <2>3. hand'[w].kind = "create" /\ hand'[w].done = {}
      BY <2>2 DEF Creation, Rest
    <2>4. QED
      BY <1>b, <2>1, <2>3, Unwritten
  <1>7. ASSUME NEW w \in Workers, Update(w) \/ Rename(w)
        PROVE  ClaimInv'
    <2>1. hand[w].id \in Ids
      BY <1>7 DEF Update, Rename, HandOK, Busy
    <2>2. Grown
      BY <1>7, <2>1, Written DEF Update, Rename
    <2>3. hand'[w] = Rest /\ \A v \in Workers \ {w} : hand'[v] = hand[v] /\ pc'[v] = pc[v]
      BY <1>7 DEF Update, Rename, Ends, HandOK
    <2>4. QED
      BY <1>b, <2>2, <2>3
  <1>8. ASSUME NEW w \in Workers, OpenTmp(w) \/ WriteContent(w)
        PROVE  ClaimInv'
    <2>1. hand[w].id \in Ids /\ hand' = hand /\ pc[w] # "scan"
      BY <1>8 DEF OpenTmp, WriteContent, HandOK, Busy
    <2>2. \A v \in Workers \ {w} : pc'[v] = pc[v]
      BY <1>8 DEF OpenTmp, WriteContent, HandOK
    <2>3. Grown
      <3>1. CASE OpenTmp(w)
        BY <3>1 DEF OpenTmp, Grown
      <3>2. CASE WriteContent(w)
        <4>1. CASE UNCHANGED <<tasks, ver, once>>
          BY <4>1 DEF Grown
        <4>2. CASE \E new : Publish(hand[w].id, new)
          <5>1. PICK new : Publish(hand[w].id, new)
            BY <4>2
          <5>2. QED
            BY <2>1, <5>1, Written
        <4>3. QED
          BY <3>2, <4>1, <4>2 DEF WriteContent
      <3>3. QED
        BY <1>8, <3>1, <3>2
    <2>4. QED
      BY <1>b, <2>1, <2>2, <2>3
  <1>9. CASE UNCHANGED vars
    BY <1>9 DEF vars, ClaimInv, Scanned, Finished, Exists
  <1>10. QED
    BY <1>1, <1>2, <1>3, <1>4, <1>5, <1>6, <1>7, <1>8, <1>9 DEF Next, Step

LEMMA ClaimInit == Init => ClaimInv
  <1> SUFFICES ASSUME Init
               PROVE  ClaimInv
    OBVIOUS
  <1>1. \A w \in Workers : hand[w] = Rest
    BY DEF Init
  <1>2. \A w \in Workers : hand[w].done \subseteq once /\ Scanned(w)
    BY <1>1 DEF Scanned, Rest
  <1>3. ASSUME NEW id \in Ids, Finished(id)
        PROVE  FALSE
    <2>1. PICK n \in Starting : \E deps \in [1..n -> SUBSET Ids] :
            tasks = [i \in Ids |-> IF i <= n THEN New(deps[i]) ELSE NoFile]
      BY DEF Init
    <2>2. PICK deps : tasks = [i \in Ids |-> IF i <= n THEN New(deps[i]) ELSE NoFile]
      BY <2>1
    <2>3. tasks[id] = New(deps[id]) \/ tasks[id] = NoFile
      BY <2>2
    <2>4. New(deps[id]).status = "pending"
      BY DEF New
    <2>5. tasks[id] # NoFile
      BY <1>3, ContentsDistinct DEF Finished, Exists, ContentsDistinct
    <2>6. QED
      BY <1>3, <2>3, <2>4, <2>5 DEF Finished
  <1>4. QED
    BY <1>2, <1>3 DEF ClaimInv

(* task_claim hands out a task only when every dependency it writes back    *)
(* was completed once: it reads the record twice, the completed tasks in    *)
(* between or after, and writes last; a claim whose second reading is not   *)
(* of the record it read first has been overtaken, and shows as a race.     *)
THEOREM DependenciesFirstHolds == Spec => DependenciesFirst
  <1> DEFINE Allowed == \A w \in Workers : \A id \in Ids \ raced' :
                          (hand[w].kind = "claim" /\ hand[w].id = id
                              /\ w \in holders'[id] \ holders[id])
                            => hand[w].task.deps \subseteq once
  <1>1. BoardInv /\ ClaimInv /\ [Next]_vars => ClaimInv'
    BY ClaimStep DEF BoardInv, RecordInv
  <1>2. Spec => []ClaimInv
    BY BoardInvariant, ClaimInit, <1>1, PTL DEF Spec
  <1>3. ASSUME BoardInv, ClaimInv, Next
        PROVE  Allowed
    <2> SUFFICES ASSUME NEW w \in Workers, NEW id \in Ids \ raced', hand[w].kind = "claim",
                        hand[w].id = id, w \in holders'[id], w \notin holders[id]
                 PROVE  hand[w].task.deps \subseteq once
      OBVIOUS
    <2>t. HandOK /\ FilesOK /\ RecordInv
      BY <1>3 DEF BoardInv
    <2>1. Update(w) \/ Rename(w)
      <3>1. PICK v \in Workers : Step(v)
        BY <1>3 DEF Next
      <3>2. CASE holders' = holders
        BY <3>2
      <3>3. CASE WriteContent(v)
        <4>1. hand[v].id \in Ids
          BY <2>t, <3>3 DEF WriteContent, HandOK, Busy
        <4>2. holders'[id] \subseteq holders[id]
          BY <2>t, <3>3, <4>1 DEF WriteContent, FilesOK
        <4>3. QED
          BY <4>2
      <3>4. CASE Update(v) \/ Rename(v)
        <4>1. \E content : Told(v, content)
          BY <3>4 DEF Update, Rename
        <4>2. holders'[id] \subseteq holders[id] \union {v}
          BY <2>t, <4>1 DEF Told, FilesOK
        <4>3. v = w
          BY <4>2
        <4>4. QED
          BY <3>4, <4>3
      <3>5. QED
        BY <3>1, <3>2, <3>3, <3>4 DEF Step, Get, ScanPending, ScanCompleted, Ready, OpenTmp,
           RenameFails, Create, Allocate, WriteCounter, Crash, boardVars
    <2>2. pc[w] \in {"write", "rename"}
      BY <2>1 DEF Update, Rename
    <2>3. hand[w].ver = ver[id]
      <3>1. CASE Update(w)
        BY <3>1 DEF Update, Races
      <3>2. CASE Rename(w)
        <4>1. id \notin raced /\ Writing(w, id)
          BY <3>2 DEF Rename, Writing
        <4>2. QED
          BY <2>t, <4>1 DEF RecordInv, Sound
      <3>3. QED
        BY <2>1, <3>1, <3>2
    <2>4. /\ hand[w].got = {"need", "done"} /\ hand[w].need \subseteq hand[w].done
          /\ hand[w].need = hand[w].task.deps /\ hand[w].done \subseteq once
      BY <1>3, <2>2, <2>3 DEF ClaimInv, Scanned
    <2>5. QED
      BY <2>4
  <1>4. BoardInv /\ ClaimInv /\ [Next]_vars => [Allowed]_vars
    BY <1>3
  <1>5. Spec => [][Allowed]_vars
    BY BoardInvariant, <1>2, <1>4, PTL DEF Spec
  <1>6. QED
    BY <1>5 DEF DependenciesFirst
=============================================================================
