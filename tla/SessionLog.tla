----------------------------- MODULE SessionLog -----------------------------
(***************************************************************************)
(* The log of one session (crate vol-session) and its metadata, shared by   *)
(* the runs that use the session: adding messages, compressing the history  *)
(* (SessionContributor::compress) and binding task ids, over the in-memory, *)
(* the file and the database entry store.                                   *)
(*                                                                         *)
(* Two runs use one session at a time when an abandoned run goes on beside  *)
(* its successor (see AgentDispatcher).  Their contributors are clones that *)
(* share one mutex; adding a message does not take it.                      *)
(***************************************************************************)
EXTENDS Integers, Sequences, FiniteSets, SequencesExt, FiniteSetsExt

CONSTANTS
    Runs,           \* runs that use the session
    Instances,      \* store instances (entry_store_for_agent makes a new one per call)
    MaxMessages,    \* bound: messages added
    MaxCompress,    \* bound: compressions
    MaxTime,        \* bound: the clock, in whole seconds
    MaxFaults,      \* bound: failed saves and process crashes
    KeepFirst,      \* PositionSampleCompressor.keep_first
    SampleEvery,    \* PositionSampleCompressor.sample_every
    Images,         \* ids of the messages with an image part
    TailLines,      \* lines that the 64 KiB tail of the file holds
    Resumed,        \* whether the database has a row of the session already
    None

ASSUME SessionConstants ==
    /\ {MaxMessages, MaxCompress, MaxFaults} \subseteq Nat
    /\ {MaxTime, KeepFirst, SampleEvery, TailLines} \subseteq Nat \ {0}
    /\ Resumed \in BOOLEAN
    /\ None \notin Runs

VARIABLES
    store,      \* the kind of entry store
    inst,       \* the store instance each run writes through
    now,        \* the clock
    lines,      \* the stored lines; a line is the sequence of entries written on it
    open,       \* the last line of the file has no newline yet
    unused,     \* uuids not given out
    pc,         \* what each run does: start, bind, idle, read, seal, save, newline
    hand,       \* what each run holds: entries to save, the checkpoint and messages it read
    mutex,      \* the run that holds the contributor's session mutex
    meta,       \* the task ids in the session's metadata
    metaLock,   \* the run that holds meta_write_lock, per store instance
    raced,      \* history: two bindings overlapped
    spent,      \* compressions, faults and crashes so far
    torn,       \* history: lines that were last when a newline could not be written
    acked,      \* history: messages whose add_message returned Ok
    bound,      \* history: task ids whose binding returned Ok
    sealed      \* history: checkpoints whose summary was saved

vars == <<store, inst, now, lines, open, unused, pc, hand, mutex, meta, metaLock,
          raced, spent, torn, acked, bound, sealed>>
logVars == <<lines, open, torn, acked, sealed>>
metaVars == <<meta, metaLock, raced, bound>>
fixed == <<store, inst>>

Uuids == 1..(MaxMessages + MaxCompress)

ASSUME ImagesAssumption == Images \subseteq Uuids

Idle == [todo |-> <<>>, cp |-> 0, seen |-> <<>>, logged |-> 0, meta |-> {}]

(* -- what the store returns ---------------------------------------------- *)

\* A line of the file is one JSON document, or it is skipped.
Readable == {i \in DOMAIN lines : Len(lines[i]) = 1}

Doc(i) == lines[i][1]

Saved == {Doc(i) : i \in Readable}

\* The latest time of a checkpoint on the given lines, 0 when there is none.
LatestOf(P) == Max({0} \union {Doc(i).ts : i \in {k \in P : Doc(k).kind = "checkpoint"}})

FileTail == {i \in Readable : i > Len(lines) - TailLines}

TailOnly == IF store = "file" THEN LatestOf(FileTail) ELSE LatestOf(Readable)   \* mutant

\* The file store looks in the tail first and reads the whole file only if
\* it holds no checkpoint.
find_latest_checkpoint ==
    IF store = "file" /\ LatestOf(FileTail) > 0 THEN LatestOf(FileTail) ELSE LatestOf(Readable)

\* The elements of P in the order R, a set of pairs.
Ranked(P, R) ==
    [k \in 1..Cardinality(P) |->
        CHOOSE i \in P : Cardinality({j \in P : <<j, i>> \in R}) = k - 1]

Ascending(P) == {ij \in P \X P : ij[1] < ij[2]}

\* ORDER BY created_at, id: the database returns rows in this order, the other
\* stores in the order they were saved.
EarlierRow(a, b) == a.ts < b.ts \/ (a.ts = b.ts /\ a.id < b.id)

StoreOrder(P) ==
    {ij \in P \X P :
        LET a == Doc(ij[1])
            b == Doc(ij[2])
        IN  IF store = "database" /\ (a.ts # b.ts \/ a.id # b.id) THEN EarlierRow(a, b)
            ELSE ij[1] < ij[2]}

InStoreOrder(P) ==
    LET order == Ranked(P, StoreOrder(P))
    IN  [k \in 1..Cardinality(P) |-> Doc(order[k])]

NotBefore(cp) == {i \in Readable : Doc(i).ts >= cp /\ Doc(i).kind # "checkpoint"}   \* mutant

\* Checkpoints are dropped; a summary becomes a message with the entry's id.
After(cp) == {i \in Readable : Doc(i).ts > cp /\ Doc(i).kind # "checkpoint"}

MessagesAfter(cp) == InStoreOrder(After(cp))

get_messages == MessagesAfter(find_latest_checkpoint)

(* -- compression ---------------------------------------------------------- *)

HasImage(m) == m.kind = "message" /\ m.id \in Images

\* The positions of the first messages, and of every n-th and of those with an
\* image among the rest.
Chosen(messages) ==
    LET n == Len(messages)
        keep == Min({KeepFirst, n})
    IN  {i \in 1..n : \/ i <= keep
                      \/ (i - keep - 1) % SampleEvery = 0
                      \/ HasImage(messages[i])}

Sampled(messages) ==
    LET P == Chosen(messages)
        order == Ranked(P, Ascending(P))
    IN  [k \in 1..Cardinality(P) |-> messages[order[k]]]

\* PositionSampleCompressor: the first ones, every n-th of the rest, the last.
compress(messages) ==
    LET sampled == Sampled(messages)
    IN  IF Last(sampled).id = Last(messages).id THEN sampled
        ELSE Append(sampled, Last(messages))

TextOf(messages) == UNION {m.text : m \in ToSet(messages)}

Entry(r, kind, id, ts, text) ==
    [kind |-> kind, id |-> id, ts |-> ts, text |-> text, by |-> <<r, spent.crashes>>,
     seen |-> {}, kept |-> {}, logged |-> 0]

\* The checkpoint, the summary one second later and the kept messages from
\* that second on, under the ids they already have.  (A checkpoint's own uuid
\* is never compared: it goes by that of its summary.)
CompressedEntries(r, id, kept) ==
    <<[Entry(r, "checkpoint", id, now, {}) EXCEPT !.seen = TextOf(hand[r].seen),
         !.kept = TextOf(kept), !.logged = hand[r].logged],
      Entry(r, "summary", id, now + 1, TextOf(kept))>>
    \o [i \in DOMAIN kept |-> Entry(r, "message", kept[i].id, now + i, kept[i].text)]

(* -- a run adds a message --------------------------------------------------- *)

NewUuids == IF store = "database" \/ unused = {} THEN unused ELSE {Min(unused)}

Init ==
    /\ store \in {"memory", "file", "database"}
    /\ inst \in [Runs -> Instances]
    /\ store # "file" => \A r, q \in Runs : inst[r] = inst[q]   \* no lock of their own
    /\ now = 1
    /\ lines = <<>>
    /\ open = FALSE
    /\ unused = Uuids
    /\ pc = [r \in Runs |-> "start"]
    /\ hand = [r \in Runs |-> Idle]
    /\ mutex = None
    /\ meta = {}
    /\ metaLock = [i \in Instances |-> None]
    /\ raced = FALSE
    /\ torn = {}
    /\ spent = [messages |-> 0, compress |-> 0, faults |-> 0, crashes |-> 0]
    /\ acked = {}
    /\ bound = {}
    /\ sealed = {}

\* The message is stamped when it is made; it is saved later.
AddMessage(r) ==
    /\ pc[r] = "idle"
    /\ spent.messages < MaxMessages
    /\ \E id \in NewUuids :
          /\ hand' = [hand EXCEPT ![r].todo = <<Entry(r, "message", id, now, {id})>>]
          /\ unused' = unused \ {id}
    /\ spent' = [spent EXCEPT !.messages = @ + 1]
    /\ pc' = [pc EXCEPT ![r] = "save"]
    /\ UNCHANGED <<fixed, now, mutex, metaVars, logVars>>

(* -- saving one entry -------------------------------------------------------- *)

\* What follows one save: the next entry, or the end of the operation.
Proceed(r, rest) ==
    /\ hand' = [hand EXCEPT ![r] = IF rest = <<>> THEN Idle ELSE [@ EXCEPT !.todo = rest]]
    /\ pc' = [pc EXCEPT ![r] = IF rest = <<>> THEN "idle" ELSE "save"]
    /\ mutex' = IF rest = <<>> /\ mutex = r THEN None ELSE mutex

Acknowledge(r) ==
    LET e == Head(hand[r].todo)
    IN  /\ acked' = IF e.kind = "message" THEN acked \union {e.id} ELSE acked
        /\ sealed' = IF e.kind = "summary" THEN sealed \union {e.id} ELSE sealed

Duplicate(e) == \E x \in Saved : x.id = e.id /\ "checkpoint" \notin {x.kind, e.kind}

\* The in-memory store pushes, the database inserts under a primary key.
Save(r) ==
    /\ pc[r] = "save"
    /\ store # "file"
    /\ ~(store = "database" /\ Duplicate(Head(hand[r].todo)))
    /\ lines' = Append(lines, <<Head(hand[r].todo)>>)
    /\ Acknowledge(r)
    /\ Proceed(r, Tail(hand[r].todo))
    /\ UNCHANGED <<fixed, now, open, torn, unused, metaVars, spent>>

\* append_line opens the file for appending; writeln! is a write of the JSON
\* and a write of the newline.
WriteJson(r) ==
    /\ pc[r] = "save"
    /\ store = "file"
    /\ LET e == Head(hand[r].todo)
       IN  lines' = IF open THEN [lines EXCEPT ![Len(lines)] = Append(@, e)]
                    ELSE Append(lines, <<e>>)
    /\ open' = TRUE
    /\ pc' = [pc EXCEPT ![r] = "newline"]
    /\ UNCHANGED <<fixed, now, torn, unused, hand, mutex, metaVars, spent, acked, sealed>>

NewlineMissing(r) ==   \* mutant
    /\ pc[r] = "newline"
    /\ Acknowledge(r)
    /\ Proceed(r, Tail(hand[r].todo))
    /\ UNCHANGED <<fixed, now, lines, open, torn, unused, metaVars, spent>>

WriteNewline(r) ==
    /\ pc[r] = "newline"
    /\ open' = FALSE
    /\ Acknowledge(r)
    /\ Proceed(r, Tail(hand[r].todo))
    /\ UNCHANGED <<fixed, now, lines, torn, unused, metaVars, spent>>

\* add_message returns the error; compress stops when the checkpoint or the
\* summary fails and only logs when a kept message does.
AfterFailure(r) ==
    LET e == Head(hand[r].todo)
    IN  IF e.kind = "message" THEN Tail(hand[r].todo) ELSE <<>>

Fault == spent.faults < MaxFaults /\ spent' = [spent EXCEPT !.faults = @ + 1]

\* The database refuses an id it has; any store may fail, and the file also
\* between the document and its newline.
SaveFails(r) ==
    /\ \/ /\ pc[r] = "save"
          /\ store = "database"
          /\ Duplicate(Head(hand[r].todo))
          /\ UNCHANGED <<spent, torn>>
       \/ pc[r] = "save" /\ Fault /\ UNCHANGED torn
       \/ pc[r] = "newline" /\ Fault /\ torn' = torn \union {Len(lines)}
    /\ Proceed(r, AfterFailure(r))
    /\ UNCHANGED <<fixed, now, unused, metaVars, lines, open, acked, sealed>>

(* -- SessionContributor::compress ------------------------------------------- *)

\* get_messages under the mutex: first the latest checkpoint ...
CompressFind(r) ==
    /\ pc[r] = "idle"
    /\ spent.compress < MaxCompress
    /\ mutex = None
    /\ mutex' = r
    /\ spent' = [spent EXCEPT !.compress = @ + 1]
    /\ hand' = [hand EXCEPT ![r].cp = find_latest_checkpoint]
    /\ pc' = [pc EXCEPT ![r] = "read"]
    /\ UNCHANGED <<fixed, now, unused, metaVars, logVars>>

CompressReadLast(r) ==   \* mutant
    /\ pc[r] = "read"
    /\ mutex' = None
    /\ LET seen == MessagesAfter(hand[r].cp)
       IN  IF seen = <<>>
           THEN /\ pc' = [pc EXCEPT ![r] = "idle"]
                /\ hand' = [hand EXCEPT ![r] = Idle]
           ELSE /\ pc' = [pc EXCEPT ![r] = "seal"]
                /\ hand' = [hand EXCEPT ![r].seen = <<Last(seen)>>, ![r].logged = Len(lines)]
    /\ UNCHANGED <<fixed, now, unused, metaVars, spent, logVars>>

\* ... then the entries after it; the mutex is released.
CompressRead(r) ==
    /\ pc[r] = "read"
    /\ mutex' = None
    /\ LET seen == MessagesAfter(hand[r].cp)
       IN  IF seen = <<>>
           THEN /\ pc' = [pc EXCEPT ![r] = "idle"]
                /\ hand' = [hand EXCEPT ![r] = Idle]
           ELSE /\ pc' = [pc EXCEPT ![r] = "seal"]
                /\ hand' = [hand EXCEPT ![r].seen = seen, ![r].logged = Len(lines)]
    /\ UNCHANGED <<fixed, now, unused, metaVars, spent, logVars>>

\* The mutex again, and the entries to write with their time stamps.
CompressSeal(r) ==
    /\ pc[r] = "seal"
    /\ mutex = None
    /\ mutex' = r
    /\ \E id \in NewUuids :
          /\ hand' = [hand EXCEPT ![r].todo =
                          CompressedEntries(r, id, compress(hand[r].seen))]
          /\ unused' = unused \ {id}
    /\ pc' = [pc EXCEPT ![r] = "save"]
    /\ UNCHANGED <<fixed, now, metaVars, spent, logVars>>

(* -- Session::bind_task_ids at the start of a run ---------------------------- *)

\* The in-memory store holds its write lock across the union. (The task of a
\* run is named by the run.)
BindNow(r) ==
    /\ pc[r] = "start"
    /\ store = "memory"
    /\ meta' = meta \union {r}
    /\ bound' = bound \union {r}
    /\ pc' = [pc EXCEPT ![r] = "idle"]
    /\ UNCHANGED <<fixed, now, unused, hand, mutex, metaLock, raced, spent, logVars>>

NoLock(r) == TRUE   \* mutant

InstanceFree(r) == metaLock[inst[r]] = None

\* INSERT .. ON CONFLICT DO NOTHING waits for an insertion that is not
\* committed, and passes when the row is there: the SELECT and the UPDATE that
\* follow lock nothing in between (Postgres, READ COMMITTED).
RowPassed(r) ==
    Resumed \/ meta # {} \/ lines # <<>> \/ \A q \in Runs : pc[q] # "bind"

\* The metadata is read, in the file store under the lock of the instance.
BindRead(r) ==
    /\ pc[r] = "start"
    /\ \/ /\ store = "file"
          /\ InstanceFree(r)
          /\ metaLock' = [metaLock EXCEPT ![inst[r]] = r]
       \/ /\ store = "database"
          /\ RowPassed(r)
          /\ UNCHANGED metaLock
    /\ hand' = [hand EXCEPT ![r].meta = meta]
    /\ pc' = [pc EXCEPT ![r] = "bind"]
    /\ raced' = (raced \/ \E q \in Runs : pc[q] = "bind")
    /\ UNCHANGED <<fixed, now, unused, mutex, meta, bound, spent, logVars>>

\* A temporary file renamed over the sidecar; the UPDATE of the row.
BindWrite(r) ==
    /\ pc[r] = "bind"
    /\ meta' = hand[r].meta \union {r}
    /\ bound' = bound \union {r}
    /\ metaLock' = [metaLock EXCEPT ![inst[r]] = None]
    /\ hand' = [hand EXCEPT ![r] = Idle]
    /\ pc' = [pc EXCEPT ![r] = "idle"]
    /\ UNCHANGED <<fixed, now, unused, mutex, raced, spent, logVars>>

(* -- the environment ---------------------------------------------------------- *)

Tick ==
    /\ now < MaxTime
    /\ now' = now + 1
    /\ UNCHANGED <<fixed, unused, pc, hand, mutex, metaVars, spent, logVars>>

\* The process dies in the middle of an operation and starts again; what is
\* on disk stays.
Crash ==
    /\ store # "memory"
    /\ \E r \in Runs : pc[r] \notin {"start", "idle"}
    /\ spent.faults < MaxFaults
    /\ spent' = [spent EXCEPT !.faults = @ + 1, !.crashes = @ + 1]
    /\ pc' = [r \in Runs |-> "idle"]
    /\ hand' = [r \in Runs |-> Idle]
    /\ mutex' = None
    /\ metaLock' = [i \in Instances |-> None]
    /\ UNCHANGED <<fixed, now, unused, meta, raced, bound, logVars>>

RunStep(r) ==
    \/ AddMessage(r)
    \/ Save(r)
    \/ WriteJson(r)
    \/ WriteNewline(r)
    \/ SaveFails(r)
    \/ CompressFind(r)
    \/ CompressRead(r)
    \/ CompressSeal(r)
    \/ BindNow(r)
    \/ BindRead(r)
    \/ BindWrite(r)

Next == Tick \/ Crash \/ \E r \in Runs : RunStep(r)

Spec == Init /\ [][Next]_vars

(* -- properties --------------------------------------------------------------- *)

Entries ==
    [kind : {"message", "checkpoint", "summary"}, id : Uuids, ts : Nat,
     text : SUBSET Uuids, by : Runs \X Nat,
     seen : SUBSET Uuids, kept : SUBSET Uuids, logged : Nat]

Hands ==
    [todo : Seq(Entries), cp : Nat, seen : Seq(Entries), logged : Nat, meta : SUBSET Runs]

(* The shape of the state: a run has entries in hand exactly while it saves. *)
TypeOK ==
    /\ now \in 1..MaxTime
    /\ lines \in Seq(Seq(Entries) \ {<<>>})
    /\ open \in BOOLEAN
    /\ unused \subseteq Uuids
    /\ pc \in [Runs -> {"start", "bind", "idle", "read", "seal", "save", "newline"}]
    /\ hand \in [Runs -> Hands]
    /\ \A r \in Runs : (hand[r].todo = <<>>) = (pc[r] \notin {"save", "newline"})
    /\ mutex \in Runs \union {None}
    /\ meta \union bound \subseteq Runs
    /\ metaLock \in [Instances -> Runs \union {None}]
    /\ spent \in [messages : Nat, compress : Nat, faults : Nat, crashes : Nat]
    /\ raced \in BOOLEAN
    /\ torn \subseteq Nat

(* A message whose add_message returned Ok stays readable, unless another    *)
(* writer wrote on its line or the line's newline could not be written: a    *)
(* run of its own accord, or together with its compressions, never spoils a  *)
(* line of its own (append_line writes the document and the newline          *)
(* separately).                                                              *)
AckedReadable ==
    \A id \in acked : \E i \in DOMAIN lines : \E e \in ToSet(lines[i]) :
        /\ e.kind = "message" /\ e.id = id
        /\ Len(lines[i]) > 1 => i \in torn \/ \E f \in ToSet(lines[i]) : f.by # e.by

Written == UNION {ToSet(line) : line \in ToSet(lines)}

(* Nothing is hidden by a checkpoint unseen: it was among the messages that  *)
(* a compression read, or it reached the log after that read although it was *)
(* stamped no later than the checkpoint's second (get_messages filters by    *)
(* whole seconds, compress releases the mutex between reading and sealing).  *)
HiddenWasReadOrRaced ==
    \A i \in Readable :
        (Doc(i).kind # "checkpoint" /\ Doc(i).ts <= find_latest_checkpoint) =>
            \E c \in Written :
                /\ c.kind = "checkpoint"
                /\ Doc(i).text \subseteq c.seen \/ (i > c.logged /\ Doc(i).ts <= c.ts)

\* Two writers, or a writer and one that crashed or could not write its newline,
\* shared a line.
Spoilt == \E line \in ToSet(lines) : Len(line) > 1

(* What compression kept can still be read: when the summary of the latest    *)
(* checkpoint was saved, the text of every kept message is in what           *)
(* get_messages returns, unless two writers spoilt a line (compress stamps   *)
(* summary and kept messages later than the checkpoint).  In the database    *)
(* this rests on the summary alone: kept messages are refused for their ids. *)
KeptStaysReadable ==
    LET latest == find_latest_checkpoint
        text == TextOf(get_messages)
    IN  \/ Spoilt
        \/ \A c \in Saved :
              (c.kind = "checkpoint" /\ c.ts = latest /\ c.id \in sealed) => c.kept \subseteq text

\* An entry that a compression read and its checkpoint does not hide: an
\* earlier compression stamps the i-th kept message i seconds ahead of the
\* clock.
Overrun ==
    \E i, j \in Readable :
        /\ i < j /\ Doc(j).kind = "checkpoint"
        /\ Doc(i).ts > Doc(j).ts /\ Doc(i).text \subseteq Doc(j).seen

(* get_messages returns no message twice, except when two compressions came  *)
(* within as many seconds as the first kept messages, or when two writers    *)
(* spoilt a line (it may have been the checkpoint).                          *)
NoDuplicates ==
    LET messages == get_messages
    IN  \/ Overrun
        \/ Spoilt
        \/ \A i, j \in DOMAIN messages : i # j => messages[i].id # messages[j].id

(* The file store's shortcut is right: the latest checkpoint of the tail is  *)
(* the latest of the whole file, because checkpoints are stamped and saved   *)
(* under one mutex (find_latest_checkpoint stops at the tail if it holds one).*)
TailHoldsLatest == find_latest_checkpoint = LatestOf(Readable)

(* No task binding that was reported is lost, unless two bindings            *)
(* overlapped, which they can in the database, whose transaction locks       *)
(* nothing between its SELECT and its UPDATE, and in the file store between  *)
(* two instances (append_session_metadata_values).                           *)
BindingsKept ==
    \/ bound \subseteq meta
    \/ raced /\ (store = "database" \/ \E r, q \in Runs : store = "file" /\ inst[r] # inst[q])

(* The log is what its readers take it for: records of its types, and no     *)
(* message returned twice.                                                   *)
LogOK == TypeOK /\ NoDuplicates

(* Compression loses nothing: what it hides it has read, unless an append    *)
(* raced with it, and what it kept stays readable.                           *)
CompressionKeeps == HiddenWasReadOrRaced /\ KeptStaysReadable
=============================================================================
