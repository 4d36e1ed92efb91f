-------------------------- MODULE ExecutionRecords --------------------------
(***************************************************************************)
(* What `c2c record` leaves for the reviewer of one checkout:              *)
(* execution/records.ts and execution/output.ts.                           *)
(*                                                                         *)
(* Records are lines of one file.  A process appends a line under a lock,  *)
(* byte after byte as far as a crash can tell, after it has repaired what  *)
(* the last process left unfinished; readers take no lock and ignore such  *)
(* a tail unless it is a whole record.  A whole one gets its newline, and  *)
(* when that cannot be written it is cut off like any other tail.  A       *)
(* repair finds the last newline in the decoded text and cuts the file     *)
(* there: a place counted in characters is used as a number of bytes.      *)
(*                                                                         *)
(* The output a record may cite is saved first, under a lock of its own: a *)
(* body file, then the index that names it, then the bodies that fell out  *)
(* of the index are removed.  An id is the index's next one, so that a     *)
(* body without its index entry is written over by the next output.        *)
(***************************************************************************)
EXTENDS Naturals, Sequences, FiniteSets

CONSTANTS
    Recorders,      \* processes that run c2c record
    Texts,          \* sanitized outputs that are not empty
    MAX_OUTPUT_RECORDS,
    Wide,           \* the records with a character of two bytes
    MaxRecords      \* bound on the records begun

VARIABLES
    log,        \* the bytes of records.jsonl
    index,      \* the items of the output index, and its next id
    bodies,     \* the body files by id
    recorder,   \* what each process is doing
    begun       \* records begun so far

recordsVars == <<log, index, bodies, recorder, begun>>

Numbers == 1..MaxRecords
NoText == "empty"            \* no output, or one with nothing to read in it
Torn == "torn"              \* a body that is only partly written
NoOutput == "no output"     \* the record cites none

ASSUME RecordsAssumption ==
    /\ MAX_OUTPUT_RECORDS \in Nat \ {0} /\ MaxRecords \in Nat
    /\ {NoText, Torn, NoOutput} \cap Texts = {}

(* A record is two bytes and a newline; the second byte continues the      *)
(* character of the first when the record is wide                          *)
Newline == <<0, 0>>
Bytes(n) == <<<<n, 1>>, <<n, 2>>>>
Line(n) == Bytes(n) \o <<Newline>>
Continues(byte) == byte[1] \in Wide /\ byte[2] = 2

Idle0 == [at |-> "idle", text |-> NoOutput, id |-> 0, n |-> 0, left |-> <<>>]

-----------------------------------------------------------------------------
(* Reading the log                                                         *)

WholeAt(bytes, i) ==
    /\ i < Len(bytes)
    /\ i # 1 => bytes[i - 1] = Newline
    /\ \E n \in Numbers : SubSeq(bytes, i, i + 1) = Bytes(n)
    /\ i + 2 <= Len(bytes) => bytes[i + 2] = Newline

(* The places of the records a reader returns, in their order, the tail    *)
(* included when it is one                                                 *)
ReadRecords(bytes) == {i \in 1..Len(bytes) : WholeAt(bytes, i)}

(* A line that ends in a newline and is no record makes every read fail *)
Malformed(bytes) ==
    \E i \in 1..Len(bytes) :
        /\ i = 1 \/ bytes[i - 1] = Newline
        /\ \E j \in i..Len(bytes) : bytes[j] = Newline
        /\ bytes[i] # Newline /\ ~WholeAt(bytes, i)

-----------------------------------------------------------------------------
(* repairInterruptedTail                                                   *)

LastNewline(bytes) ==
    LET newlines == {0} \cup {i \in 1..Len(bytes) : bytes[i] = Newline}
    IN  CHOOSE i \in newlines : \A j \in newlines : j <= i

(* How many characters the first k bytes decode to *)
Characters(bytes, k) == Cardinality({i \in 1..k : ~Continues(bytes[i])})

Cut(bytes) == SubSeq(bytes, 1, Characters(bytes, LastNewline(bytes)))

(* Fault: a tail is cut off without looking whether it is a record *)
RepairedBlindly(bytes) == Cut(bytes)

(* Fault: the next line is written behind whatever the file ends with *)
RepairedNever(bytes) == bytes

(* The file ends with a record that only lacks its newline *)
TailIsRecord(bytes) == WholeAt(bytes, LastNewline(bytes) + 1)

Repaired(bytes) ==
    IF LastNewline(bytes) = Len(bytes) THEN bytes
    ELSE IF TailIsRecord(bytes) THEN Append(bytes, Newline) ELSE Cut(bytes)

-----------------------------------------------------------------------------
(* The steps of a process                                                  *)

Unlocked(places) == \A p \in Recorders : recorder[p].at \notin places

Goes(p, at) == recorder' = [recorder EXCEPT ![p].at = at]

(* c2c record, with or without an output *)
BeginRecord(p, text) ==
    /\ recorder[p].at = "idle" /\ begun < MaxRecords
    /\ begun' = begun + 1
    /\ recorder' = [recorder EXCEPT ![p] =
                      [Idle0 EXCEPT !.at = IF text = NoOutput THEN "append"
                                           ELSE "save",
                                    !.text = text, !.n = begun + 1]]
    /\ UNCHANGED <<log, index, bodies>>

(* Fault: the next id is taken before the lock *)
SaveOutputUnlocked(p) ==
    /\ recorder[p].at = "save"
    /\ recorder' = [recorder EXCEPT ![p].id = index.nextId, ![p].at =
                      IF recorder[p].text = NoText THEN "index" ELSE "body"]
    /\ bodies' = IF recorder[p].text = NoText THEN bodies
                 ELSE [bodies EXCEPT ![index.nextId] = Torn]
    /\ UNCHANGED <<log, index, begun>>

(* saveExecutionOutput takes the lock and the next id, and opens the body *)
SaveOutput(p) ==
    /\ recorder[p].at = "save" /\ Unlocked({"body", "index", "drop"})
    /\ recorder' = [recorder EXCEPT ![p].id = index.nextId, ![p].at =
                      IF recorder[p].text = NoText THEN "index" ELSE "body"]
    /\ bodies' = IF recorder[p].text = NoText THEN bodies
                 ELSE [bodies EXCEPT ![index.nextId] = Torn]
    /\ UNCHANGED <<log, index, begun>>

WriteBody(p) ==
    /\ recorder[p].at = "body"
    /\ bodies' = [bodies EXCEPT ![recorder[p].id] = recorder[p].text]
    /\ Goes(p, "index")
    /\ UNCHANGED <<log, index, begun>>

(* Fault: the index keeps every item *)
RetainedAll(items) == items

Retained(items) ==
    IF Len(items) > MAX_OUTPUT_RECORDS THEN Tail(items) ELSE items

WriteIndex(p) ==
    LET items == Append(index.items, [id |-> recorder[p].id, text |-> recorder[p].text])
    IN  /\ recorder[p].at = "index"
        /\ index' = [items |-> Retained(items), nextId |-> recorder[p].id + 1]
        /\ recorder' = [recorder EXCEPT ![p].at = "drop", ![p].left =
                          SubSeq(items, 1, Len(items) - MAX_OUTPUT_RECORDS)]
        /\ UNCHANGED <<log, bodies, begun>>

DropBodies(p) ==
    /\ recorder[p].at = "drop"
    /\ bodies' = [id \in DOMAIN bodies |->
                    IF \E k \in DOMAIN recorder[p].left : recorder[p].left[k].id = id
                    THEN NoText ELSE bodies[id]]
    /\ recorder' = [recorder EXCEPT ![p].at = "append", ![p].left = <<>>]
    /\ UNCHANGED <<log, index, begun>>

(* appendExecutionRecord: the lock, the repair, and then the bytes *)
Writes(p) ==
    recorder' = [recorder EXCEPT ![p].at = "write",
                                 ![p].left = Line(recorder[p].n)]

LockLog(p) ==
    /\ recorder[p].at = "append" /\ Unlocked({"write", "truncate"})
    /\ log' = Repaired(log)
    /\ Writes(p)
    /\ UNCHANGED <<index, bodies, begun>>

(* The newline of a whole last record cannot be written: the catch takes   *)
(* the failure for a tail that is no record, and cuts the record off       *)
NewlineFails(p) ==
    /\ recorder[p].at = "append" /\ Unlocked({"write", "truncate"})
    /\ TailIsRecord(log)
    /\ Goes(p, "truncate")
    /\ UNCHANGED <<log, index, bodies, begun>>

TruncateRecord(p) ==
    /\ recorder[p].at = "truncate"
    /\ log' = Cut(log)
    /\ Writes(p)
    /\ UNCHANGED <<index, bodies, begun>>

AppendByte(p) ==
    LET left == recorder[p].left
    IN  /\ recorder[p].at = "write"
        /\ log' = Append(log, Head(left))
        /\ recorder' = [recorder EXCEPT ![p] =
                          IF Len(left) = 1 THEN Idle0
                          ELSE [@ EXCEPT !.left = Tail(left)]]
        /\ UNCHANGED <<index, bodies, begun>>

(* The process dies, and its locks are recovered by whoever comes next; or *)
(* a read or a write fails, and it lets its lock go and ends               *)
KillRecorder(p) ==
    /\ recorder[p].at # "idle"
    /\ recorder' = [recorder EXCEPT ![p] = Idle0]
    /\ UNCHANGED <<log, index, bodies, begun>>

RecordsInit ==
    /\ log = <<>>
    /\ index = [items |-> <<>>, nextId |-> 1]
    /\ bodies = [id \in Numbers |-> NoText]
    /\ recorder = [p \in Recorders |-> Idle0]
    /\ begun = 0

RecordsNext ==
    \E p \in Recorders :
        \/ \E text \in Texts \cup {NoText, NoOutput} : BeginRecord(p, text)
        \/ SaveOutput(p) \/ WriteBody(p) \/ WriteIndex(p) \/ DropBodies(p)
        \/ LockLog(p) \/ NewlineFails(p) \/ TruncateRecord(p)
        \/ AppendByte(p) \/ KillRecorder(p)

RecordsSpec == RecordsInit /\ [][RecordsNext]_recordsVars

-----------------------------------------------------------------------------
(* The shape of the files and of a process's progress.                     *)
RecordsTypeOK ==
    /\ \A i \in 1..Len(log) : log[i] \in {Newline} \cup (Numbers \X {1, 2})
    /\ index.nextId \in 1..(MaxRecords + 1)
    /\ Len(index.items) <= MAX_OUTPUT_RECORDS
    /\ bodies \in [Numbers -> Texts \cup {NoText, Torn}]
    /\ begun \in 0..MaxRecords

(* Whenever processes die while they append, a reader that takes no lock   *)
(* finds a log that it can read.                                           *)
LogReadable == ~Malformed(log)

(* A record that a reader has returned is returned by every later one, in  *)
(* the same place and before those that are new, also a last one that had  *)
(* no newline when its writer died (test "ignores and repairs an           *)
(* interrupted trailing JSONL write").  Only that last one can be lost,    *)
(* and only to a process whose newline behind it failed (records.ts,       *)
(* 125-130): one with a newline never is, whatever fails.                  *)
RecordsOnlyGrow ==
    [][\A i \in ReadRecords(log) :
          \/ /\ i \in ReadRecords(log') /\ log'[i] = log[i]
             /\ \A j \in ReadRecords(log') \ ReadRecords(log) : i < j
          \/ /\ i = LastNewline(log) + 1
             /\ \E p \in Recorders : recorder[p].at = "truncate"]_recordsVars

(* An output that the index names can be read as it was saved, also when   *)
(* processes die between the body, the index and the removal of the oldest.*)
(* An empty one is exempt: an older body with its id may be in its place.  *)
IndexedIsReadable ==
    \A k \in 1..Len(index.items) :
        index.items[k].text # NoText =>
            bodies[index.items[k].id] = index.items[k].text

(* The files of a checkout's executions in every state: the log and every  *)
(* output that the index names can be read, whoever dies when.             *)
RecordsInv == RecordsTypeOK /\ LogReadable /\ IndexedIsReadable
=============================================================================
