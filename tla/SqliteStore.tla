---------------------------- MODULE SqliteStore -----------------------------
(***************************************************************************)
(* src/store/sqlite_store.cpp over SQLite, one table.  `durable' is what   *)
(* the database file holds; an open transaction has its own view.  Every   *)
(* SQLite call may fail (faulty), the first failure of a write sticks in   *)
(* `error', and the process may die between any two calls.                 *)
(***************************************************************************)
EXTENDS Integers, Sequences, FiniteSets

CONSTANTS Keys, Values, Batches, Absent,
          MaxByte,     \* 0xFF
          NoTxn, NoBatch

ASSUME SqliteAssumption  == MaxByte \in Nat
ASSUME KeysAssumption    == Keys \subseteq Seq(0..MaxByte)
ASSUME AbsentAssumption  == Absent \notin Values
ASSUME BatchesAssumption ==
  Batches \subseteq Seq([key : Keys, value : Values \cup {Absent}])
ASSUME NoBatchAssumption ==
  NoBatch \notin Seq([key : Keys, value : Values \cup {Absent}])

VARIABLES
  durable,   \* the committed table
  txn,       \* the open transaction's view of the table, or NoTxn
  batch,     \* the operations applyBatch still has to execute, or NoBatch
  error,     \* Impl::error is non-empty
  reply,     \* what the last finished call returned
  faulty     \* whether SQLite calls may fail in this behaviour

vars == <<durable, txn, batch, error, reply, faulty>>

(* The promise, with the file's contents as the abstract map. *)
Kv == INSTANCE KvStore WITH map <- durable, mayFail <- faulty

Idle  == batch = NoBatch
ok    == ~error
View  == IF txn = NoTxn THEN durable ELSE txn

Refused(k) == k = Kv!Empty \/ ~ok      \* the early return of put, get and erase

Reply(op, res) == reply' = [op |-> op, ok |-> res]

(* A statement that writes: outside a transaction it commits by itself.    *)
Write(m) ==
  IF txn = NoTxn THEN durable' = m /\ UNCHANGED txn
                 ELSE txn' = m /\ UNCHANGED durable

-----------------------------------------------------------------------------
Put(k, v) ==
  /\ Idle
  /\ \/ /\ Refused(k)
        /\ Reply("put", FALSE)
        /\ UNCHANGED <<durable, txn, error>>
     \/ /\ ~Refused(k)
        /\ Write(Kv!With(View, k, v))
        /\ Reply("put", TRUE)
        /\ UNCHANGED error
     \/ /\ ~Refused(k) /\ faulty
        /\ error' = TRUE
        /\ Reply("put", FALSE)
        /\ UNCHANGED <<durable, txn>>
  /\ UNCHANGED batch

(* A read that fails is not recorded: it just finds nothing. *)
Get(k) ==
  /\ Idle
  /\ \E v \in (IF Refused(k) THEN {} ELSE {Kv!Lookup(View, k)})
              \cup (IF Refused(k) \/ faulty THEN {Absent} ELSE {}) :
       reply' = [op |-> "get", value |-> v]
  /\ UNCHANGED <<durable, txn, batch, error>>

Erase(k) ==
  /\ Idle
  /\ \/ /\ Refused(k)
        /\ Reply("erase", FALSE)
        /\ UNCHANGED <<durable, txn, error>>
     \/ /\ ~Refused(k)
        /\ Write(Kv!Without(View, k))
        /\ Reply("erase", k \in DOMAIN View)
        /\ UNCHANGED error
     \/ /\ ~Refused(k) /\ faulty
        /\ error' = TRUE
        /\ Reply("erase", FALSE)
        /\ UNCHANGED <<durable, txn>>
  /\ UNCHANGED batch

(* ROLLBACK, whose own failure nobody looks at. *)
Rollback == txn' \in {NoTxn} \cup (IF faulty THEN {txn} ELSE {})

(* A statement of the batch, or its COMMIT, failed. *)
AbortBatch ==
  /\ error' = TRUE
  /\ Rollback
  /\ batch' = NoBatch
  /\ Reply("batch", FALSE)
  /\ UNCHANGED durable

(* applyBatch up to and including BEGIN. *)
BatchBegin(ops) ==
  /\ Idle
  /\ \/ /\ ~ok \/ \E i \in DOMAIN ops : ops[i].key = Kv!Empty
        /\ Reply("batch", FALSE)
        /\ UNCHANGED <<txn, batch, error>>
     \/ /\ ok /\ \A i \in DOMAIN ops : ops[i].key # Kv!Empty
        /\ txn = NoTxn
        /\ txn' = durable /\ batch' = ops
        /\ UNCHANGED <<error, reply>>
     \/ /\ ok /\ \A i \in DOMAIN ops : ops[i].key # Kv!Empty
        /\ faulty \/ txn # NoTxn         \* no nested transactions
        /\ error' = TRUE
        /\ Reply("batch", FALSE)
        /\ UNCHANGED <<txn, batch>>
  /\ UNCHANGED durable

BatchStep ==
  /\ ~Idle /\ batch # <<>>
  /\ \/ /\ txn' = Kv!Apply(txn, Head(batch))
        /\ batch' = Tail(batch)
        /\ UNCHANGED <<durable, error, reply>>
     \/ /\ faulty
        /\ AbortBatch

BatchCommit ==
  /\ ~Idle /\ batch = <<>>
  /\ \/ /\ durable' = txn /\ txn' = NoTxn
        /\ batch' = NoBatch
        /\ Reply("batch", TRUE)
        /\ UNCHANGED error
     \/ /\ faulty
        /\ AbortBatch

(* Mutant of PrefixUpperBound: no carry past a trailing 0xFF. *)
PrefixUpperBoundNoCarry(p) ==
  IF p = <<>> \/ p[Len(p)] = MaxByte THEN <<>> ELSE [p EXCEPT ![Len(p)] = @ + 1]

(* The smallest byte string above every string with the prefix: drop       *)
(* trailing 0xFF bytes and increment the last byte left; empty means that  *)
(* there is no bound.                                                      *)
PrefixUpperBound(p) ==
  LET low == {i \in 1..Len(p) : p[i] # MaxByte}
      last == CHOOSE i \in low : \A j \in low : j <= i
  IN  IF low = {} THEN <<>> ELSE [SubSeq(p, 1, last) EXCEPT ![last] = @ + 1]

InRange(k, p) ==
  LET upper == PrefixUpperBound(p)
  IN  ~Kv!LexLess(k, p) /\ (upper = <<>> \/ Kv!LexLess(k, upper))

(* The rows come in key order and stop when the visitor says so, or,       *)
(* silently, when a step or the preparation fails.                         *)
ScanPrefix(p, stop) ==
  /\ Idle
  /\ LET rows == IF ok THEN {k \in DOMAIN View : InRange(k, p)} ELSE {}
     IN  \E seen \in Kv!Visits(rows) :
           /\ seen = rows \/ stop \/ faulty
           /\ reply' = [op |-> "scan", prefix |-> p, stop |-> stop, seen |-> seen]
  /\ UNCHANGED <<durable, txn, batch, error>>

(* The process dies, or the store is destroyed, at any point; the file is  *)
(* opened again, which may fail.                                           *)
Reopen ==
  /\ txn' = NoTxn /\ batch' = NoBatch
  /\ error' \in {FALSE, faulty}
  /\ reply' = [op |-> "none"]
  /\ UNCHANGED durable

Init ==
  /\ faulty \in BOOLEAN
  /\ durable = [k \in {} |-> Absent]
  /\ txn = NoTxn /\ batch = NoBatch
  /\ error \in {FALSE, faulty}
  /\ reply = [op |-> "none"]

Call ==
  \/ \E k \in Keys, v \in Values : Put(k, v)
  \/ \E k \in Keys : Get(k) \/ Erase(k)
  \/ \E p \in Keys, stop \in BOOLEAN : ScanPrefix(p, stop)
  \/ \E ops \in Batches : BatchBegin(ops)
  \/ BatchStep
  \/ BatchCommit
  \/ Reopen

Next == Call /\ UNCHANGED faulty

Spec == Init /\ [][Next]_vars

-----------------------------------------------------------------------------
(* Type invariant. *)
Table(m) == DOMAIN m \subseteq Keys \ {Kv!Empty} /\ \A k \in DOMAIN m : m[k] \in Values

TypeOK ==
  /\ Table(durable)
  /\ txn # NoTxn => Table(txn)
  /\ error \in BOOLEAN

(* Every call behaves as the interface says, whatever fails and whenever   *)
(* the process dies: batches are all-or-nothing, what was acknowledged is  *)
(* in the file, scans see exactly the prefix in order.                     *)
ImplementsKvStore == Kv!Spec
=============================================================================
