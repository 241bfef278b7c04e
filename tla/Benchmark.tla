------------------------------ MODULE Benchmark ------------------------------
(***************************************************************************)
(* Benchmark statistics (BenchmarkService): recomputations, by the nightly *)
(* cron job of every API process and on demand, that write a table bucket  *)
(* by bucket and then delete the cache, and readers that fill it.          *)
(***************************************************************************)
EXTENDS Naturals, FiniteSets, Sequences

CONSTANTS Stages,      \* the stages of all projects
          Keys,        \* what stages can be filed under: `region|name', in parts
          Costs,       \* costs per square metre
          Runs,        \* slots for recomputations at the same time
          Readers,     \* slots for readers at the same time
          MinSample,   \* MIN_SAMPLE_SIZE (3 in the code)
          MaxEdits,    \* changes of stages in all
          MaxFailures  \* recomputations and replies that fail in all

ASSUME BenchmarkAssumption ==
    /\ \A key \in Keys : key \in Seq(STRING) /\ Len(key) >= 2
    /\ {MinSample, MaxEdits, MaxFailures} \subseteq Nat

(* A stage without costs, or of a project without a region or an area. *)
Skipped == [key |-> <<>>, cost |-> 0]
Facts == {Skipped} \cup [key : Keys, cost : Costs]

VARIABLES stages,   \* what there is to compute from
          table,    \* BenchmarkStat: rows to what each averages
          cache,    \* Redis: the published rows, in a set, or nothing
          writer,   \* each recomputation: what it has still to write
          reader,   \* each reader: the rows it has read
          edits, failures,   \* how many so far
          overtaken,   \* history: the cached rows were read before a later write
          abandoned    \* history: a recomputation has failed and left the cache
benchmarkVars == <<stages, table, cache, writer, reader, edits, failures, overtaken, abandoned>>
bounds == <<edits, failures>>

(* key.split('|') with its first two parts taken: a bar in a region or in a *)
(* name moves the border, and different keys may name the same row.         *)
Row(key) == SubSeq(key, 1, 2)
Rows == {Row(key) : key \in Keys}

(* The stages filed under a key, with their costs: what an average is of. *)
Filed(key) == {<<s, stages[s].cost>> : s \in {s \in Stages : stages[s].key = key}}
Buckets == [key \in {stages[s].key : s \in Stages} \ {<<>>} |-> Filed(key)]

(* The rows with samples enough. *)
Published == [row \in {row \in DOMAIN table : Cardinality(table[row]) >= MinSample} |-> table[row]]

None == [row \in {} |-> {}]
NoRun == [at |-> "idle", todo |-> None, wrote |-> FALSE]
NoReader == [at |-> "idle", rows |-> None, late |-> FALSE]

Samples == SUBSET (Stages \X Costs)
BenchmarkTypeOK == /\ stages \in [Stages -> Facts]
                   /\ DOMAIN table \subseteq Rows /\ \A row \in DOMAIN table : table[row] \in Samples
                   /\ Cardinality(cache) <= 1
                   /\ \A r \in Runs : writer[r].at \in {"idle", "upsert", "delete"}
                   /\ \A q \in Readers : reader[q].at \in {"idle", "find", "set"}
                   /\ edits \in 0 .. MaxEdits /\ failures \in 0 .. MaxFailures

BenchmarkInit == /\ stages = [s \in Stages |-> Skipped]
                 /\ table = None /\ cache = {}
                 /\ writer = [r \in Runs |-> NoRun] /\ reader = [q \in Readers |-> NoReader]
                 /\ edits = 0 /\ failures = 0
                 /\ overtaken = FALSE /\ abandoned = FALSE

(* Users edit their projects, stages and expenses. *)
Edit == /\ edits < MaxEdits /\ edits' = edits + 1
        /\ \E s \in Stages, f \in Facts : stages' = [stages EXCEPT ![s] = f]
        /\ UNCHANGED <<table, cache, writer, reader, failures, overtaken, abandoned>>

------------------------------------------------------------------------------
(* recompute. *)

Start(r) == /\ writer[r].at = "idle"
            /\ writer' = [writer EXCEPT ![r] = [at |-> "upsert", todo |-> Buckets, wrote |-> FALSE]]
            /\ UNCHANGED <<stages, table, cache, reader, bounds, overtaken, abandoned>>

(* The rows that a reader holds are no longer those of the table. *)
Overtake == reader' = [q \in Readers |->
                         [reader[q] EXCEPT !.late = @ \/ reader[q].at = "set"]]

(* Write one bucket, found in no particular order. *)
Write(r, key, rows) ==
    /\ writer[r].at = "upsert"
    /\ table' = rows
    /\ writer' = [writer EXCEPT ![r].todo = [k \in DOMAIN @ \ {key} |-> @[k]], ![r].wrote = TRUE]
    /\ Overtake
    /\ UNCHANGED <<stages, cache, bounds, overtaken, abandoned>>

Put(rows, row, sample) == [x \in DOMAIN rows \cup {row} |-> IF x = row THEN sample ELSE rows[x]]

(* A row that is there already is left as it is. *)
Upsert_createOnly(r) ==
    \E key \in DOMAIN writer[r].todo :
        Write(r, key, IF Row(key) \in DOMAIN table THEN table
                      ELSE Put(table, Row(key), writer[r].todo[key]))

Upsert(r) == \E key \in DOMAIN writer[r].todo :
                 Write(r, key, Put(table, Row(key), writer[r].todo[key]))

(* All buckets are written. *)
Written(r) == /\ writer[r].at = "upsert" /\ writer[r].todo = None
              /\ writer' = [writer EXCEPT ![r].at = "delete"]
              /\ UNCHANGED <<stages, table, cache, reader, bounds, overtaken, abandoned>>

(* Nothing is deleted. *)
DeleteCache_keeps(r) ==
    /\ writer[r].at = "delete"
    /\ writer' = [writer EXCEPT ![r] = NoRun]
    /\ abandoned' = FALSE
    /\ UNCHANGED <<stages, table, cache, reader, bounds, overtaken>>

DeleteCache(r) == /\ writer[r].at = "delete"
                  /\ cache' = {}
                  /\ writer' = [writer EXCEPT ![r] = NoRun]
                  /\ overtaken' = FALSE /\ abandoned' = FALSE
                  /\ UNCHANGED <<stages, table, reader, bounds>>

(* A query or Redis fails, or the process stops: the rest is not done. *)
RunFails(r) == /\ writer[r].at # "idle"
               /\ failures < MaxFailures /\ failures' = failures + 1
               /\ abandoned' = (abandoned \/ (writer[r].wrote /\ cache # {}))
               /\ writer' = [writer EXCEPT ![r] = NoRun]
               /\ UNCHANGED <<stages, table, cache, reader, edits, overtaken>>

------------------------------------------------------------------------------
(* getCachedStats.  What is found in the cache is the answer, filtered by   *)
(* what the visitor has chosen; that changes nothing.                       *)

Get(q) == /\ reader[q].at = "idle" /\ cache = {}
          /\ reader' = [reader EXCEPT ![q].at = "find"]
          /\ UNCHANGED <<stages, table, cache, writer, bounds, overtaken, abandoned>>

Find(q) == /\ reader[q].at = "find"
           /\ reader' = [reader EXCEPT ![q] = [at |-> "set", rows |-> Published, late |-> FALSE]]
           /\ UNCHANGED <<stages, table, cache, writer, bounds, overtaken, abandoned>>

Set(q) == /\ reader[q].at = "set"
          /\ cache' = {reader[q].rows}
          /\ overtaken' = reader[q].late
          /\ reader' = [reader EXCEPT ![q] = NoReader]
          /\ UNCHANGED <<stages, table, writer, bounds, abandoned>>

ReadFails(q) == /\ reader[q].at # "idle"
                /\ failures < MaxFailures /\ failures' = failures + 1
                /\ reader' = [reader EXCEPT ![q] = NoReader]
                /\ UNCHANGED <<stages, table, cache, writer, edits, overtaken, abandoned>>

(* An hour is over. *)
Expire == /\ cache # {}
          /\ cache' = {} /\ overtaken' = FALSE /\ abandoned' = FALSE
          /\ UNCHANGED <<stages, table, writer, reader, bounds>>

------------------------------------------------------------------------------
Recompute(r) == Start(r) \/ Upsert(r) \/ Written(r) \/ DeleteCache(r)
Read(q) == Get(q) \/ Find(q) \/ Set(q)

BenchmarkNext == \/ Edit \/ Expire
                 \/ \E r \in Runs : Recompute(r) \/ RunFails(r)
                 \/ \E q \in Readers : Read(q) \/ ReadFails(q)

BenchmarkSpec == BenchmarkInit /\ [][BenchmarkNext]_benchmarkVars

(* The cron job comes back every night, and what has begun goes on. *)
BenchmarkFairSpec == /\ BenchmarkSpec
                     /\ \A r \in Runs : WF_benchmarkVars(Recompute(r))
                     /\ \A q \in Readers : WF_benchmarkVars(Find(q) \/ Set(q))

------------------------------------------------------------------------------
(* Properties. *)

(* What readers are given from the cache is what the table publishes,       *)
(* except while a recomputation is writing, after one that failed halfway,  *)
(* or when the reader that filled the cache was overtaken by a write: a     *)
(* finished recomputation leaves no other old figures behind.               *)
CacheFollowsTable ==
    \A rows \in cache :
        \/ rows = Published
        \/ \E r \in Runs : writer[r].wrote
        \/ overtaken \/ abandoned

(* No other key with stages names the row of this one. *)
Alone(key) == \A k \in DOMAIN Buckets : Row(k) = Row(key) => k = key

(* When the stages no longer change, the row and the cached figure of every *)
(* bucket that stages are still filed under, and that shares its row with   *)
(* no other, come to be of exactly those stages and stay so, whichever      *)
(* recomputations overlapped, failed or wrote late what they had read.      *)
FiguresConverge ==
    <>[](\A key \in DOMAIN Buckets : Alone(key) =>
            /\ Row(key) \in DOMAIN table /\ table[Row(key)] = Filed(key)
            /\ \A rows \in cache :
                  IF Cardinality(Filed(key)) >= MinSample
                  THEN Row(key) \in DOMAIN rows /\ rows[Row(key)] = Filed(key)
                  ELSE Row(key) \notin DOMAIN rows)

==============================================================================
