------------------------------ MODULE BigKeys ------------------------------
(***************************************************************************)
(* The big keys panel of one node: Source.FetchBigKeys walks the key space *)
(* with SCAN, batch after batch, estimates the size of each key, and stops *)
(* at the sample limit or when the time budget is used up; the snapshot    *)
(* keeps the biggest and says where the SCAN stood.                        *)
(*                                                                         *)
(* Keys and sizes do not change here; a key of size 0 is one whose size    *)
(* cannot be had.  The context of the requests is made just before the     *)
(* deadline of the loop, so it always expires first.                       *)
(***************************************************************************)
EXTENDS Naturals, FiniteSets

CONSTANTS
    Keys,                   \* numbers: their order breaks ties
    Batches,                \* SCAN replies it takes to walk the key space
    MaxSize,
    SampleMax, TopK         \* --keys-sample-max, --keys-topk

VARIABLES
    page, size,             \* the server: key -> the reply it is in, its size
    time,                   \* "ok", "ctx" expired, or "deadline" too
    at,                     \* "idle", before a "scan", or in a "batch"
    cursor,                 \* the SCAN cursor; 0 is both ends
    batch,                  \* keys of the reply still to look at
    candidates,             \* rows collected
    missed,                 \* history: keys with a size this pass went past
    bigKeys                 \* the stored snapshot

serverVars == <<page, size>>
passVars == <<time, at, cursor, batch, candidates, missed>>
vars == <<serverVars, passVars, bigKeys>>

NoRows == [rows |-> {}, sampled |-> 0, remaining |-> 0, missed |-> {}]

Init ==
    /\ page \in [Keys -> 1..Batches]
    /\ size \in [Keys -> 0..MaxSize]
    /\ time = "ok" /\ at = "idle" /\ cursor = 0
    /\ batch = {} /\ candidates = {} /\ missed = {}
    /\ bigKeys = NoRows

-----------------------------------------------------------------------------

Begin ==
    /\ at = "idle"
    /\ at' = "scan" /\ time' = "ok"
    /\ cursor' = 0 /\ batch' = {} /\ candidates' = {} /\ missed' = {}
    /\ UNCHANGED <<serverVars, bigKeys>>

Expire ==
    /\ at # "idle" /\ time # "deadline"
    /\ time' = IF time = "ok" THEN "ctx" ELSE "deadline"
    /\ UNCHANGED <<serverVars, at, cursor, batch, candidates, missed, bigKeys>>

Sampled == Cardinality(candidates)

(* The conditions of both loops.                                            *)
Goes == time # "deadline" /\ Sampled < SampleMax

Scan ==
    /\ at = "scan" /\ Goes /\ time = "ok"
    /\ batch' = {k \in Keys : page[k] = cursor + 1}
    /\ cursor' = (cursor + 1) % Batches
    /\ at' = "batch"
    /\ UNCHANGED <<serverVars, time, candidates, missed, bigKeys>>

(* A failed SCAN gives up the pass, its rows and its cursor.                *)
ScanErr ==
    /\ at = "scan" /\ Goes
    /\ at' = "idle"
    /\ UNCHANGED <<serverVars, time, cursor, batch, candidates, missed, bigKeys>>

(* Mutant: the sample limit is looked at before a batch only.               *)
EstimateAll(k) ==
    /\ at = "batch" /\ k \in batch
    /\ time = "ok" /\ size[k] > 0
    /\ candidates' = candidates \cup {[key |-> k, size |-> size[k]]}
    /\ batch' = batch \ {k}
    /\ UNCHANGED <<serverVars, time, at, cursor, missed, bigKeys>>

(* estimateBigKey, in time and with a size ...                              *)
Estimate(k) ==
    /\ at = "batch" /\ Goes /\ k \in batch
    /\ time = "ok" /\ size[k] > 0
    /\ candidates' = candidates \cup {[key |-> k, size |-> size[k]]}
    /\ batch' = batch \ {k}
    /\ UNCHANGED <<serverVars, time, at, cursor, missed, bigKeys>>

(* ... or without one: the key is gone, or its requests fail.               *)
EstimateErr(k) ==
    /\ at = "batch" /\ Goes /\ k \in batch
    /\ batch' = batch \ {k}
    /\ missed' = IF size[k] > 0 THEN missed \cup {k} ELSE missed
    /\ UNCHANGED <<serverVars, time, at, cursor, candidates, bigKeys>>

(* The batch is done, or what is left of it is dropped.                     *)
EndBatch ==
    /\ at = "batch" /\ (batch = {} \/ ~Goes)
    /\ at' = IF cursor = 0 THEN "end" ELSE "scan"
    /\ missed' = missed \cup {k \in batch : size[k] > 0}
    /\ batch' = {}
    /\ UNCHANGED <<serverVars, time, cursor, candidates, bigKeys>>

Before(r, s) == r.size > s.size \/ (r.size = s.size /\ r.key < s.key)

(* Mutant: sorted in the wrong direction.                                   *)
KeepBottom(rows) == {r \in rows : Cardinality({s \in rows : Before(r, s)}) < TopK}

(* keepTopBigKeys                                                           *)
KeepTop(rows) == {r \in rows : Cardinality({s \in rows : Before(s, r)}) < TopK}

Finish ==
    /\ at = "end" \/ (at = "scan" /\ ~Goes)
    /\ bigKeys' = [rows |-> KeepTop(candidates), sampled |-> Sampled,
                   remaining |-> cursor, missed |-> missed]
    /\ at' = "idle"
    /\ UNCHANGED <<serverVars, time, cursor, batch, candidates, missed>>

Next ==
    \/ Begin \/ Expire \/ Scan \/ ScanErr
    \/ \E k \in Keys : Estimate(k) \/ EstimateErr(k)
    \/ EndBatch \/ Finish

Spec == Init /\ [][Next]_vars

-----------------------------------------------------------------------------

(* Every variable has its type, and the sample stays within its limit.      *)
TypeOK ==
    /\ page \in [Keys -> 1..Batches] /\ size \in [Keys -> 0..MaxSize]
    /\ time \in {"ok", "ctx", "deadline"}
    /\ at \in {"idle", "scan", "batch", "end"}
    /\ cursor \in 0..Batches - 1
    /\ batch \subseteq Keys /\ missed \subseteq Keys
    /\ candidates \subseteq [key : Keys, size : 1..MaxSize]
    /\ Sampled <= SampleMax
    /\ bigKeys.sampled <= SampleMax

(* A walk that came to the end (RemainingCursor 0) has the TopK biggest     *)
(* keys of the server among those it did not go past: an estimate that      *)
(* failed, or the rest of the last batch, dropped at the limit or the       *)
(* deadline while the cursor already says 0 (source.go:379-415,             *)
(* parse.go:241-252).                                                       *)
WholeWalkIsTop ==
    bigKeys.sampled > 0 /\ bigKeys.remaining = 0 =>
        \A k \in Keys \ bigKeys.missed :
            \/ size[k] = 0
            \/ \E r \in bigKeys.rows : r.key = k
            \/ Cardinality({r \in bigKeys.rows :
                    Before(r, [key |-> k, size |-> size[k]])}) = TopK

(* README.md:234: when the time is up with the SCAN unfinished,             *)
(* RemainingCursor is recorded and the next pass continues there.           *)
ContinuesScan ==
    [][at = "idle" /\ at' = "scan" => cursor' = bigKeys.remaining]_vars

=============================================================================
