------------------------------ MODULE Slowlog ------------------------------
(***************************************************************************)
(* The slow log panel of one node: the mode the UI toggles                 *)
(* (Engine.ToggleSlowlogMode), the passes of its collector                 *)
(* (Engine.collectSlowlog, Source.FetchSlowlog, buildSlowlogEntries) and   *)
(* the log they read.  In mode "new" an entry is shown unless the previous *)
(* poll returned its id; the server numbers its entries from 0 at every    *)
(* start.  What a switch to another server does is in module Target.       *)
(***************************************************************************)
EXTENDS Naturals, FiniteSets

CONSTANTS
    Limit,                  \* --slowlog-limit: entries asked for
    MaxIds,                 \* bound: entries per start of the server
    MaxBoots                \* bound: starts of the server

Entries == [boot : 0..MaxBoots - 1, id : 0..MaxIds - 1]

Modes == {"latest", "new"}

VARIABLES
    boot, nextId, log,      \* the server
    mode,                   \* e.slowlogMode
    request,                \* the mode the pass under way has read, or "none"
    seen,                   \* s.slowlogSeen[node]
    slowlog,                \* the stored snapshot: its mode and entries
    shown,                  \* history: entries of all snapshots so far
    repeated,               \* history: entries mode "new" showed again
    hidden                  \* history: entries polled and left out that no
                            \* snapshot has shown

serverVars == <<boot, nextId, log>>
resultVars == <<seen, slowlog, shown, repeated, hidden>>
vars == <<serverVars, mode, request, resultVars>>

Init ==
    /\ boot = 0 /\ nextId = 0 /\ log = {}
    /\ mode = "latest"
    /\ request = "none"
    /\ seen = {}
    /\ slowlog = [mode |-> "none", rows |-> {}]
    /\ shown = {} /\ repeated = {} /\ hidden = {}

-----------------------------------------------------------------------------

(* The server: a slow command, SLOWLOG RESET, a restart.                    *)
SlowCommand ==
    /\ nextId < MaxIds
    /\ log' = log \cup {[boot |-> boot, id |-> nextId]}
    /\ nextId' = nextId + 1
    /\ UNCHANGED <<boot, mode, request, resultVars>>

ResetLog ==
    /\ log # {}
    /\ log' = {}
    /\ UNCHANGED <<boot, nextId, mode, request, resultVars>>

Restart ==
    /\ boot < MaxBoots - 1
    /\ boot' = boot + 1 /\ nextId' = 0 /\ log' = {}
    /\ UNCHANGED <<mode, request, resultVars>>

(* Key `m` on the panel.                                                    *)
ToggleSlowlogMode ==
    /\ mode' = IF mode = "new" THEN "latest" ELSE "new"
    /\ UNCHANGED <<serverVars, request, resultVars>>

-----------------------------------------------------------------------------

(* collectSlowlog reads the mode first ...                                  *)
Begin ==
    /\ request = "none"
    /\ request' = mode
    /\ UNCHANGED <<serverVars, mode, resultVars>>

FetchErr ==
    /\ request # "none"
    /\ request' = "none"
    /\ UNCHANGED <<serverVars, mode, resultVars>>

Newer(entries, e) == {f \in entries : f.id > e.id}

(* SLOWLOG GET: the newest entries.                                         *)
Newest(entries) == {e \in entries : Cardinality(Newer(entries, e)) < Limit}

Ids(entries) == {e.id : e \in entries}

(* Mutant: only the entries that are shown count as seen.                   *)
RememberRows(items, rows) == Ids(rows)

(* Mutant: everything up to the newest id counts as seen.                   *)
RememberUpTo(items, rows) == {i \in 0..MaxIds - 1 : \E e \in items : i <= e.id}

(* buildSlowlogEntries: nextSeen is what this poll returned, no more.       *)
Remember(items, rows) == Ids(items)

(* ... then polls, filters and stores.                                      *)
Poll ==
    LET items == Newest(log)
        rows == IF request = "new"
                    THEN {e \in items : e.id \notin seen} ELSE items
    IN  /\ request # "none"
        /\ request' = "none"
        /\ seen' = Remember(items, rows)
        /\ slowlog' = [mode |-> request, rows |-> rows]
        /\ shown' = shown \cup rows
        /\ repeated' = IF request = "new" THEN repeated \cup (rows \cap shown)
                                          ELSE repeated
        /\ hidden' = hidden \cup (items \ (rows \cup shown))
        /\ UNCHANGED <<serverVars, mode>>

Next ==
    \/ SlowCommand \/ ResetLog \/ Restart
    \/ ToggleSlowlogMode
    \/ Begin \/ FetchErr \/ Poll

Spec == Init /\ [][Next]_vars

-----------------------------------------------------------------------------

(* Every variable has its type; what is seen was polled.                    *)
TypeOK ==
    /\ boot \in 0..MaxBoots - 1 /\ nextId \in 0..MaxIds
    /\ log \subseteq Entries
    /\ mode \in Modes /\ request \in Modes \cup {"none"}
    /\ seen \subseteq 0..MaxIds - 1
    /\ slowlog \in [mode : Modes \cup {"none"}, rows : SUBSET Entries]
    /\ shown \cup repeated \cup hidden \subseteq Entries

(* Mode "new" shows an entry at most once, although only the ids of the     *)
(* last poll are kept: an entry that has left the newest Limit, by newer    *)
(* ones or by a reset, does not come back (parse.go:169-187).               *)
NewOnce == repeated = {}

(* It hides an entry nobody has seen only when the server was restarted     *)
(* between two polls and gave the entry the id of an older one              *)
(* (parse.go:176-181, source.go:286-289).                                   *)
HiddenOnlyByReuse ==
    \A e \in hidden : \E f \in shown : f.id = e.id /\ f.boot < e.boot

=============================================================================
