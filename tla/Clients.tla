------------------------------ MODULE Clients ------------------------------
(***************************************************************************)
(* The clients panel of one node: the sort order and the filter the UI     *)
(* sets (Engine.SetClientSort, SetClientFilter), and the passes of         *)
(* Engine.collectClients, which spares a busy server: with more than 1000  *)
(* (5000) connections, CLIENT LIST is asked for at most every 3 (5)        *)
(* seconds, unless the settings changed.  Every read of a setting is a     *)
(* critical section of its own.                                            *)
(***************************************************************************)
EXTENDS Naturals

CONSTANTS
    Sorts, Filters,
    MaxEdits                \* bound: changes of the settings

MaxAge == 5                 \* ages from here on are the same to the throttle

VARIABLES
    sort, filter,           \* e.clientSort, e.clientFilter
    edits,                  \* changes so far
    connected,              \* dashboard: "none" yet, "few", "many" or "huge"
    clients,                \* the stored snapshot's SortBy and Filter
    age,                    \* seconds since it was collected
    step,                   \* where the pass is
    options,                \* the settings the pass has read for its request
    clean,                  \* history: no change since the pass began
    settled,                \* history: no change since the beginning of a pass
                            \* that ended without an error
    steady, current         \* history: no change since the pass read the sort
                            \* order, and since that of the snapshot was read

settingVars == <<sort, filter, edits>>
storeVars == <<connected, clients, age>>
passVars == <<step, options>>
historyVars == <<clean, settled, steady, current>>
vars == <<settingVars, storeVars, passVars, historyVars>>

Settings == [sort : Sorts, filter : Filters]

NoSnapshot == [sort |-> "none", filter |-> "none"]

(* The first filter is the empty one, the first order "idle".               *)
Init ==
    /\ sort \in Sorts /\ filter \in Filters
    /\ edits = 0
    /\ connected = "none"
    /\ clients = NoSnapshot /\ age = MaxAge
    /\ step = "idle" /\ options = NoSnapshot
    /\ clean = FALSE /\ settled = FALSE /\ steady = FALSE /\ current = FALSE

-----------------------------------------------------------------------------
(* The settings, the dashboard panel and the clock.                         *)

Edited ==
    /\ edits < MaxEdits
    /\ edits' = edits + 1
    /\ clean' = FALSE /\ settled' = FALSE /\ steady' = FALSE /\ current' = FALSE
    /\ UNCHANGED <<storeVars, passVars>>

SetClientSort == Edited /\ sort' \in Sorts \ {sort} /\ UNCHANGED filter

SetClientFilter == Edited /\ filter' \in Filters \ {filter} /\ UNCHANGED sort

SaveDashboard ==
    /\ connected' \in {"few", "many", "huge"}
    /\ UNCHANGED <<settingVars, clients, age, passVars, historyVars>>

Tick ==
    /\ age < MaxAge
    /\ age' = age + 1
    /\ UNCHANGED <<settingVars, connected, clients, passVars, historyVars>>

-----------------------------------------------------------------------------
(* A pass of collectClients.                                                *)

Quiet == UNCHANGED <<settingVars, storeVars, options, historyVars>>

Begin ==
    /\ step = "idle"
    /\ step' = "throttle"
    /\ clean' = TRUE
    /\ UNCHANGED <<settingVars, storeVars, options, settled, steady, current>>

Spare == CASE connected = "huge" -> 5 [] connected = "many" -> 3 [] OTHER -> 0

(* The dashboard's count and the age of the latest snapshot ...             *)
Throttle ==
    /\ step = "throttle"
    /\ step' = IF clients # NoSnapshot /\ age < Spare THEN "sort?" ELSE "sort"
    /\ Quiet

(* ... whose SortBy ...                                                     *)
CompareSort ==
    /\ step = "sort?"
    /\ step' = IF clients.sort = sort THEN "filter?" ELSE "sort"
    /\ Quiet

(* Mutant: a change of the filter does not lift the throttle.               *)
CompareNothing ==
    /\ step = "filter?"
    /\ step' = "idle"
    /\ settled' = clean
    /\ UNCHANGED <<settingVars, storeVars, options, clean, steady, current>>

(* ... and Filter must be the current ones to skip the request.             *)
CompareFilter ==
    /\ step = "filter?"
    /\ IF clients.filter = filter
         THEN step' = "idle" /\ settled' = clean
         ELSE step' = "sort" /\ settled' = settled
    /\ UNCHANGED <<settingVars, storeVars, options, clean, steady, current>>

(* The settings are read again for the request ...                          *)
ReadSort ==
    /\ step = "sort"
    /\ step' = "filter"
    /\ options' = [options EXCEPT !.sort = sort]
    /\ steady' = TRUE
    /\ UNCHANGED <<settingVars, storeVars, clean, settled, current>>

ReadFilter ==
    /\ step = "filter"
    /\ step' = "request"
    /\ options' = [options EXCEPT !.filter = filter]
    /\ UNCHANGED <<settingVars, storeVars, historyVars>>

(* ... and the snapshot says which ones it was made with.                   *)
SaveClients ==
    /\ step = "request"
    /\ step' = "idle"
    /\ clients' = options /\ age' = 0
    /\ options' = NoSnapshot
    /\ settled' = clean /\ current' = steady
    /\ UNCHANGED <<settingVars, connected, clean, steady>>

FetchErr ==
    /\ step = "request"
    /\ step' = "idle"
    /\ options' = NoSnapshot
    /\ UNCHANGED <<settingVars, storeVars, historyVars>>

Next ==
    \/ SetClientSort \/ SetClientFilter \/ SaveDashboard \/ Tick
    \/ Begin \/ Throttle \/ CompareSort \/ CompareFilter
    \/ ReadSort \/ ReadFilter \/ SaveClients \/ FetchErr

Spec == Init /\ [][Next]_vars

-----------------------------------------------------------------------------

(* Every variable has its type; a setting is in the request once read.      *)
TypeOK ==
    /\ sort \in Sorts /\ filter \in Filters /\ edits \in 0..MaxEdits
    /\ connected \in {"none", "few", "many", "huge"}
    /\ clients \in Settings \cup {NoSnapshot} /\ age \in 0..MaxAge
    /\ step \in {"idle", "throttle", "sort?", "filter?", "sort", "filter", "request"}
    /\ step = "request" => options \in Settings
    /\ {clean, settled, steady, current} \subseteq BOOLEAN

(* The throttle never costs the user a change of the settings: when a pass  *)
(* that began after the last change ends without an error, be it by         *)
(* skipping, the snapshot is one made with the settings, both of them, as   *)
(* they are.  And only a change lifts it: as long as there was none since   *)
(* the settings of the snapshot were read, one after the other, a pass that *)
(* compares them finds them equal and skips (engine.go:274-303).            *)
(* README.md:149 knows neither: it has a poll within 5 seconds of the last  *)
(* skipped whenever there are more than 5000 connections.                   *)
ChangesLiftThrottle ==
    settled \/ current => clients = [sort |-> sort, filter |-> filter]

=============================================================================
