---------------------------- MODULE PanelsProofs ----------------------------
(***************************************************************************)
(* What holds for every value of the constants of the panels that show a   *)
(* list, and of the settings: settings, clients, slow log, big keys,       *)
(* commands and the client list, each by an invariant of its own.  The     *)
(* topology panel, MONITOR and the types are in module ScreenProofs.       *)
(***************************************************************************)
EXTENDS Panels, Sequences, FiniteSetTheorems, SequenceTheorems,
        WellFoundedInduction, TLAPS

(* A step follows one part and leaves the others as they are.               *)
LEMMA OnePart ==
  ASSUME [Next]_vars
  PROVE  /\ Slow!Next \/ UNCHANGED slowVars
         /\ Cli!Next \/ UNCHANGED cliVars
         /\ Big!Next \/ UNCHANGED bigVars
         /\ List!Next \/ UNCHANGED listVars
         /\ Com!Next \/ UNCHANGED comVars
         /\ Mon!Next \/ UNCHANGED monVars
         /\ Topo!Next \/ UNCHANGED topoVars
         /\ Conf!Next \/ UNCHANGED confVars
<1> USE DEF slowVars, cliVars, bigVars, comVars, listVars, monVars, topoVars, confVars
<1>1. CASE FollowSlowlog
  BY <1>1 DEF FollowSlowlog
<1>2. CASE FollowClients
  BY <1>2 DEF FollowClients
<1>3. CASE FollowCommands
  BY <1>3 DEF FollowCommands
<1>4. CASE FollowMonitor
  BY <1>4 DEF FollowMonitor
<1>5. CASE FollowTopology
  BY <1>5 DEF FollowTopology
<1>6. CASE FollowSettings
  BY <1>6 DEF FollowSettings
<1>7. CASE FollowKeys
  BY <1>7 DEF FollowKeys
<1>8. CASE FollowList
  BY <1>8 DEF FollowList
<1>9. CASE UNCHANGED vars
  BY <1>9 DEF vars
<1> QED
  BY <1>1, <1>2, <1>3, <1>4, <1>5, <1>6, <1>7, <1>8, <1>9 DEF Next

(* Induction over the numbers, about sets: the theorems of the library take *)
(* an operator, which the provers cannot supply.                            *)
LEMMA LeastNumber ==
  ASSUME NEW T, T \subseteq Nat, T # {}
  PROVE  \E m \in T : \A k \in T : m <= k
<1> DEFINE R == OpToRel(<, Nat)
<1>1. PICK m \in T : \A k \in T : ~(<<k, m>> \in R)
  <2> HIDE DEF R
  <2>1. IsWellFoundedOn(R, Nat)
    BY NatLessThanWellFounded DEF R
  <2> QED
    BY <2>1, WFMin
<1>2. \A k \in T : ~(k < m)
  BY <1>1 DEF OpToRel
<1> QED
  BY <1>2

LEMMA NumberInduction ==
  ASSUME NEW T, 0 \in T, \A n \in Nat : n \in T => n + 1 \in T
  PROVE  Nat \subseteq T
<1> SUFFICES ASSUME Nat \ T # {} PROVE FALSE
  OBVIOUS
<1>1. PICK m \in Nat \ T : \A k \in Nat \ T : m <= k
  BY LeastNumber
<1>2. m - 1 \in Nat /\ m = (m - 1) + 1
  BY <1>1
<1> QED
  BY <1>1, <1>2

-----------------------------------------------------------------------------
(* The settings.                                                            *)

(* Every flag given so far is in the settings; a start makes them positive. *)
SettingsInv ==
    /\ settings \in [Conf!Settings -> Int] /\ flags \in [Conf!Flags -> Int]
    /\ \A f \in Conf!Flags :
            (flags[f] > 0 \/ (flags[f] # 0 /\ ~started)) => settings[f] = flags[f]
    /\ started \in BOOLEAN
    /\ started => \A s \in Conf!Settings : settings[s] > 0

LEMMA FallbackPositive ==
  /\ Conf!Fallback \in [Conf!Settings -> Nat \ {0}]
  /\ Conf!Flags \subseteq Conf!Settings /\ "Refresh" \in Conf!Settings
BY DEF Conf!Fallback, Conf!Settings, Conf!Flags

(* Normalize makes every setting positive and keeps those that are.         *)
LEMMA Normalized ==
  ASSUME NEW c \in [Conf!Settings -> Int]
  PROVE  /\ Conf!Normalize(c) \in [Conf!Settings -> Nat \ {0}]
         /\ \A s \in Conf!Settings : c[s] > 0 => Conf!Normalize(c)[s] = c[s]
<1> DEFINE refresh == IF c.Refresh > 0 THEN c.Refresh ELSE Conf!Fallback.Refresh
           value(s) == IF c[s] > 0 THEN c[s]
                       ELSE IF s \in Conf!Followers THEN refresh
                       ELSE Conf!Fallback[s]
<1>1. c["Refresh"] \in Int /\ Conf!Fallback["Refresh"] \in Nat \ {0}
  BY FallbackPositive
<1>2. refresh \in Nat \ {0}
  BY <1>1
<1>3. \A s \in Conf!Settings : c[s] \in Int /\ Conf!Fallback[s] \in Nat \ {0}
  BY FallbackPositive
<1> HIDE DEF refresh
<1>4. ASSUME NEW s \in Conf!Settings PROVE value(s) \in Nat \ {0}
  BY <1>2, <1>3
<1>5. ASSUME NEW s \in Conf!Settings, c[s] > 0 PROVE value(s) = c[s]
  BY <1>3, <1>5
<1>6. Conf!Normalize(c) = [s \in Conf!Settings |-> value(s)]
  BY DEF Conf!Normalize, refresh
<1> HIDE DEF value
<1>7. Conf!Normalize(c) \in [Conf!Settings -> Nat \ {0}]
  BY <1>4, <1>6
<1>8. ASSUME NEW s \in Conf!Settings, c[s] > 0 PROVE Conf!Normalize(c)[s] = c[s]
  BY <1>5, <1>6, <1>8
<1> QED
  BY <1>7, <1>8

LEMMA DefaultTyped == Conf!Default \in [Conf!Settings -> Nat \ {0}]
<1> DEFINE literal == [s \in Conf!Settings |->
                        IF s \in {"Dashboard", "Commands"} THEN 0
                        ELSE Conf!Fallback[s]]
<1>1. literal \in [Conf!Settings -> Int]
  BY FallbackPositive
<1> HIDE DEF literal
<1>2. Conf!Normalize(literal) \in [Conf!Settings -> Nat \ {0}]
  BY <1>1, Normalized
<1> QED
  BY <1>2 DEF Conf!Default, literal

Fresh == settings = Conf!Default /\ flags = Conf!NoFlags /\ started = FALSE

LEMMA FreshSettings == Fresh => SettingsInv
<1> SUFFICES ASSUME Fresh PROVE SettingsInv
  OBVIOUS
<1>1. settings \in [Conf!Settings -> Int]
  BY DefaultTyped DEF Fresh
<1>2. flags \in [Conf!Flags -> Int] /\ \A f \in Conf!Flags : flags[f] = 0
  BY DEF Fresh, Conf!NoFlags
<1>3. \A f \in Conf!Flags :
        (flags[f] > 0 \/ (flags[f] # 0 /\ ~started)) => settings[f] = flags[f]
  BY <1>2
<1>4. started = FALSE
  BY DEF Fresh
<1> QED
  BY <1>1, <1>2, <1>3, <1>4 DEF SettingsInv

LEMMA SettingsStep == ASSUME SettingsInv, [Next]_vars PROVE SettingsInv'
<1>1. ASSUME NEW f \in Conf!Flags, NEW v \in Conf!Values, Conf!Parse(f, v)
      PROVE  SettingsInv'
  <2>1. v \in Int /\ f \in Conf!Settings
    BY FallbackPositive DEF Conf!Values
  <2>2. /\ settings' = [settings EXCEPT ![f] = v] /\ flags' = [flags EXCEPT ![f] = v]
        /\ started = FALSE /\ started' = FALSE
    BY <1>1 DEF Conf!Parse
  <2> QED
    BY <2>1, <2>2, FallbackPositive DEF SettingsInv
<1>2. CASE Conf!Start
  <2>1. settings' = Conf!Normalize(settings) /\ flags' = flags /\ started' = TRUE
    BY <1>2 DEF Conf!Start
  <2>2. settings \in [Conf!Settings -> Int]
    BY DEF SettingsInv
  <2>3. settings' \in [Conf!Settings -> Nat \ {0}]
    BY <2>1, <2>2, Normalized
  <2>4. \A s \in Conf!Settings : settings[s] > 0 => settings'[s] = settings[s]
    BY <2>1, <2>2, Normalized
  <2> QED
    BY <2>1, <2>3, <2>4, FallbackPositive DEF SettingsInv
<1>3. CASE Conf!Restart
  <2>1. Fresh'
    BY <1>3 DEF Conf!Restart, Fresh, Conf!Default, Conf!NoFlags
  <2> QED
    BY <2>1, FreshSettings, PTL
<1>4. CASE UNCHANGED confVars
  BY <1>4 DEF confVars, SettingsInv
<1> QED
  BY <1>1, <1>2, <1>3, <1>4, OnePart DEF Conf!Next

(* Whatever flags are given, in whatever order and however often, what the  *)
(* program starts with is positive, and what the flags say where that is    *)
(* (config.go:95-152, main.go:55-97).                                       *)
THEOREM SettingsSound == Spec => []StartsSound
<1>1. Init => SettingsInv
  BY FreshSettings DEF Init, Conf!Init, Fresh
<1>2. SettingsInv /\ [Next]_vars => SettingsInv'
  BY SettingsStep
<1>3. SettingsInv => StartsSound
  BY FallbackPositive DEF SettingsInv, StartsSound, Conf!StartsSound
<1> QED
  BY <1>1, <1>2, <1>3, PTL DEF Spec

-----------------------------------------------------------------------------
(* The clients panel.                                                       *)

(* The settings as a snapshot has them.                                     *)
Current == [sort |-> sort, filter |-> filter]

Snapshots ==
    [sort : Sorts \cup {"none"}, filter : Filters \cup {"none"}]

(* A pass that nobody disturbed has compared or read the current settings;  *)
(* what it read stays current until the next change.                        *)
ClientsInv ==
    /\ sort \in Sorts /\ filter \in Filters
    /\ clients \in Snapshots /\ options \in Snapshots
    /\ clean /\ step = "filter?" => clients.sort = sort
    /\ clean \/ steady =>
        /\ step \in {"filter", "request"} => options.sort = sort
        /\ step = "request" => options.filter = filter
    /\ settled \/ current => clients = Current

LEMMA ClientsStep == ASSUME ClientsInv, [Next]_vars PROVE ClientsInv'
<1> USE DEF ClientsInv, Current
<1>1. CASE Cli!SetClientSort \/ Cli!SetClientFilter
  BY <1>1 DEF Cli!SetClientSort, Cli!SetClientFilter, Cli!Edited, Cli!storeVars,
     Cli!passVars
<1>2. CASE Cli!SaveDashboard \/ Cli!Tick \/ UNCHANGED cliVars
  BY <1>2 DEF Cli!SaveDashboard, Cli!Tick, cliVars, Cli!settingVars, Cli!passVars,
     Cli!historyVars
<1>3. CASE Cli!Begin \/ Cli!Throttle \/ Cli!CompareSort
  BY <1>3 DEF Cli!Begin, Cli!Throttle, Cli!CompareSort, Cli!Quiet, Cli!settingVars,
     Cli!storeVars, Cli!historyVars
<1>4. CASE Cli!CompareFilter
  <2>1. clients.sort = sort /\ clients.filter = filter => clients = Current
    BY DEF Snapshots
  <2> QED
    BY <1>4, <2>1 DEF Cli!CompareFilter, Cli!settingVars, Cli!storeVars
<1>5. CASE Cli!ReadSort \/ Cli!ReadFilter
  <2>1. CASE Cli!ReadSort
    <3>1. options' \in Snapshots /\ options'.sort = sort
      BY <2>1 DEF Cli!ReadSort, Snapshots
    <3> QED
      BY <2>1, <3>1 DEF Cli!ReadSort, Cli!settingVars, Cli!storeVars, Cli!historyVars
  <2>2. CASE Cli!ReadFilter
    <3>1. /\ options' \in Snapshots /\ options'.filter = filter
          /\ options'.sort = options.sort
      BY <2>2 DEF Cli!ReadFilter, Snapshots
    <3> QED
      BY <2>2, <3>1 DEF Cli!ReadFilter, Cli!settingVars, Cli!storeVars,
         Cli!historyVars
  <2> QED
    BY <1>5, <2>1, <2>2
<1>6. CASE Cli!SaveClients \/ Cli!FetchErr
  <2>1. options.sort = sort /\ options.filter = filter => options = Current
    BY DEF Snapshots
  <2>2. Cli!NoSnapshot \in Snapshots
    BY DEF Cli!NoSnapshot, Snapshots
  <2> QED
    BY <1>6, <2>1, <2>2 DEF Cli!SaveClients, Cli!FetchErr, Cli!settingVars,
       Cli!storeVars, Cli!historyVars
<1> QED
  BY <1>1, <1>2, <1>3, <1>4, <1>5, <1>6, OnePart DEF Cli!Next

(* Whatever the orders and filters and however the changes, polls and the   *)
(* clock interleave, a pass that began after the last change and ended      *)
(* without an error leaves a list made with the settings as they are, and   *)
(* a list whose settings were read after the last change is such a list for *)
(* as long as there is no other, so that only a change lifts the throttle   *)
(* (engine.go:274-303).                                                     *)
THEOREM ThrottleLifts == Spec => []ChangesLiftThrottle
<1>1. Init => ClientsInv
  BY DEF Init, Cli!Init, Cli!NoSnapshot, ClientsInv, Snapshots
<1>2. ClientsInv /\ [Next]_vars => ClientsInv'
  BY ClientsStep
<1>3. ClientsInv => ChangesLiftThrottle
  BY DEF ClientsInv, Current, ChangesLiftThrottle, Cli!ChangesLiftThrottle
<1> QED
  BY <1>1, <1>2, <1>3, PTL DEF Spec

-----------------------------------------------------------------------------
(* The slow log.                                                            *)

(* The entries of the log are of this start of the server; those shown are  *)
(* of this one or of earlier ones; those the next poll would return again   *)
(* are seen, and what is seen was shown under its id.                       *)
SlowInv ==
    /\ boot \in Nat /\ nextId \in Nat /\ IsFiniteSet(log)
    /\ log \cup shown \subseteq [boot : Nat, id : Nat]
    /\ \A e \in log : e.boot = boot /\ e.id < nextId
    /\ \A e \in shown : e.boot < boot \/ (e.boot = boot /\ e.id < nextId)
    /\ \A e \in Slow!Newest(log) \cap shown : e.id \in seen
    /\ \A i \in seen : \E e \in shown : e.id = i
    /\ repeated = {}
    /\ Slow!HiddenOnlyByReuse

LEMMA CountsOfSlowlog == \A T : Slow!Cardinality(T) = Cardinality(T)
BY DEF Slow!Cardinality, Cardinality

(* An entry that has left the newest does not come back among them.         *)
LEMMA NewestOnlyLeave ==
  ASSUME NEW S, IsFiniteSet(S), NEW e
  PROVE  Slow!Newest(S \cup {e}) \subseteq Slow!Newest(S) \cup {e}
<1> SUFFICES ASSUME NEW d \in Slow!Newest(S \cup {e}), d # e
             PROVE  d \in Slow!Newest(S)
  OBVIOUS
<1> DEFINE before == Slow!Newer(S, d)
           after == Slow!Newer(S \cup {e}, d)
<1>1. d \in S /\ Cardinality(after) < Limit
  BY CountsOfSlowlog DEF Slow!Newest
<1>2. IsFiniteSet(after) /\ before \subseteq after
  <2>1. IsFiniteSet(S \cup {e})
    BY FS_AddElement
  <2>2. after \subseteq S \cup {e} /\ before \subseteq after
    BY DEF Slow!Newer
  <2> QED
    BY <2>1, <2>2, FS_Subset
<1> HIDE DEF before, after
<1>3. /\ Cardinality(before) <= Cardinality(after)
      /\ Cardinality(before) \in Nat /\ Cardinality(after) \in Nat
  BY <1>2, FS_Subset, FS_CardinalityType
<1>4. Limit \in Nat
  BY PanelsAssumption
<1>5. Cardinality(before) < Limit
  BY <1>1, <1>3, <1>4
<1> QED
  BY <1>1, <1>5, CountsOfSlowlog DEF Slow!Newest, before

LEMMA SlowCommandStep == ASSUME SlowInv, Slow!SlowCommand PROVE SlowInv'
<1> DEFINE new == [boot |-> boot, id |-> nextId]
<1>1. /\ log' = log \cup {new} /\ nextId' = nextId + 1
      /\ boot' = boot /\ UNCHANGED Slow!resultVars
  BY DEF Slow!SlowCommand
<1>2. UNCHANGED <<seen, shown, repeated, hidden>>
  BY <1>1 DEF Slow!resultVars
<1>3. /\ IsFiniteSet(log \cup {new})
      /\ Slow!Newest(log \cup {new}) \subseteq Slow!Newest(log) \cup {new}
  <2>1. IsFiniteSet(log)
    BY DEF SlowInv
  <2> HIDE DEF new
  <2> QED
    BY <2>1, FS_AddElement, NewestOnlyLeave
<1>4. new \in [boot : Nat, id : Nat] /\ new.boot = boot /\ new.id = nextId
  BY DEF SlowInv
<1>5. new \notin shown
  BY <1>4 DEF SlowInv
<1> HIDE DEF new
<1>6. log' \cup shown' \subseteq [boot : Nat, id : Nat]
  BY <1>1, <1>2, <1>4 DEF SlowInv
<1>7. \A e \in log' : e.boot = boot' /\ e.id < nextId'
  BY <1>1, <1>4 DEF SlowInv
<1>8. \A e \in shown' : e.boot < boot' \/ (e.boot = boot' /\ e.id < nextId')
  BY <1>1, <1>2 DEF SlowInv
<1>9. \A e \in Slow!Newest(log') \cap shown' : e.id \in seen'
  BY <1>1, <1>2, <1>3, <1>5 DEF SlowInv
<1>10. IsFiniteSet(log') /\ boot' \in Nat /\ nextId' \in Nat
  BY <1>1, <1>3 DEF SlowInv
<1>11. /\ \A i \in seen' : \E e \in shown' : e.id = i
       /\ repeated' = {} /\ Slow!HiddenOnlyByReuse'
  BY <1>2 DEF SlowInv, Slow!HiddenOnlyByReuse
<1> QED
  BY <1>6, <1>7, <1>8, <1>9, <1>10, <1>11 DEF SlowInv

LEMMA PollStep == ASSUME SlowInv, Slow!Poll PROVE SlowInv'
<1> DEFINE items == Slow!Newest(log)
           rows == IF request = "new" THEN {e \in items : e.id \notin seen}
                                      ELSE items
<1>1. items \subseteq log
  BY DEF Slow!Newest
<1> HIDE DEF items
<1>2. /\ seen' = {e.id : e \in items} /\ shown' = shown \cup rows
      /\ repeated' = IF request = "new" THEN repeated \cup (rows \cap shown)
                                        ELSE repeated
      /\ hidden' = hidden \cup (items \ (rows \cup shown))
      /\ UNCHANGED <<boot, nextId, log>>
  BY DEF Slow!Poll, Slow!Remember, Slow!Ids, Slow!serverVars, items
<1>3. rows \subseteq items /\ \A e \in items \ rows : e.id \in seen
  OBVIOUS
<1>4. request = "new" => rows \cap shown = {}
  BY DEF SlowInv, items
<1> HIDE DEF rows
<1>5. repeated' = {}
  BY <1>2, <1>4 DEF SlowInv
<1>6. \A e \in items \ (rows \cup shown) :
        \E f \in shown : f.id = e.id /\ f.boot < e.boot
  <2> SUFFICES ASSUME NEW e \in items \ (rows \cup shown)
               PROVE  \E f \in shown : f.id = e.id /\ f.boot < e.boot
    OBVIOUS
  <2>1. PICK f \in shown : f.id = e.id
    BY <1>3 DEF SlowInv
  <2>2. e.boot = boot /\ f.boot <= boot
    BY <1>1 DEF SlowInv
  <2>3. f.boot # e.boot
    <3>1. f \in [boot : Nat, id : Nat] /\ e \in [boot : Nat, id : Nat] /\ f # e
      BY <1>1 DEF SlowInv
    <3> QED
      BY <2>1, <3>1
  <2>4. f.boot \in Nat /\ boot \in Nat
    BY DEF SlowInv
  <2> QED
    BY <2>1, <2>2, <2>3, <2>4
<1>7. Slow!HiddenOnlyByReuse'
  BY <1>2, <1>6 DEF SlowInv, Slow!HiddenOnlyByReuse
<1>8. \A i \in seen' : \E e \in shown' : e.id = i
  BY <1>2, <1>3 DEF SlowInv
<1>9. \A e \in Slow!Newest(log') \cap shown' : e.id \in seen'
  BY <1>2 DEF items
<1>10. /\ log' \cup shown' \subseteq [boot : Nat, id : Nat]
       /\ \A e \in shown' : e.boot < boot' \/ (e.boot = boot' /\ e.id < nextId')
  BY <1>1, <1>2, <1>3 DEF SlowInv
<1> QED
  BY <1>2, <1>5, <1>7, <1>8, <1>9, <1>10 DEF SlowInv

LEMMA SlowStep == ASSUME SlowInv, [Next]_vars PROVE SlowInv'
<1>1. Slow!Newest({}) = {}
  BY DEF Slow!Newest
<1>2. CASE Slow!ResetLog
  BY <1>1, <1>2, FS_EmptySet
     DEF SlowInv, Slow!ResetLog, Slow!resultVars, Slow!HiddenOnlyByReuse
<1>3. CASE Slow!Restart
  <2>1. /\ boot' = boot + 1 /\ nextId' = 0 /\ log' = {}
        /\ UNCHANGED <<seen, shown, repeated, hidden>>
    BY <1>3 DEF Slow!Restart, Slow!resultVars
  <2>2. \A e \in shown : e.boot < boot + 1
    BY DEF SlowInv
  <2> QED
    BY <1>1, <2>1, <2>2, FS_EmptySet DEF SlowInv, Slow!HiddenOnlyByReuse
<1>4. CASE \/ Slow!ToggleSlowlogMode \/ Slow!Begin \/ Slow!FetchErr
           \/ UNCHANGED slowVars
  <2>1. UNCHANGED <<boot, nextId, log, seen, shown, repeated, hidden>>
    BY <1>4 DEF Slow!ToggleSlowlogMode, Slow!Begin, Slow!FetchErr, Slow!serverVars,
       Slow!resultVars, slowVars
  <2> QED
    BY <2>1 DEF SlowInv, Slow!HiddenOnlyByReuse
<1> QED
  BY <1>2, <1>3, <1>4, SlowCommandStep, PollStep, OnePart DEF Slow!Next

(* For any limit, number of entries and restarts, mode "new" shows no entry *)
(* twice, and hides one nobody has seen only under the id of an older one   *)
(* (parse.go:169-187, source.go:286-303).                                   *)
THEOREM NewShowsOnce == Spec => []NewExactlyOnce
<1>1. Init => SlowInv
  BY FS_EmptySet DEF Init, Slow!Init, SlowInv, Slow!Newest, Slow!HiddenOnlyByReuse
<1>2. SlowInv /\ [Next]_vars => SlowInv'
  BY SlowStep
<1>3. SlowInv => NewExactlyOnce
  BY DEF SlowInv, NewExactlyOnce, Slow!NewOnce
<1> QED
  BY <1>1, <1>2, <1>3, PTL DEF Spec

-----------------------------------------------------------------------------
(* The big keys panel.                                                      *)

LEMMA CountsOfKeys == \A T : Big!Cardinality(T) = Cardinality(T)
BY DEF Big!Cardinality, Cardinality

KeyRow == [key : Nat, size : Nat]

Biggers(rows, r) == {s \in rows : Big!Before(s, r)}

(* The order of the rows is a strict linear one.                            *)
LEMMA BeforeIsLinear ==
  ASSUME NEW r \in KeyRow, NEW s \in KeyRow, NEW t \in KeyRow
  PROVE  /\ ~Big!Before(r, r)
         /\ Big!Before(r, s) /\ Big!Before(s, t) => Big!Before(r, t)
         /\ r = s \/ Big!Before(r, s) \/ Big!Before(s, r)
<1>1. r.key \in Nat /\ r.size \in Nat /\ s.key \in Nat /\ s.size \in Nat
      /\ t.key \in Nat /\ t.size \in Nat
  BY DEF KeyRow
<1>2. r.key = s.key /\ r.size = s.size => r = s
  BY DEF KeyRow
<1> QED
  BY <1>1, <1>2 DEF Big!Before

(* The biggest n rows, for each n.                                          *)
LEMMA BiggestRows ==
  ASSUME NEW rows \in SUBSET KeyRow, IsFiniteSet(rows)
  PROVE  \A n \in Nat : n <= Cardinality(rows) =>
            \E top \in SUBSET rows :
                /\ Cardinality(top) = n
                /\ \A s \in top : Biggers(rows, s) \subseteq top
<1> DEFINE Good(n, top) == /\ Cardinality(top) = n
                           /\ \A s \in top : Biggers(rows, s) \subseteq top
           T == {n \in Nat : n <= Cardinality(rows) =>
                    \E top \in SUBSET rows : Good(n, top)}
<1>1. 0 \in T
  <2>1. Good(0, {})
    BY FS_EmptySet
  <2> HIDE DEF Good
  <2> QED
    BY <2>1
<1>2. ASSUME NEW n \in Nat, n \in T PROVE n + 1 \in T
  <2> SUFFICES ASSUME n + 1 <= Cardinality(rows)
               PROVE  \E top \in SUBSET rows : Good(n + 1, top)
    OBVIOUS
  <2>1. Cardinality(rows) \in Nat
    BY FS_CardinalityType
  <2>2. PICK top \in SUBSET rows : Good(n, top)
    <3> HIDE DEF Good
    <3> QED
      BY <1>2, <2>1
  <2>3. rows \ top # {}
    <3>1. rows \ top = {} => top = rows
      OBVIOUS
    <3> QED
      BY <2>1, <2>2, <3>1
  <2>4. ASSUME NEW x \in rows
        PROVE  IsFiniteSet(Biggers(rows, x)) /\ Cardinality(Biggers(rows, x)) \in Nat
    <3>1. Biggers(rows, x) \subseteq rows
      BY DEF Biggers
    <3> QED
      BY <3>1, FS_Subset, FS_CardinalityType
  <2>5. PICK x \in rows \ top : \A y \in rows \ top :
            Cardinality(Biggers(rows, x)) <= Cardinality(Biggers(rows, y))
    <3> DEFINE N == {Cardinality(Biggers(rows, y)) : y \in rows \ top}
    <3>1. N \subseteq Nat /\ N # {}
      BY <2>3, <2>4
    <3>2. PICK m \in N : \A k \in N : m <= k
      <4> HIDE DEF N
      <4> QED
        BY <3>1, LeastNumber
    <3> QED
      BY <3>2
  <2>6. ASSUME NEW t \in Biggers(rows, x), t \notin top PROVE FALSE
    <3>1. t \in rows \ top /\ Big!Before(t, x) /\ t \in KeyRow /\ x \in KeyRow
      BY <2>6 DEF Biggers
    <3>2. Biggers(rows, t) \subseteq Biggers(rows, x)
      BY <3>1, BeforeIsLinear DEF Biggers
    <3>3. t \notin Biggers(rows, t)
      BY <3>1, BeforeIsLinear DEF Biggers
    <3>4. Biggers(rows, t) # Biggers(rows, x)
      BY <2>6, <3>3
    <3>5. Cardinality(Biggers(rows, t)) < Cardinality(Biggers(rows, x))
      BY <2>4, <3>1, <3>2, <3>4, FS_Subset
    <3> QED
      BY <2>4, <2>5, <3>1, <3>5
  <2>7. Good(n + 1, top \cup {x})
    <3>1. Cardinality(top \cup {x}) = n + 1
      <4>1. IsFiniteSet(top)
        BY FS_Subset
      <4> QED
        BY <2>2, <4>1, FS_AddElement
    <3>2. \A s \in top \cup {x} : Biggers(rows, s) \subseteq top \cup {x}
      BY <2>2, <2>6
    <3> QED
      BY <3>1, <3>2
  <2> QED
    BY <2>7
<1> HIDE DEF T
<1>3. Nat \subseteq T
  BY <1>1, <1>2, NumberInduction
<1> QED
  BY <1>3 DEF T

(* A row that is not kept has TopK kept rows before it.                     *)
LEMMA KeptAreTop ==
  ASSUME NEW rows \in SUBSET KeyRow, IsFiniteSet(rows), NEW r \in rows,
         r \notin Big!KeepTop(rows)
  PROVE  Cardinality(Biggers(Big!KeepTop(rows), r)) = TopK
<1>1. TopK \in Nat \ {0}
  BY PanelsAssumption
<1>2. ASSUME NEW x \in rows
      PROVE  /\ IsFiniteSet(Biggers(rows, x)) /\ Cardinality(Biggers(rows, x)) \in Nat
             /\ Cardinality(Biggers(rows, x)) <= Cardinality(rows)
             /\ x \notin Biggers(rows, x) /\ x \in KeyRow
  <2>1. Biggers(rows, x) \subseteq rows
    BY DEF Biggers
  <2>2. x \notin Biggers(rows, x)
    BY BeforeIsLinear DEF Biggers
  <2> QED
    BY <2>1, <2>2, FS_Subset, FS_CardinalityType
<1>3. Big!KeepTop(rows) = {x \in rows : Cardinality(Biggers(rows, x)) < TopK}
  BY CountsOfKeys DEF Big!KeepTop, Biggers
<1>4. Cardinality(Biggers(rows, r)) >= TopK
  BY <1>1, <1>2, <1>3
<1>5. Cardinality(rows) \in Nat
  BY FS_CardinalityType
<1>6. TopK <= Cardinality(rows)
  BY <1>1, <1>2, <1>4, <1>5
<1>7. PICK top \in SUBSET rows : /\ Cardinality(top) = TopK
                                 /\ \A s \in top : Biggers(rows, s) \subseteq top
  BY <1>1, <1>6, BiggestRows
<1>8. IsFiniteSet(top)
  BY FS_Subset
<1>9. ASSUME NEW s \in top PROVE s \in Big!KeepTop(rows)
  <2>1. Biggers(rows, s) \subseteq top /\ Biggers(rows, s) # top
    BY <1>2, <1>7
  <2>2. Cardinality(Biggers(rows, s)) < TopK
    BY <1>1, <1>2, <1>7, <1>8, <2>1, FS_Subset
  <2> QED
    BY <1>3, <2>2
<1>10. ASSUME NEW s \in rows \ top
      PROVE  s \notin Big!KeepTop(rows) /\ top = Biggers(top, s)
  <2>1. ASSUME NEW d \in top PROVE Big!Before(d, s)
    <3>1. ~Big!Before(s, d)
      BY <1>7 DEF Biggers
    <3> QED
      BY <3>1, BeforeIsLinear
  <2>2. top \subseteq Biggers(rows, s) /\ top = Biggers(top, s)
    BY <2>1 DEF Biggers
  <2>3. TopK <= Cardinality(Biggers(rows, s))
    BY <1>2, <1>7, <2>2, FS_Subset
  <2> QED
    BY <1>1, <1>2, <1>3, <2>2, <2>3
<1>11. Big!KeepTop(rows) = top
  BY <1>3, <1>9, <1>10
<1>12. r \in rows \ top
  BY <1>11
<1> QED
  BY <1>7, <1>10, <1>11, <1>12

RowOf(k) == [key |-> k, size |-> size[k]]

(* WholeWalkIsTop.                                                          *)
Whole ==
    bigKeys.sampled > 0 /\ bigKeys.remaining = 0 =>
        \A k \in Keys \ bigKeys.missed :
            \/ size[k] = 0
            \/ \E r \in bigKeys.rows : r.key = k
            \/ Cardinality(Biggers(bigKeys.rows, RowOf(k))) = TopK

(* What a pass has not gone past of the keys up to a page.                  *)
Looked(last, ahead) ==
    \A k \in Keys : size[k] > 0 /\ page[k] <= last =>
        k \in missed \/ k \in ahead \/ RowOf(k) \in candidates

(* The pages up to the cursor are done, but for what is left of the batch;  *)
(* a cursor of 0 is the start before the first SCAN, the end after the last.*)
KeysInv ==
    /\ page \in [Keys -> 1..Batches] /\ size \in [Keys -> 0..MaxSize]
    /\ time \in {"ok", "ctx", "deadline"}
    /\ at \in {"idle", "scan", "batch", "end"}
    /\ cursor \in 0..Batches - 1
    /\ batch \subseteq Keys /\ missed \subseteq Keys
    /\ candidates \subseteq {RowOf(k) : k \in {j \in Keys : size[j] > 0}}
    /\ IsFiniteSet(candidates) /\ Cardinality(candidates) <= SampleMax
    /\ bigKeys.sampled <= SampleMax
    /\ at = "scan" /\ cursor = 0 => candidates = {}
    /\ at = "scan" => Looked(cursor, {})
    /\ at = "batch" => Looked(IF cursor = 0 THEN Batches ELSE cursor, batch)
    /\ at = "end" => cursor = 0 /\ Looked(Batches, {})
    /\ Whole

LEMMA WholeIsTop == Whole => WholeWalkIsTop
BY CountsOfKeys DEF Whole, WholeWalkIsTop, Big!WholeWalkIsTop, Biggers, RowOf

LEMMA KeyNumbers ==
  ASSUME KeysInv
  PROVE  /\ Batches \in Nat \ {0} /\ MaxSize \in Nat /\ SampleMax \in Nat \ {0}
         /\ \A k \in Keys : /\ page[k] \in Nat /\ size[k] \in Nat /\ k \in Nat
                            /\ 1 <= page[k] /\ page[k] <= Batches
                            /\ size[k] <= MaxSize
         /\ cursor \in Nat /\ Cardinality(candidates) \in Nat
         /\ candidates \subseteq KeyRow
<1>1. /\ Batches \in Nat \ {0} /\ MaxSize \in Nat /\ SampleMax \in Nat \ {0}
      /\ Keys \subseteq Nat
  BY PanelsAssumption
<1>2. \A k \in Keys : page[k] \in 1..Batches /\ size[k] \in 0..MaxSize
  BY DEF KeysInv
<1>3. Cardinality(candidates) \in Nat
  BY FS_CardinalityType DEF KeysInv
<1>4. \A k \in Keys : RowOf(k) \in KeyRow
  BY <1>1, <1>2 DEF RowOf, KeyRow
<1>5. candidates \subseteq KeyRow
  BY <1>4 DEF KeysInv
<1> QED
  BY <1>1, <1>2, <1>3, <1>5 DEF KeysInv

LEMMA NextCursor ==
  ASSUME KeysInv
  PROVE  /\ (cursor + 1) % Batches = IF cursor + 1 = Batches THEN 0 ELSE cursor + 1
         /\ (cursor + 1) % Batches \in 0..Batches - 1
<1>1. Batches \in Nat \ {0} /\ cursor \in 0..Batches - 1
  BY KeyNumbers DEF KeysInv
<1>2. CASE cursor + 1 = Batches
  BY <1>1, <1>2
<1>3. CASE cursor + 1 < Batches
  BY <1>1, <1>3
<1> QED
  BY <1>1, <1>2, <1>3

LEMMA KeysInit == Init => KeysInv
<1> SUFFICES ASSUME Init PROVE KeysInv
  OBVIOUS
<1>1. /\ page \in [Keys -> 1..Batches] /\ size \in [Keys -> 0..MaxSize]
      /\ time = "ok" /\ at = "idle" /\ cursor = 0
      /\ batch = {} /\ candidates = {} /\ missed = {}
      /\ bigKeys = [rows |-> {}, sampled |-> 0, remaining |-> 0, missed |-> {}]
  BY DEF Init, Big!Init, Big!NoRows
<1>2. Batches \in Nat \ {0} /\ SampleMax \in Nat \ {0}
  BY PanelsAssumption
<1>3. cursor \in 0..Batches - 1
  BY <1>1, <1>2
<1>4. IsFiniteSet(candidates) /\ Cardinality(candidates) <= SampleMax
  BY <1>1, <1>2, FS_EmptySet
<1>5. Whole /\ bigKeys.sampled <= SampleMax
  BY <1>1, <1>2 DEF Whole
<1> QED
  BY <1>1, <1>3, <1>4, <1>5 DEF KeysInv

(* The steps that change only the pass.                                     *)
LEMMA SnapshotStays ==
  ASSUME Whole, UNCHANGED <<size, bigKeys>>
  PROVE  Whole'
BY DEF Whole, RowOf

LEMMA EstimateStep ==
  ASSUME KeysInv, NEW k \in Keys, Big!Estimate(k)
  PROVE  KeysInv'
<1>1. /\ at = "batch" /\ Big!Goes /\ k \in batch /\ size[k] > 0
      /\ candidates' = candidates \cup {RowOf(k)} /\ batch' = batch \ {k}
      /\ UNCHANGED <<page, size, time, at, cursor, missed, bigKeys>>
  BY DEF Big!Estimate, Big!serverVars, RowOf
<1>2. Cardinality(candidates) < SampleMax
  BY <1>1, CountsOfKeys DEF Big!Goes, Big!Sampled
<1>3. IsFiniteSet(candidates') /\ Cardinality(candidates') <= SampleMax
  <2>1. IsFiniteSet(candidates)
    BY DEF KeysInv
  <2>2. /\ IsFiniteSet(candidates')
        /\ Cardinality(candidates') \in {Cardinality(candidates),
                                         Cardinality(candidates) + 1}
    <3> HIDE DEF RowOf
    <3> QED
      BY <1>1, <2>1, FS_AddElement
  <2> QED
    BY <1>2, <2>2, KeyNumbers
<1>4. candidates' \subseteq {RowOf(j) : j \in {j \in Keys : size[j] > 0}}'
  BY <1>1 DEF KeysInv, RowOf
<1>5. Looked(IF cursor = 0 THEN Batches ELSE cursor, batch)'
  BY <1>1 DEF KeysInv, Looked, RowOf
<1>6. Whole'
  BY <1>1, SnapshotStays DEF KeysInv
<1> QED
  BY <1>1, <1>3, <1>4, <1>5, <1>6 DEF KeysInv

(* A batch that is given up leaves what is left of it to the keys missed.   *)
LEMMA EndBatchStep == ASSUME KeysInv, Big!EndBatch PROVE KeysInv'
<1>1. /\ at = "batch" /\ at' = IF cursor = 0 THEN "end" ELSE "scan"
      /\ missed' = missed \cup {k \in batch : size[k] > 0} /\ batch' = {}
      /\ UNCHANGED <<page, size, time, cursor, candidates, bigKeys>>
  BY DEF Big!EndBatch, Big!serverVars
<1>2. Looked(IF cursor = 0 THEN Batches ELSE cursor, {})'
  BY <1>1 DEF KeysInv, Looked, RowOf
<1>3. Whole'
  BY <1>1, SnapshotStays DEF KeysInv
<1>4. candidates' \subseteq {RowOf(j) : j \in {j \in Keys : size[j] > 0}}'
  BY <1>1 DEF KeysInv, RowOf
<1>5. CASE cursor = 0
  BY <1>1, <1>2, <1>3, <1>4, <1>5 DEF KeysInv
<1>6. CASE cursor # 0
  BY <1>1, <1>2, <1>3, <1>4, <1>6 DEF KeysInv
<1> QED
  BY <1>5, <1>6

LEMMA FinishStep == ASSUME KeysInv, Big!Finish PROVE KeysInv'
<1>1. /\ at = "end" \/ (at = "scan" /\ ~Big!Goes)
      /\ bigKeys' = [rows |-> Big!KeepTop(candidates), sampled |-> Big!Sampled,
                     remaining |-> cursor, missed |-> missed]
      /\ at' = "idle"
      /\ UNCHANGED <<page, size, time, cursor, batch, candidates, missed>>
  BY DEF Big!Finish, Big!serverVars
<1>2. Big!Sampled = Cardinality(candidates)
  BY CountsOfKeys DEF Big!Sampled
<1>3. Whole'
  <2> SUFFICES ASSUME Cardinality(candidates) > 0, cursor = 0,
                      NEW k \in Keys, k \notin missed, size[k] # 0,
                      ~\E r \in Big!KeepTop(candidates) : r.key = k
               PROVE  Cardinality(Biggers(Big!KeepTop(candidates), RowOf(k))) = TopK
    BY <1>1, <1>2 DEF Whole, RowOf
  <2>1. at = "end"
    <3>1. at = "scan" => Cardinality(candidates) = 0
      BY FS_EmptySet DEF KeysInv
    <3> QED
      BY <1>1, <3>1
  <2>2. RowOf(k) \in candidates
    BY <2>1, KeyNumbers DEF KeysInv, Looked
  <2>3. RowOf(k) \notin Big!KeepTop(candidates)
    BY DEF RowOf
  <2> QED
    BY <2>2, <2>3, KeptAreTop, KeyNumbers DEF KeysInv
<1>4. candidates' \subseteq {RowOf(j) : j \in {j \in Keys : size[j] > 0}}'
  BY <1>1 DEF KeysInv, RowOf
<1>5. bigKeys'.sampled <= SampleMax
  BY <1>1, <1>2 DEF KeysInv
<1> QED
  BY <1>1, <1>3, <1>4, <1>5 DEF KeysInv

LEMMA KeysStep == ASSUME KeysInv, [Next]_vars PROVE KeysInv'
<1>1. CASE UNCHANGED bigVars
  <2>1. UNCHANGED <<page, size, time, at, cursor, batch, candidates, missed, bigKeys>>
    BY <1>1 DEF bigVars
  <2> QED
    BY <2>1, SnapshotStays DEF KeysInv, Looked, RowOf
<1>2. CASE Big!Begin
  <2>1. /\ at' = "scan" /\ time' = "ok" /\ cursor' = 0
        /\ batch' = {} /\ candidates' = {} /\ missed' = {}
        /\ UNCHANGED <<page, size, bigKeys>>
    BY <1>2 DEF Big!Begin, Big!serverVars
  <2>2. cursor' \in 0..Batches - 1 /\ Looked(cursor, {})'
    BY <2>1, KeyNumbers DEF Looked
  <2>3. IsFiniteSet(candidates') /\ Cardinality(candidates') <= SampleMax
    BY <2>1, FS_EmptySet, KeyNumbers
  <2> QED
    BY <2>1, <2>2, <2>3, SnapshotStays DEF KeysInv
<1>3. CASE Big!Expire
  <2>1. /\ time' \in {"ok", "ctx", "deadline"}
        /\ UNCHANGED <<page, size, at, cursor, batch, candidates, missed, bigKeys>>
    BY <1>3 DEF Big!Expire, Big!serverVars
  <2> QED
    BY <2>1, SnapshotStays DEF KeysInv, Looked, RowOf
<1>4. CASE Big!Scan
  <2>1. /\ at = "scan" /\ at' = "batch" /\ batch' = {k \in Keys : page[k] = cursor + 1}
        /\ cursor' = (cursor + 1) % Batches
        /\ UNCHANGED <<page, size, time, candidates, missed, bigKeys>>
    BY <1>4 DEF Big!Scan, Big!serverVars
  <2>2. /\ cursor' \in 0..Batches - 1
        /\ cursor + 1 = IF cursor' = 0 THEN Batches ELSE cursor'
    BY <2>1, NextCursor, KeyNumbers
  <2>3. \A k \in Keys : page[k] <= cursor + 1 => page[k] <= cursor \/ k \in batch'
    BY <2>1, KeyNumbers
  <2>4. Looked(cursor, {})
    BY <2>1 DEF KeysInv
  <2>5. Looked(IF cursor = 0 THEN Batches ELSE cursor, batch)'
    BY <2>1, <2>2, <2>3, <2>4 DEF Looked, RowOf
  <2> QED
    BY <2>1, <2>2, <2>5, SnapshotStays DEF KeysInv, RowOf
<1>5. CASE Big!ScanErr
  <2>1. /\ at' = "idle"
        /\ UNCHANGED <<page, size, time, cursor, batch, candidates, missed, bigKeys>>
    BY <1>5 DEF Big!ScanErr, Big!serverVars
  <2> QED
    BY <2>1, SnapshotStays DEF KeysInv, RowOf
<1>6. ASSUME NEW k \in Keys, Big!EstimateErr(k) PROVE KeysInv'
  <2>1. /\ at = "batch" /\ k \in batch /\ batch' = batch \ {k}
        /\ missed' = IF size[k] > 0 THEN missed \cup {k} ELSE missed
        /\ UNCHANGED <<page, size, time, at, cursor, candidates, bigKeys>>
    BY <1>6 DEF Big!EstimateErr, Big!serverVars
  <2>2. Looked(IF cursor = 0 THEN Batches ELSE cursor, batch)'
    BY <2>1 DEF KeysInv, Looked, RowOf
  <2> QED
    BY <2>1, <2>2, SnapshotStays DEF KeysInv, RowOf
<1> QED
  BY <1>1, <1>2, <1>3, <1>4, <1>5, <1>6, EstimateStep, EndBatchStep, FinishStep,
     OnePart DEF Big!Next

(* A walk to the end shows the TopK biggest of all the keys it did not go   *)
(* past, for any keys and sizes, however they lie in the replies to SCAN,   *)
(* whatever the limits, and wherever time runs out (source.go:379-415,      *)
(* parse.go:241-252).                                                       *)
THEOREM WalkShowsTop == Spec => []WholeWalkIsTop
<1>1. KeysInv /\ [Next]_vars => KeysInv'
  BY KeysStep
<1>2. KeysInv => WholeWalkIsTop
  BY WholeIsTop DEF KeysInv
<1> QED
  BY <1>1, <1>2, KeysInit, PTL DEF Spec

LEMMA KeysTyped == KeysInv => Big!TypeOK
<1> SUFFICES ASSUME KeysInv PROVE Big!TypeOK
  OBVIOUS
<1>1. \A k \in Keys : size[k] > 0 => RowOf(k) \in [key : Keys, size : 1..MaxSize]
  BY KeyNumbers DEF RowOf
<1>2. candidates \subseteq [key : Keys, size : 1..MaxSize]
  BY <1>1 DEF KeysInv
<1> QED
  BY <1>2, CountsOfKeys DEF KeysInv, Big!TypeOK, Big!Sampled

-----------------------------------------------------------------------------
(* The commands panel, by an argument about pairs of answers: of two, the   *)
(* later one is ahead by the calls made between them, or, when the counters *)
(* were reset in between, holds no more than those.                         *)

AnswerType ==
    [calls : [Cmds -> Nat], listed : SUBSET Cmds, made : [Cmds -> Nat],
     resets : Nat, age : Int]

(* What the server would answer.                                            *)
Stats == [calls |-> calls, listed |-> {c \in Cmds : calls[c] > 0},
          made |-> made, resets |-> resets, age |-> 0]

Lists(a) == \A c \in Cmds : c \in a.listed <=> a.calls[c] > 0

(* Answer b was not given before answer a.                                  *)
Later(a, b) ==
    /\ a.resets <= b.resets
    /\ \A c \in Cmds :
        /\ a.made[c] <= b.made[c]
        /\ a.resets = b.resets => b.calls[c] - a.calls[c] = b.made[c] - a.made[c]
        /\ a.resets < b.resets => b.calls[c] <= b.made[c] - a.made[c]

AnswerTypes ==
    /\ calls \in [Cmds -> Nat] /\ made \in [Cmds -> Nat] /\ resets \in Nat
    /\ reply \in AnswerType /\ baseline \in AnswerType
    /\ sampled \in Nat

(* The order in which baseline, answer and counters came to be.             *)
AnswerOrder ==
    /\ Lists(baseline) /\ Lists(reply)
    /\ Later(baseline, Stats) /\ Later(reply, Stats) /\ Later(Com!NoAnswer, Stats)
    /\ reply # Com!NoAnswer => Later(baseline, reply)

(* The baseline is older than its sample time by the age its answer had.    *)
AnswerAges ==
    /\ reply = Com!NoAnswer \/ reply.age \in 0..Timeout
    /\ IF baseline = Com!NoAnswer THEN sampled = 0
                                  ELSE baseline.age - sampled \in 0..Timeout

RatesInv ==
    /\ AnswerTypes /\ AnswerOrder /\ AnswerAges
    /\ Com!NothingInvented /\ Com!FewerOnlyIfNewOrReset /\ Com!ElapsedWithinTimeout

LEMMA StatsType == ASSUME AnswerTypes PROVE Stats \in AnswerType /\ Lists(Stats)
BY DEF AnswerTypes, Stats, AnswerType, Lists

LEMMA NoAnswerType == Com!NoAnswer \in AnswerType /\ Lists(Com!NoAnswer)
BY DEF Com!NoAnswer, Com!Zero, AnswerType, Lists

LEMMA LaterSelf == ASSUME NEW a \in AnswerType PROVE Later(a, a)
BY DEF Later, AnswerType

(* What holds of the counters at an answer holds of them later on.          *)
LEMMA LaterGoesOn ==
  ASSUME NEW a \in AnswerType, NEW b \in AnswerType, NEW d \in AnswerType,
         Later(a, b), Later(b, d)
  PROVE  Later(a, d)
<1>1. a.resets <= d.resets
  BY DEF Later, AnswerType
<1>2. ASSUME NEW c \in Cmds
      PROVE  /\ a.made[c] <= d.made[c]
             /\ a.resets = d.resets => d.calls[c] - a.calls[c] = d.made[c] - a.made[c]
             /\ a.resets < d.resets => d.calls[c] <= d.made[c] - a.made[c]
  <2>1. /\ {a.resets, b.resets, d.resets} \subseteq Nat
        /\ {a.made[c], b.made[c], d.made[c]} \subseteq Nat
        /\ {a.calls[c], b.calls[c], d.calls[c]} \subseteq Nat
    BY DEF AnswerType
  <2>2. /\ a.resets <= b.resets /\ a.made[c] <= b.made[c]
        /\ a.resets = b.resets => b.calls[c] - a.calls[c] = b.made[c] - a.made[c]
        /\ a.resets < b.resets => b.calls[c] <= b.made[c] - a.made[c]
    BY DEF Later
  <2>3. /\ b.resets <= d.resets /\ b.made[c] <= d.made[c]
        /\ b.resets = d.resets => d.calls[c] - b.calls[c] = d.made[c] - b.made[c]
        /\ b.resets < d.resets => d.calls[c] <= d.made[c] - b.made[c]
    BY DEF Later
  <2> QED
    BY <2>1, <2>2, <2>3
<1> QED
  BY <1>1, <1>2 DEF Later

(* An answer that grows older says the same.                                *)
LEMMA OlderSame ==
  ASSUME NEW a \in AnswerType
  PROVE  /\ Com!Older(a) \in AnswerType
         /\ Com!Older(a).calls = a.calls /\ Com!Older(a).made = a.made
         /\ Com!Older(a).resets = a.resets /\ Com!Older(a).listed = a.listed
         /\ a # Com!NoAnswer => Com!Older(a).age = a.age + 1
BY DEF Com!Older, AnswerType

LEMMA RatesInit == ASSUME Com!Init PROVE RatesInv
<1>1. AnswerTypes
  BY NoAnswerType DEF Com!Init, AnswerTypes, Com!Zero
<1>2. AnswerOrder
  BY NoAnswerType DEF Com!Init, AnswerOrder, Later, Stats, Com!NoAnswer, Com!Zero
<1>3. Com!NothingInvented /\ Com!FewerOnlyIfNewOrReset
  <2>1. commands = [delta |-> Com!Zero, elapsed |-> 0, old |-> Com!NoAnswer,
                    new |-> Com!NoAnswer]
    BY DEF Com!Init
  <2>2. /\ commands.delta = Com!Zero
        /\ commands.new.made = Com!Zero /\ commands.old.made = Com!Zero
    BY <2>1 DEF Com!NoAnswer
  <2>3. \A c \in Cmds : Com!Zero[c] = 0
    BY DEF Com!Zero
  <2>4. ASSUME NEW c \in Cmds PROVE commands.delta[c] = 0 /\ Com!Real(c) = 0
    <3>1. commands.delta[c] = 0 /\ commands.new.made[c] = 0 /\ commands.old.made[c] = 0
      BY <2>2, <2>3, Zenon
    <3> QED
      BY <3>1 DEF Com!Real
  <2> QED
    BY <2>1, <2>4 DEF Com!NothingInvented, Com!FewerOnlyIfNewOrReset
<1>4. AnswerAges /\ Com!ElapsedWithinTimeout
  BY DEF Com!Init, AnswerAges, Com!ElapsedWithinTimeout
<1> QED
  BY <1>1, <1>2, <1>3, <1>4 DEF RatesInv

(* The server: its counters after a call or a reset come later.             *)
LEMMA StatsStep ==
  ASSUME AnswerTypes, (\E c \in Cmds : Com!Call(c)) \/ Com!ResetStat
  PROVE  Stats' \in AnswerType /\ Later(Stats, Stats')
<1>1. ASSUME NEW c \in Cmds, Com!Call(c)
      PROVE  Stats' \in AnswerType /\ Later(Stats, Stats')
  <2>1. /\ calls' = [calls EXCEPT ![c] = @ + 1] /\ made' = [made EXCEPT ![c] = @ + 1]
        /\ resets' = resets
    BY <1>1 DEF Com!Call
  <2>2. calls' \in [Cmds -> Nat] /\ made' \in [Cmds -> Nat] /\ resets' \in Nat
    BY <2>1 DEF AnswerTypes
  <2>3. Stats' \in AnswerType
    BY <2>2 DEF Stats, AnswerType
  <2> QED
    BY <2>1, <2>3 DEF AnswerTypes, Stats, Later
<1>2. ASSUME Com!ResetStat PROVE Stats' \in AnswerType /\ Later(Stats, Stats')
  <2>1. calls' = Com!Zero /\ made' = made /\ resets' = resets + 1
    BY <1>2 DEF Com!ResetStat
  <2>2. Stats' \in AnswerType
    BY <2>1 DEF AnswerTypes, Stats, AnswerType, Com!Zero
  <2> QED
    BY <2>1, <2>2 DEF AnswerTypes, Stats, Later, Com!Zero
<1> QED
  BY <1>1, <1>2

LEMMA AnswerTypesStep == ASSUME AnswerTypes, [Next]_vars PROVE AnswerTypes'
<1> USE DEF Com!serverVars
<1>1. CASE (\E c \in Cmds : Com!Call(c)) \/ Com!ResetStat
  <2>1. Stats' \in AnswerType
    BY <1>1, StatsStep
  <2>2. calls' \in [Cmds -> Nat] /\ made' \in [Cmds -> Nat] /\ resets' \in Nat
    BY <2>1 DEF Stats, AnswerType
  <2> QED
    BY <1>1, <2>2 DEF AnswerTypes, Com!Call, Com!ResetStat
<1>2. CASE Com!Tick
  BY <1>2, OlderSame DEF Com!Tick, AnswerTypes
<1>3. CASE Com!Answer
  BY <1>3, StatsType DEF Com!Answer, AnswerTypes, Stats
<1>4. CASE Com!FetchErr
  BY <1>4, NoAnswerType DEF Com!FetchErr, AnswerTypes
<1>5. CASE Com!Fold
  BY <1>5, NoAnswerType DEF Com!Fold, AnswerTypes, Com!NextBaseline, Com!SampleNow
<1>6. CASE UNCHANGED comVars
  BY <1>6 DEF comVars, AnswerTypes
<1> QED
  BY <1>1, <1>2, <1>3, <1>4, <1>5, <1>6, OnePart DEF Com!Next

LEMMA AnswerOrderStep == ASSUME AnswerTypes, AnswerOrder, [Next]_vars PROVE AnswerOrder'
<1> USE DEF Com!serverVars
<1>1. CASE (\E c \in Cmds : Com!Call(c)) \/ Com!ResetStat
  <2>1. Stats' \in AnswerType /\ Later(Stats, Stats') /\ Stats \in AnswerType
    BY <1>1, StatsStep, StatsType
  <2>2. UNCHANGED <<reply, baseline>>
    BY <1>1 DEF Com!Call, Com!ResetStat
  <2>3. Later(baseline, Stats') /\ Later(reply, Stats') /\ Later(Com!NoAnswer, Stats')
    BY <2>1, NoAnswerType, LaterGoesOn DEF AnswerOrder, AnswerTypes
  <2> QED
    BY <2>2, <2>3 DEF AnswerOrder
<1>2. CASE Com!Tick
  <2>1. /\ reply' = Com!Older(reply) /\ baseline' = Com!Older(baseline)
        /\ Stats' = Stats
    BY <1>2 DEF Com!Tick, Stats
  <2>2. /\ reply'.calls = reply.calls /\ reply'.made = reply.made
        /\ reply'.resets = reply.resets /\ reply'.listed = reply.listed
        /\ baseline'.calls = baseline.calls /\ baseline'.made = baseline.made
        /\ baseline'.resets = baseline.resets /\ baseline'.listed = baseline.listed
    BY <2>1, OlderSame DEF AnswerTypes
  <2>3. reply = Com!NoAnswer => reply' = Com!NoAnswer
    BY <2>1 DEF Com!Older
  <2>4. Lists(baseline') /\ Lists(reply')
    BY <2>2 DEF AnswerOrder, Lists
  <2>5. Later(baseline', Stats') /\ Later(reply', Stats')
    BY <2>1, <2>2 DEF AnswerOrder, Later
  <2>6. reply' # Com!NoAnswer => Later(baseline', reply')
    BY <2>2, <2>3 DEF AnswerOrder, Later
  <2> QED
    BY <2>1, <2>4, <2>5, <2>6 DEF AnswerOrder
<1>3. CASE Com!Answer
  <2>1. reply' = Stats /\ baseline' = baseline /\ Stats' = Stats
    BY <1>3 DEF Com!Answer, Stats
  <2> QED
    BY <2>1, StatsType, LaterSelf DEF AnswerOrder
<1>4. CASE Com!FetchErr
  <2>1. reply' = Com!NoAnswer /\ baseline' = baseline /\ Stats' = Stats
    BY <1>4 DEF Com!FetchErr, Stats
  <2> QED
    BY <2>1, NoAnswerType DEF AnswerOrder
<1>5. CASE Com!Fold
  <2>1. reply' = Com!NoAnswer /\ baseline' = reply /\ Stats' = Stats
    BY <1>5 DEF Com!Fold, Com!NextBaseline, Stats
  <2> QED
    BY <2>1, NoAnswerType DEF AnswerOrder
<1>6. CASE UNCHANGED comVars
  <2>1. UNCHANGED <<reply, baseline, Stats>>
    BY <1>6 DEF comVars, Stats
  <2> QED
    BY <2>1 DEF AnswerOrder
<1> QED
  BY <1>1, <1>2, <1>3, <1>4, <1>5, <1>6, OnePart DEF Com!Next

LEMMA DeltaBounded ==
  ASSUME AnswerTypes, AnswerOrder, reply # Com!NoAnswer, NEW c \in Cmds
  PROVE  /\ Com!Delta(c) \in 0..(reply.made[c] - baseline.made[c])
         /\ \/ sampled = 0
            \/ Com!Delta(c) = reply.made[c] - baseline.made[c]
            \/ reply.resets > baseline.resets
            \/ c \notin baseline.listed
<1>1. /\ {reply.calls[c], baseline.calls[c]} \subseteq Nat
      /\ {reply.made[c], baseline.made[c]} \subseteq Nat
      /\ {reply.resets, baseline.resets, sampled} \subseteq Nat
  BY DEF AnswerTypes, AnswerType
<1>2. /\ baseline.resets <= reply.resets /\ baseline.made[c] <= reply.made[c]
      /\ baseline.resets = reply.resets =>
            reply.calls[c] - baseline.calls[c] = reply.made[c] - baseline.made[c]
      /\ baseline.resets < reply.resets =>
            reply.calls[c] <= reply.made[c] - baseline.made[c]
  BY DEF AnswerOrder, Later
<1>3. c \in baseline.listed <=> baseline.calls[c] > 0
  BY DEF AnswerOrder, Lists
<1> QED
  BY <1>1, <1>2, <1>3 DEF Com!Delta

LEMMA ShownRates ==
  ASSUME RatesInv, [Next]_vars
  PROVE  Com!NothingInvented' /\ Com!FewerOnlyIfNewOrReset'
<1> USE DEF Com!serverVars
<1>1. CASE Com!Fold
  <2>1. /\ reply # Com!NoAnswer
        /\ commands' = [delta |-> [c \in Cmds |-> Com!Delta(c)], elapsed |-> sampled,
                        old |-> baseline, new |-> reply]
    BY <1>1 DEF Com!Fold
  <2>2. /\ commands'.delta = [c \in Cmds |-> Com!Delta(c)]
        /\ commands'.elapsed = sampled
        /\ commands'.old = baseline /\ commands'.new = reply
    BY <2>1
  <2>3. sampled \in Nat
    BY DEF RatesInv, AnswerTypes
  <2>4. ASSUME NEW c \in Cmds
        PROVE  /\ commands'.delta[c] \in 0..Com!Real(c)'
               /\ \/ sampled = 0
                  \/ commands'.delta[c] = Com!Real(c)'
                  \/ commands'.new.resets > commands'.old.resets
                  \/ c \notin commands'.old.listed
    <3>1. /\ Com!Real(c)' = reply.made[c] - baseline.made[c]
          /\ commands'.delta[c] = Com!Delta(c)
      BY <2>2 DEF Com!Real
    <3> QED
      BY <2>1, <2>2, <3>1, DeltaBounded DEF RatesInv
  <2> QED
    BY <2>2, <2>3, <2>4 DEF Com!NothingInvented, Com!FewerOnlyIfNewOrReset
<1>2. CASE UNCHANGED commands
  BY <1>2 DEF RatesInv, Com!NothingInvented, Com!FewerOnlyIfNewOrReset, Com!Real
<1>3. CASE \/ (\E c \in Cmds : Com!Call(c)) \/ Com!ResetStat
           \/ Com!Tick \/ Com!Answer \/ Com!FetchErr
  BY <1>2, <1>3 DEF Com!Call, Com!ResetStat, Com!Tick, Com!Answer, Com!FetchErr
<1>4. CASE UNCHANGED comVars
  BY <1>2, <1>4 DEF comVars
<1> QED
  BY <1>1, <1>3, <1>4, OnePart DEF Com!Next

LEMMA AnswerAgesStep ==
  ASSUME AnswerTypes, AnswerAges, [Next]_vars
  PROVE  AnswerAges'
<1>0. Timeout \in Nat
  BY PanelsAssumption
<1> USE DEF Com!serverVars
<1>1. CASE UNCHANGED <<reply, baseline, sampled>>
  BY <1>1 DEF AnswerAges
<1>2. CASE (\E c \in Cmds : Com!Call(c)) \/ Com!ResetStat \/ UNCHANGED comVars
  BY <1>1, <1>2 DEF Com!Call, Com!ResetStat, comVars
<1>3. CASE Com!Tick
  <2>1. /\ reply' = Com!Older(reply) /\ baseline' = Com!Older(baseline)
        /\ reply.age < Timeout
        /\ sampled' = IF baseline = Com!NoAnswer THEN 0 ELSE sampled + 1
    BY <1>3 DEF Com!Tick
  <2>2. reply # Com!NoAnswer => reply'.age = reply.age + 1
    BY <2>1, OlderSame DEF AnswerTypes
  <2>3. reply = Com!NoAnswer => reply' = Com!NoAnswer
    BY <2>1 DEF Com!Older
  <2>4. baseline # Com!NoAnswer =>
            baseline'.age = baseline.age + 1 /\ sampled' = sampled + 1
    BY <2>1, OlderSame DEF AnswerTypes
  <2>5. baseline = Com!NoAnswer => baseline' = Com!NoAnswer /\ sampled' = 0
    BY <2>1 DEF Com!Older
  <2>6. reply' = Com!NoAnswer \/ reply'.age \in 0..Timeout
    BY <1>0, <2>1, <2>2, <2>3 DEF AnswerAges
  <2>7. baseline # Com!NoAnswer =>
            baseline' # Com!NoAnswer /\ baseline'.age - sampled' \in 0..Timeout
    <3>1. Com!NoAnswer.age = -1
      BY DEF Com!NoAnswer
    <3>2. sampled \in Nat /\ baseline.age \in Int
      BY DEF AnswerTypes, AnswerType
    <3> QED
      BY <1>0, <2>4, <3>1, <3>2 DEF AnswerAges
  <2> QED
    BY <2>5, <2>6, <2>7, Zenon DEF AnswerAges
<1>4. CASE Com!Answer
  BY <1>0, <1>4 DEF Com!Answer, AnswerAges
<1>5. CASE Com!FetchErr
  BY <1>5 DEF Com!FetchErr, AnswerAges
<1>6. CASE Com!Fold
  BY <1>0, <1>6
     DEF Com!Fold, Com!NextBaseline, Com!SampleNow, AnswerAges, AnswerTypes, AnswerType
<1> QED
  BY <1>2, <1>3, <1>4, <1>5, <1>6, OnePart DEF Com!Next

LEMMA ElapsedStep ==
  ASSUME AnswerTypes, AnswerAges, Com!ElapsedWithinTimeout, [Next]_vars
  PROVE  Com!ElapsedWithinTimeout'
<1>0. Timeout \in Nat
  BY PanelsAssumption
<1> USE DEF Com!serverVars
<1>1. CASE Com!Fold
  <2>1. /\ reply # Com!NoAnswer
        /\ commands'.elapsed = sampled
        /\ commands'.old = baseline /\ commands'.new = reply
    BY <1>1 DEF Com!Fold
  <2>2. sampled \in Nat /\ reply.age \in 0..Timeout /\ baseline.age \in Int
    BY <2>1 DEF AnswerTypes, AnswerAges, AnswerType
  <2>3. sampled > 0 => baseline.age - sampled \in 0..Timeout
    BY <1>0, <2>2 DEF AnswerAges
  <2> QED
    BY <1>0, <2>1, <2>2, <2>3 DEF Com!ElapsedWithinTimeout
<1>2. CASE UNCHANGED commands
  BY <1>2 DEF Com!ElapsedWithinTimeout
<1>3. CASE \/ (\E c \in Cmds : Com!Call(c)) \/ Com!ResetStat
           \/ Com!Tick \/ Com!Answer \/ Com!FetchErr
  BY <1>2, <1>3 DEF Com!Call, Com!ResetStat, Com!Tick, Com!Answer, Com!FetchErr
<1>4. CASE UNCHANGED comVars
  BY <1>2, <1>4 DEF comVars
<1> QED
  BY <1>1, <1>3, <1>4, OnePart DEF Com!Next

(* The rates are of calls that were made, between the two answers and over  *)
(* the time between them, give or take one timeout, whatever the commands,  *)
(* calls, resets, failed polls and timeout (parse.go:54-58,                 *)
(* source.go:444-464).                                                      *)
THEOREM RatesHold == Spec => []RatesAreCalls
<1>1. Init => RatesInv
  BY RatesInit DEF Init
<1>2. RatesInv /\ [Next]_vars => RatesInv'
  BY AnswerTypesStep, AnswerOrderStep, AnswerAgesStep, ShownRates, ElapsedStep
     DEF RatesInv
<1>3. RatesInv => RatesAreCalls
  BY DEF RatesInv, RatesAreCalls
<1> QED
  BY <1>1, <1>2, <1>3, PTL DEF Spec

-----------------------------------------------------------------------------
(* The client list.                                                         *)

(* Where a command comes in the order by command: the empty one last.       *)
Place(cmd) == IF cmd = "" THEN 3 ELSE List!Rank(cmd)

(* Told of any three commands first: the provers do not compare strings and *)
(* numbers at once.                                                         *)
LEMMA ThreePlaces ==
  \A e, g, s :
    (/\ e # g /\ e # s
     /\ Place(e) = 3 /\ Place(g) = 1 /\ Place(s) = 2
     /\ List!Rank(g) = 1 /\ List!Rank(s) = 2)
    => \A x, y :
        (/\ x = e \/ x = g \/ x = s
         /\ y = e \/ y = g \/ y = s)
        => /\ Place(x) \in Nat
           /\ Place(x) = Place(y) => x = y
           /\ x # y =>
                (Place(x) < Place(y) <=>
                    x # e /\ (y = e \/ List!Rank(x) < List!Rank(y)))
OBVIOUS

LEMMA PlacesDiffer ==
  \A x, y \in {"", "get", "set"} :
     /\ Place(x) \in Nat
     /\ Place(x) = Place(y) => x = y
     /\ x # y =>
            (Place(x) < Place(y) <=>
                x # "" /\ (y = "" \/ List!Rank(x) < List!Rank(y)))
<1>1. Place("") = 3 /\ Place("get") = 1 /\ Place("set") = 2
  BY DEF Place, List!Rank
<1>2. List!Rank("get") = 1 /\ List!Rank("set") = 2
  BY DEF List!Rank
<1>3. "" # "get" /\ "" # "set"
  OBVIOUS
<1>4. \A x, y :
        (/\ x = "" \/ x = "get" \/ x = "set"
         /\ y = "" \/ y = "get" \/ y = "set")
        => /\ Place(x) \in Nat
           /\ Place(x) = Place(y) => x = y
           /\ x # y =>
                (Place(x) < Place(y) <=>
                    x # "" /\ (y = "" \/ List!Rank(x) < List!Rank(y)))
  BY <1>1, <1>2, <1>3, ThreePlaces, Zenon
<1> QED
  BY <1>4, Zenon

LEMMA ClientFields ==
  ASSUME NEW c \in List!Client
  PROVE  c.cmd \in {"", "get", "set"} /\ c.number \in Nat /\ c.v6 \in BOOLEAN
<1>1. c.cmd \in {"", "get", "set"}
  BY DEF List!Client
<1>2. c.number \in 0..MaxNumber /\ MaxNumber \in Nat
  BY PanelsAssumption DEF List!Client
<1>3. c.number \in Nat
  BY <1>2
<1>4. c.v6 \in BOOLEAN
  BY DEF List!Client
<1> QED
  BY <1>1, <1>3, <1>4

(* The three orders.                                                        *)
LEMMA LessIs ==
  ASSUME NEW c \in List!Client, NEW d \in List!Client
  PROVE  /\ List!Less("age", c, d) <=> c.number > d.number
         /\ List!Less("omem", c, d) <=> c.number > d.number
         /\ List!Less("idle", c, d) <=> c.number < d.number
         /\ List!Less("cmd", c, d) <=>
                \/ Place(c.cmd) < Place(d.cmd)
                \/ Place(c.cmd) = Place(d.cmd) /\ c.number < d.number
<1>1. List!Less("age", c, d) <=> c.number > d.number
  BY DEF List!Less
<1>2. List!Less("omem", c, d) <=> c.number > d.number
  BY DEF List!Less
<1>3. List!Less("idle", c, d) <=> c.number < d.number
  BY DEF List!Less
<1>4. CASE c.cmd = d.cmd
  <2>1. List!Less("cmd", c, d) <=> c.number < d.number
    BY <1>4 DEF List!Less
  <2>2. Place(c.cmd) \in Nat /\ Place(c.cmd) = Place(d.cmd)
    BY <1>4, ClientFields, PlacesDiffer
  <2> QED
    BY <1>1, <1>2, <1>3, <2>1, <2>2
<1>5. CASE c.cmd # d.cmd
  <2>1. List!Less("cmd", c, d) <=>
            c.cmd # "" /\ (d.cmd = "" \/ List!Rank(c.cmd) < List!Rank(d.cmd))
    BY <1>5 DEF List!Less
  <2>2. /\ Place(c.cmd) # Place(d.cmd)
        /\ List!Less("cmd", c, d) <=> Place(c.cmd) < Place(d.cmd)
    BY <1>5, <2>1, ClientFields, PlacesDiffer
  <2> QED
    BY <1>1, <1>2, <1>3, <2>2
<1> QED
  BY <1>4, <1>5

LEMMA EveryOrderIsWeak ==
  ASSUME NEW s \in List!Orders,
         NEW c \in List!Client, NEW d \in List!Client, NEW e \in List!Client
  PROVE  /\ ~(List!Less(s, c, d) /\ List!Less(s, d, c))
         /\ List!Less(s, c, d) => List!Less(s, c, e) \/ List!Less(s, e, d)
<1>1. /\ Place(c.cmd) \in Nat /\ Place(d.cmd) \in Nat /\ Place(e.cmd) \in Nat
      /\ c.number \in Nat /\ d.number \in Nat /\ e.number \in Nat
  BY ClientFields, PlacesDiffer
<1>2. CASE s \in {"age", "omem", "idle"}
  BY <1>1, <1>2, LessIs
<1>3. CASE s = "cmd"
  <2> DEFINE pc == Place(c.cmd)
             pd == Place(d.cmd)
             pe == Place(e.cmd)
             before(p, m, q, n) == p < q \/ (p = q /\ m < n)
  <2>1. /\ List!Less(s, c, d) <=> before(pc, c.number, pd, d.number)
        /\ List!Less(s, d, c) <=> before(pd, d.number, pc, c.number)
        /\ List!Less(s, c, e) <=> before(pc, c.number, pe, e.number)
        /\ List!Less(s, e, d) <=> before(pe, e.number, pd, d.number)
    BY <1>3, LessIs
  <2>2. pc \in Nat /\ pd \in Nat /\ pe \in Nat
    BY <1>1
  <2> HIDE DEF pc, pd, pe
  <2> QED
    BY <1>1, <2>1, <2>2
<1> QED
  BY <1>2, <1>3 DEF List!Orders

LEMMA CountsOfList == \A T : List!Cardinality(T) = Cardinality(T)
BY DEF List!Cardinality, Cardinality

ListingInv ==
    /\ raw \in Seq(List!Client) /\ Len(raw) <= MaxClients
    /\ query \in List!Queries
    /\ Len(listing.rows) <= query.limit
    /\ List!NothingMissing
    /\ List!IPsAddUp

LEMMA LinesOfReply ==
  ASSUME raw \in Seq(List!Client)
  PROVE  /\ Len(raw) \in Nat /\ DOMAIN raw = 1..Len(raw)
         /\ IsFiniteSet(DOMAIN raw) /\ Cardinality(DOMAIN raw) = Len(raw)
         /\ \A i \in DOMAIN raw : raw[i] \in List!Client
         /\ List!Kept \subseteq DOMAIN raw /\ IsFiniteSet(List!Kept)
         /\ Cardinality(List!Kept) \in Nat
<1>1. /\ Len(raw) \in Nat /\ DOMAIN raw = 1..Len(raw)
      /\ \A i \in DOMAIN raw : raw[i] \in List!Client
  OBVIOUS
<1>2. IsFiniteSet(1..Len(raw)) /\ Cardinality(1..Len(raw)) = Len(raw)
  BY <1>1, FS_Interval
<1>3. List!Kept \subseteq DOMAIN raw
  BY DEF List!Kept
<1>4. IsFiniteSet(List!Kept)
  BY <1>1, <1>2, <1>3, FS_Subset
<1>5. Cardinality(List!Kept) \in Nat
  BY <1>4, FS_CardinalityType
<1> QED
  BY <1>1, <1>2, <1>3, <1>4, <1>5

(* An arrangement of the lines has each of them, once.                      *)
LEMMA Arranged ==
  ASSUME NEW S, IsFiniteSet(S), NEW p \in List!SetToSeqs(S)
  PROVE  /\ DOMAIN p = 1..Cardinality(S)
         /\ \A k \in 1..Cardinality(S) : p[k] \in S
         /\ \A i \in S : \E k \in 1..Cardinality(S) : p[k] = i
<1> DEFINE D == 1..Cardinality(S)
<1>1. p \in [D -> S] /\ \A i, j \in D : i # j => p[i] # p[j]
  BY CountsOfList DEF List!SetToSeqs
<1>2. Cardinality(S) \in Nat
  BY FS_CardinalityType
<1>3. Cardinality(D) = Cardinality(S)
  BY <1>2, FS_Interval
<1> HIDE DEF D
<1>4. p \in Injection(D, S)
  BY <1>1 DEF Injection, IsInjective
<1>5. p \in Surjection(D, S)
  BY <1>3, <1>4, FS_Injection
<1> QED
  BY <1>1, <1>5 DEF Surjection, D

(* Each IPv6 client counts as "[2001", each of the others as itself.        *)
LEMMA CountsPerIP ==
  ASSUME raw \in Seq(List!Client)
  PROVE  /\ \A ip \in DOMAIN List!IPStats :
                List!IPStats[ip] = Cardinality({j \in DOMAIN raw :
                                                    List!IP(raw[j]) = ip})
         /\ \A i \in DOMAIN raw : List!IP(raw[i]) \in DOMAIN List!IPStats
         /\ \A ip : ip \notin DOMAIN List!IPStats =>
                {j \in DOMAIN raw : List!IP(raw[j]) = ip} = {}
BY CountsOfList DEF List!IPStats, List!CountBy

LEMMA IPsAreAll ==
  ASSUME raw \in Seq(List!Client), UNCHANGED raw,
         listing'.ips = List!IPStats, listing'.connected = Len(raw)
  PROVE  List!IPsAddUp'
<1> DEFINE Of(ip) == {j \in DOMAIN raw : List!IP(raw[j]) = ip}
           six == {j \in DOMAIN raw : raw[j].v6}
           four == {j \in DOMAIN raw : ~raw[j].v6}
<1>1. "[2001" # "10.0.0.1"
  OBVIOUS
<1>2. Of("[2001") = six /\ Of("10.0.0.1") = four
  BY <1>1 DEF List!IP
<1>3. \A ip : List!Connections(ip)' = Cardinality(Of(ip))
  <2>1. ASSUME NEW ip
        PROVE  List!Connections(ip)' =
                 IF ip \in DOMAIN List!IPStats THEN List!IPStats[ip] ELSE 0
    BY DEF List!Connections
  <2>2. Cardinality({}) = 0
    BY FS_EmptySet
  <2> QED
    BY <2>1, <2>2, CountsPerIP
<1>4. six \cup four = DOMAIN raw /\ six \cap four = {}
  OBVIOUS
<1>5. IsFiniteSet(six) /\ IsFiniteSet(four)
  BY LinesOfReply, FS_Subset
<1>6. \A i \in DOMAIN raw : ~raw[i].v6 =>
        listing'.ips[List!IP(raw[i])] = Cardinality(four)
  BY <1>2, CountsPerIP DEF List!IP
<1> HIDE DEF six, four
<1>7. Cardinality(six) \in Nat /\ Cardinality(four) \in Nat
  BY <1>5, FS_CardinalityType
<1>8. Cardinality(DOMAIN raw) =
        Cardinality(six) + Cardinality(four) - Cardinality({})
  BY <1>4, <1>5, FS_Union
<1>9. Len(raw) = Cardinality(six) + Cardinality(four)
  BY <1>7, <1>8, LinesOfReply, FS_EmptySet
<1>10. listing'.connected = List!Connections("[2001")' + List!Connections("10.0.0.1")'
  BY <1>2, <1>3, <1>9
<1>11. \A i \in DOMAIN raw : raw[i].v6 \/ listing'.ips[List!IP(raw[i])] =
            List!Cardinality({j \in DOMAIN raw : ~raw[j].v6})
  BY <1>6, CountsOfList DEF four
<1> QED
  BY <1>10, <1>11 DEF List!IPsAddUp, List!IP

(* Cut at the limit, an arrangement of the kept lines misses nothing.       *)
LEMMA ParseStep == ASSUME ListingInv, List!Parse PROVE ListingInv'
<1> DEFINE n == Cardinality(List!Kept)
<1>1. PICK t \in List!Sorted(query.sort, List!Kept) :
        LET rows == SubSeq(t, 1, List!Min({Len(t), query.limit}))
        IN  listing' = [rows |-> rows, ips |-> List!IPStats,
                        connected |-> Len(raw), limited |-> List!Limited(rows)]
  BY DEF List!Parse
<1>2. PICK p \in List!SetToSeqs(List!Kept) :
        /\ t = [k \in DOMAIN p |-> raw[p[k]]]
        /\ \A i, j \in DOMAIN t : List!Less(query.sort, t[i], t[j]) => i < j
  BY DEF List!Sorted
<1>3. UNCHANGED <<raw, query>> /\ List!Kept' = List!Kept
  BY DEF List!Parse, List!Kept
<1>4. /\ n \in Nat /\ List!Kept \subseteq DOMAIN raw
      /\ \A i \in DOMAIN raw : raw[i] \in List!Client
      /\ query.limit \in Nat \ {0}
  <2>1. query.limit \in Nat \ {0}
    BY PanelsAssumption DEF ListingInv, List!Queries
  <2> QED
    BY <2>1, LinesOfReply DEF ListingInv
<1>5. /\ DOMAIN p = 1..n /\ \A k \in 1..n : p[k] \in List!Kept
      /\ \A i \in List!Kept : \E k \in 1..n : p[k] = i
  BY LinesOfReply, Arranged DEF ListingInv
<1>6. /\ DOMAIN t = 1..n /\ \A k \in 1..n : t[k] = raw[p[k]]
      /\ t \in Seq(List!Client) /\ Len(t) = n
  <2> HIDE DEF n
  <2>1. t = [k \in 1..n |-> raw[p[k]]]
    BY <1>2, <1>5
  <2>2. \A k \in 1..n : raw[p[k]] \in List!Client
    BY <1>4, <1>5
  <2> QED
    BY <1>4, <2>1, <2>2
<1> DEFINE m == IF n <= query.limit THEN n ELSE query.limit
           rows == SubSeq(t, 1, m)
<1>7. List!Min({Len(t), query.limit}) = m
  <2> HIDE DEF n
  <2>1. m \in {n, query.limit} /\ m <= n /\ m <= query.limit
    BY <1>4
  <2>2. List!Min({n, query.limit}) =
            CHOOSE x \in {n, query.limit} : \A y \in {n, query.limit} : x <= y
    BY DEF List!Min
  <2> HIDE DEF m
  <2>3. \A x \in {n, query.limit} : (\A y \in {n, query.limit} : x <= y) => x = m
    BY <1>4, <2>1
  <2>4. \A y \in {n, query.limit} : m <= y
    BY <2>1
  <2> QED
    BY <1>6, <2>1, <2>2, <2>3, <2>4
<1>8. /\ m \in Nat /\ m <= n /\ m <= query.limit /\ (m = n \/ m = query.limit)
  <2> HIDE DEF n
  <2> QED
    BY <1>4
<1> HIDE DEF n, m
<1>9. /\ Len(rows) = m /\ \A k \in 1..m : rows[k] = t[k]
      /\ DOMAIN rows = 1..m
  <2>1. \A k \in 1..m : t[k] \in List!Client
    BY <1>4, <1>6, <1>8
  <2>2. rows \in Seq(List!Client) /\ Len(rows) = IF 1 <= m THEN m - 1 + 1 ELSE 0
    BY <1>8, <2>1, SubSeqProperties
  <2>3. \A k \in 1..(m - 1 + 1) : rows[k] = t[1 + k - 1]
    BY <1>8, <2>1, SubSeqProperties
  <2>4. Len(rows) = m
    BY <1>8, <2>2
  <2> QED
    BY <1>8, <2>2, <2>3, <2>4
<1>10. /\ listing'.rows = rows /\ listing'.ips = List!IPStats
       /\ listing'.connected = Len(raw)
       /\ listing'.limited <=> m >= query.limit
  BY <1>1, <1>7, <1>9 DEF List!Limited
<1> HIDE DEF rows
<1>11. ASSUME NEW i \in List!Kept, raw[i] \notin List!ToSet(rows)
       PROVE  /\ m = query.limit
              /\ \A r \in List!ToSet(rows) : ~List!Less(query.sort, raw[i], r)
  <2>1. PICK k \in 1..n : p[k] = i
    BY <1>5
  <2>2. ~(k \in 1..m)
    <3>1. SUFFICES ASSUME k \in 1..m PROVE FALSE
      OBVIOUS
    <3>2. rows[k] = raw[i] /\ k \in DOMAIN rows
      BY <1>6, <1>9, <2>1, <3>1
    <3> QED
      BY <1>11, <3>2 DEF List!ToSet
  <2>3. k > m /\ m = query.limit
    BY <1>4, <1>8, <2>1, <2>2
  <2>4. ASSUME NEW r \in List!ToSet(rows)
        PROVE  ~List!Less(query.sort, raw[i], r)
    <3>1. PICK j \in 1..m : r = t[j]
      BY <1>9 DEF List!ToSet
    <3>2. ~(k < j) /\ j \in 1..n
      BY <1>4, <1>8, <2>1, <2>3
    <3>3. List!Less(query.sort, t[k], t[j]) => k < j
      BY <1>2, <1>6, <2>1, <3>2
    <3> QED
      BY <1>6, <2>1, <3>1, <3>2, <3>3
  <2> QED
    BY <2>3, <2>4
<1>12. List!NothingMissing'
  <2>1. listing'.limited \/ Len(listing'.rows) = List!Cardinality(List!Kept)
    BY <1>4, <1>8, <1>9, <1>10, CountsOfList DEF n
  <2>2. \A i \in List!Kept : raw[i] \notin List!ToSet(listing'.rows) =>
            /\ listing'.limited
            /\ \A r \in List!ToSet(listing'.rows) : ~List!Less(query.sort, raw[i], r)
    BY <1>4, <1>8, <1>10, <1>11
  <2> QED
    BY <1>3, <2>1, <2>2 DEF List!NothingMissing, List!ToSet
<1>13. List!IPsAddUp'
  BY <1>3, <1>10, IPsAreAll DEF ListingInv
<1>14. Len(listing'.rows) <= query'.limit
  BY <1>3, <1>8, <1>9, <1>10
<1> QED
  BY <1>3, <1>12, <1>13, <1>14 DEF ListingInv

LEMMA ListingInit == Init => ListingInv
<1> SUFFICES ASSUME Init PROVE ListingInv
  OBVIOUS
<1>1. raw = <<>> /\ query \in List!Queries /\ listing = List!NoListing
  BY DEF Init, List!Init
<1>2. MaxClients \in Nat /\ query.limit \in Nat
  BY <1>1, PanelsAssumption DEF List!Queries
<1>3. Len(listing.rows) = 0
  BY <1>1 DEF List!NoListing
<1> QED
  BY <1>1, <1>2, <1>3 DEF ListingInv, List!NothingMissing, List!IPsAddUp

LEMMA ListingStep == ListingInv /\ [Next]_vars => ListingInv'
<1> SUFFICES ASSUME ListingInv, [Next]_vars PROVE ListingInv'
  OBVIOUS
<1>1. ASSUME NEW c \in List!Client, List!Line(c) PROVE ListingInv'
  <2>1. /\ listing = List!NoListing /\ listing' = List!NoListing /\ query' = query
        /\ Len(raw) < MaxClients /\ raw' = Append(raw, c)
    BY <1>1 DEF List!Line
  <2>2. raw' \in Seq(List!Client) /\ Len(raw') = Len(raw) + 1
    BY <2>1, AppendProperties DEF ListingInv
  <2>3. Len(raw) \in Nat /\ MaxClients \in Nat
    BY LinesOfReply, PanelsAssumption DEF ListingInv
  <2>4. Len(raw') <= MaxClients
    BY <2>1, <2>2, <2>3
  <2> QED
    BY <2>1, <2>2, <2>4
       DEF ListingInv, List!NothingMissing, List!IPsAddUp, List!NoListing
<1>2. CASE List!Again
  <2>1. raw' = <<>> /\ query' \in List!Queries /\ listing' = List!NoListing
    BY <1>2 DEF List!Again
  <2>2. MaxClients \in Nat /\ query'.limit \in Nat
    BY <2>1, PanelsAssumption DEF List!Queries
  <2>3. Len(listing'.rows) = 0
    BY <2>1 DEF List!NoListing
  <2> QED
    BY <2>1, <2>2, <2>3
       DEF ListingInv, List!NothingMissing, List!IPsAddUp, List!NoListing
<1>3. CASE UNCHANGED listVars
  BY <1>3 DEF ListingInv, List!NothingMissing, List!IPsAddUp, List!Kept,
              List!Connections, listVars
<1> QED
  BY <1>1, <1>2, <1>3, ParseStep, OnePart DEF List!Next

(* For every reply, order, filter and limit: the comparison is an order the *)
(* sort may use; a list that does not say limited has every client the      *)
(* filter lets through, and one that does leaves out none that belongs      *)
(* above a row it shows; and the counts per IP are those of all connections *)
(* (parse.go:118-121, 142-165, source.go:230-247).                          *)
THEOREM ListHonest == Spec => []ListIsHonest
<1>1. ListingInv => ListIsHonest
  <2> SUFFICES ASSUME ListingInv PROVE List!OrderIsWeak
    BY DEF ListIsHonest, ListingInv
  <2>1. List!ToSet(raw) \subseteq List!Client /\ query.sort \in List!Orders
    BY LinesOfReply DEF ListingInv, List!ToSet, List!Queries
  <2> QED
    BY <2>1, EveryOrderIsWeak DEF List!OrderIsWeak
<1> QED
  BY <1>1, ListingInit, ListingStep, PTL DEF Spec

=============================================================================
