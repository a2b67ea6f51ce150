------------------------------- MODULE Config -------------------------------
(***************************************************************************)
(* The settings a start of the program ends up with: config.Default, the   *)
(* flags parseConfigFromArgs lays over it, and Config.Normalize, which     *)
(* runs before the flags and after them (internal/config/config.go,        *)
(* cmd/redis-top/main.go).  The address, the credentials and the settings  *)
(* that are on or off are left out.                                        *)
(***************************************************************************)
EXTENDS Integers

CONSTANTS
    MaxFlags                \* bound: flags on a command line

VARIABLES
    settings,               \* setting -> its value, milliseconds for times
    flags,                  \* history: flag -> the value it was given last
    given,                  \* number of flags so far
    started                 \* main goes on to build the source

vars == <<settings, flags, given, started>>

(* The documented defaults, all but one those of the literal in Default and *)
(* those Normalize falls back to.                                           *)
Fallback ==
    [Refresh |-> 1000, StartupTimeout |-> 3000, ClientsLimit |-> 20,
     SlowlogLimit |-> 20, Dashboard |-> 1000, Clients |-> 1000, Slowlog |-> 2000,
     Replication |-> 2000, Commands |-> 1000, Keys |-> 15000, KeysTimeout |-> 1500,
     TopK |-> 20, ScanCount |-> 200, SampleKeysMax |-> 200,
     BufferCapacity |-> 2000, UIRefresh |-> 300, Window |-> 5000, MaxArgLen |-> 128]

Settings == DOMAIN Fallback

(* The panels whose interval is that of --refresh.                          *)
Followers == {"Dashboard", "Clients", "Commands"}

(* No flag sets the interval of a panel but that of the big keys.           *)
Flags == Settings \ (Followers \cup {"Slowlog", "Replication"})

(* Mutant: only what was left at zero is replaced.                          *)
NormalizeZero(c) ==
    LET refresh == IF c.Refresh # 0 THEN c.Refresh ELSE Fallback.Refresh
    IN  [s \in Settings |->
            IF c[s] # 0 THEN c[s]
            ELSE IF s \in Followers THEN refresh ELSE Fallback[s]]

(* Whatever is not positive is replaced, the refresh interval first.        *)
Normalize(c) ==
    LET refresh == IF c.Refresh > 0 THEN c.Refresh ELSE Fallback.Refresh
    IN  [s \in Settings |->
            IF c[s] > 0 THEN c[s]
            ELSE IF s \in Followers THEN refresh ELSE Fallback[s]]

(* The literal leaves two intervals to Normalize.                           *)
Default ==
    Normalize([s \in Settings |->
        IF s \in {"Dashboard", "Commands"} THEN 0 ELSE Fallback[s]])

(* A flag takes any number: one of each sign.                               *)
Values == {-1, 0, 5}

NoFlags == [s \in Flags |-> 0]

Init ==
    /\ settings = Default
    /\ flags = NoFlags /\ given = 0
    /\ started = FALSE

-----------------------------------------------------------------------------

(* A flag sets its setting, a second time as well.                          *)
Parse(flag, value) ==
    /\ ~started
    /\ given < MaxFlags
    /\ given' = given + 1
    /\ flags' = [flags EXCEPT ![flag] = value]
    /\ settings' = [settings EXCEPT ![flag] = value]
    /\ UNCHANGED started

Start ==
    /\ ~started
    /\ started' = TRUE
    /\ settings' = Normalize(settings)
    /\ UNCHANGED <<flags, given>>

(* The program is started again.                                            *)
Restart ==
    /\ started
    /\ settings' = Default /\ flags' = NoFlags /\ given' = 0 /\ started' = FALSE

Next ==
    \/ \E f \in Flags, v \in Values : Parse(f, v)
    \/ Start \/ Restart

Spec == Init /\ [][Next]_vars

-----------------------------------------------------------------------------

(* Every variable has its type.                                             *)
TypeOK ==
    /\ DOMAIN settings = Settings
    /\ flags \in [Flags -> Values]
    /\ given \in 0..MaxFlags
    /\ started \in BOOLEAN

(* Whatever the flags, every interval, timeout, limit and capacity the      *)
(* program starts with is positive, as time.NewTicker, which panics for     *)
(* others (app.go:209), and the limits of the panels need it, and a setting *)
(* whose flag was last given a positive value has that value                *)
(* (config.go:95-152, main.go:55-97).                                       *)
StartsSound ==
    started =>
        /\ \A s \in Settings : settings[s] > 0
        /\ \A f \in Flags : flags[f] > 0 => settings[f] = flags[f]

(* The interval of the dashboard, clients and commands panels is that of    *)
(* --refresh (README.md:68).                                                *)
RefreshIsUsed ==
    started /\ flags.Refresh > 0 =>
        \A p \in Followers : settings[p] = flags.Refresh

=============================================================================
