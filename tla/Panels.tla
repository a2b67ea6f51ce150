------------------------------- MODULE Panels -------------------------------
(***************************************************************************)
(* The parts of the program with an algorithm of their own, beside each    *)
(* other: what the collectors of the slow log, clients, big keys and       *)
(* commands panels do with the answers, the list of the clients panel, the *)
(* MONITOR panel, the topology panel, and the settings.  Each panel has    *)
(* one goroutine (SchedulerProofs!PassesNeverOverlap) and the parts share  *)
(* no state, so a behaviour follows one of them and leaves the others      *)
(* where they start.                                                       *)
(***************************************************************************)
EXTENDS BufferConstants, Integers, FiniteSets

CONSTANTS
    Limit, MaxIds, MaxBoots,                                \* slow log
    Sorts, Filters, MaxEdits,                               \* clients
    Keys, Batches, MaxSize, SampleMax, TopK,                \* big keys
    Cmds, MaxCalls, MaxResets, MaxPause, Timeout,             \* commands
    MaxClients, MaxNumber, Limits,                          \* client list
    Window, MaxSkew, MaxNow, MaxLines,                      \* MONITOR
    Addrs, Origin, NoAddr, Phantom, MaxFailovers,           \* topology
    MaxFlags                                                \* settings

ASSUME PanelsAssumption ==
    /\ {Limit, MaxIds, MaxBoots} \subseteq Nat \ {0}
    /\ Sorts # {} /\ "none" \notin Sorts /\ Filters # {} /\ MaxEdits \in Nat
    /\ Keys \subseteq Nat /\ MaxSize \in Nat
    /\ {Batches, SampleMax, TopK} \subseteq Nat \ {0}
    /\ {MaxCalls, MaxResets, MaxPause, Timeout} \subseteq Nat
    /\ {MaxClients, MaxNumber} \subseteq Nat /\ Limits \subseteq Nat \ {0}
    /\ {Window, MaxSkew, MaxNow, MaxLines} \subseteq Nat
    /\ IsFiniteSet(Addrs) /\ Origin \in Addrs /\ {NoAddr, Phantom} \cap Addrs = {}
    /\ NoAddr # Phantom /\ "standalone" \notin Addrs \cup {NoAddr, Phantom}
    /\ {MaxFailovers, MaxFlags} \subseteq Nat

VARIABLES
    panel,                                                  \* the one followed
    boot, nextId, log, mode, request, seen, slowlog, shown, repeated, hidden,
    sort, filter, edits, connected, clients, age, step, options, clean, settled,
    steady, current,
    page, size, time, at, cursor, batch, candidates, missed, bigKeys,
    calls, made, resets, reply, baseline, sampled, commands,
    raw, query, listing,
    events, head, count, now, skew, sent,
    kind, masterOf, failovers, target, nodes, replication, selectedPanel,
    selected, masterAddr, screen,
    settings, flags, given, started

Slow == INSTANCE Slowlog

Cli == INSTANCE Clients

Big == INSTANCE BigKeys

Com == INSTANCE Commands

List == INSTANCE ClientList

Mon == INSTANCE Monitor

Topo == INSTANCE Topology WITH mode <- kind

Conf == INSTANCE Config

slowVars == <<boot, nextId, log, mode, request, seen, slowlog, shown, repeated,
              hidden>>
cliVars == <<sort, filter, edits, connected, clients, age, step, options, clean,
             settled, steady, current>>
bigVars == <<page, size, time, at, cursor, batch, candidates, missed, bigKeys>>
comVars == <<calls, made, resets, reply, baseline, sampled, commands>>
listVars == <<raw, query, listing>>
monVars == <<events, head, count, now, skew, sent>>
topoVars == <<kind, masterOf, failovers, target, nodes, replication,
              selectedPanel, selected, masterAddr, screen>>
confVars == <<settings, flags, given, started>>
vars == <<panel, slowVars, cliVars, bigVars, comVars, listVars, monVars, topoVars,
          confVars>>

Parts == {"slowlog", "clients", "keys", "commands", "list", "monitor", "topology",
          "settings"}

(* The inputs of the parts that are not followed do not matter: one each.   *)
Idle(p, input, inputs) == panel # p => input = CHOOSE i \in inputs : TRUE

Init ==
    /\ panel \in Parts
    /\ Slow!Init /\ Com!Init /\ Conf!Init
    /\ Cli!Init
    /\ Idle("clients", <<sort, filter>>, Sorts \X Filters)
    /\ Big!Init
    /\ Idle("keys", <<page, size>>, [Keys -> 1..Batches] \X [Keys -> 0..MaxSize])
    /\ List!Init
    /\ Idle("list", query, List!Queries)
    /\ Mon!Init
    /\ Idle("monitor", skew, -MaxSkew..MaxSkew)
    /\ Topo!Init
    /\ Idle("topology", <<kind, masterOf>>, {"single"} \X Topo!Worlds("single"))

FollowSlowlog ==
    /\ panel = "slowlog" /\ Slow!Next
    /\ UNCHANGED <<panel, cliVars, bigVars, comVars, listVars, monVars, topoVars,
                   confVars>>

FollowClients ==
    /\ panel = "clients" /\ Cli!Next
    /\ UNCHANGED <<panel, slowVars, bigVars, comVars, listVars, monVars, topoVars,
                   confVars>>

FollowKeys ==
    /\ panel = "keys" /\ Big!Next
    /\ UNCHANGED <<panel, slowVars, cliVars, comVars, listVars, monVars, topoVars,
                   confVars>>

FollowCommands ==
    /\ panel = "commands" /\ Com!Next
    /\ UNCHANGED <<panel, slowVars, cliVars, bigVars, listVars, monVars, topoVars,
                   confVars>>

FollowList ==
    /\ panel = "list" /\ List!Next
    /\ UNCHANGED <<panel, slowVars, cliVars, bigVars, comVars, monVars, topoVars,
                   confVars>>

FollowMonitor ==
    /\ panel = "monitor" /\ Mon!Next
    /\ UNCHANGED <<panel, slowVars, cliVars, bigVars, comVars, listVars, topoVars,
                   confVars>>

FollowTopology ==
    /\ panel = "topology" /\ Topo!Next
    /\ UNCHANGED <<panel, slowVars, cliVars, bigVars, comVars, listVars, monVars,
                   confVars>>

FollowSettings ==
    /\ panel = "settings" /\ Conf!Next
    /\ UNCHANGED <<panel, slowVars, cliVars, bigVars, comVars, listVars, monVars,
                   topoVars>>

Next ==
    \/ FollowSlowlog \/ FollowClients \/ FollowKeys \/ FollowCommands
    \/ FollowList \/ FollowMonitor \/ FollowTopology \/ FollowSettings

Spec == Init /\ [][Next]_vars

-----------------------------------------------------------------------------

(* The types of the parts.                                                  *)
TypeOK ==
    /\ Slow!TypeOK /\ Cli!TypeOK /\ Big!TypeOK /\ Com!TypeOK
    /\ List!TypeOK /\ Mon!TypeOK /\ Topo!TypeOK /\ Conf!TypeOK

(* Slow log, mode "new": no entry twice, and none left out but for ids used *)
(* again after a restart of the server (parse.go:169-187,                   *)
(* source.go:286-303).                                                      *)
NewExactlyOnce == Slow!NewOnce /\ Slow!HiddenOnlyByReuse

(* Clients: the throttle never holds back a change of the settings, and     *)
(* only a change lifts it, which README.md:149 does not say                 *)
(* (Clients!ChangesLiftThrottle).                                           *)
ChangesLiftThrottle == Cli!ChangesLiftThrottle

(* Big keys: a walk to the end shows the biggest of all it did not go past  *)
(* (BigKeys!WholeWalkIsTop).                                                *)
WholeWalkIsTop == Big!WholeWalkIsTop

(* Commands: no calls that nobody made; fewer than were made only for a new *)
(* command or after a reset; and over the time between the answers, give or *)
(* take a timeout (parse.go:54-58, source.go:444-464).                      *)
RatesAreCalls ==
    /\ Com!NothingInvented
    /\ Com!FewerOnlyIfNewOrReset
    /\ Com!ElapsedWithinTimeout

(* Client list: the comparison is an order, a list with rows left out says  *)
(* so and leaves out the right ones, and the counts per IP are those of all *)
(* connections (parse.go:118-121, 142-165, source.go:230-247).              *)
ListIsHonest == List!OrderIsWeak /\ List!NothingMissing /\ List!IPsAddUp

(* MONITOR: the counts are of the window, of nothing else, and all of it    *)
(* but torn and overwritten lines, for lines whose rest, once torn, is no   *)
(* MONITOR line itself (buffer.go:64-102, parser.go:18-37,                  *)
(* stream.go:113-126).                                                      *)
CountsAreRecent == Mon!NothingFromOutside /\ Mon!NothingLeftOut

(* MONITOR: the ring is the newest events (Buffer!ImplementsRecent).        *)
ImplementsRecent == Mon!Buf!ImplementsRecent

(* Topology: the digits and marks of the tree are those of the keys         *)
(* (Topology!TreeAgrees).                                                   *)
TreeAgrees == Topo!TreeAgrees

(* Topology: Enter goes to the marked node, unless the selected one moved   *)
(* in the list while the tree was drawn (Topology!EnterGoesToMarked).       *)
EnterGoesToMarked == Topo!EnterGoesToMarked

(* Topology: `m` leads home (Topology!HomeIsOrigin).                        *)
HomeIsOrigin == Topo!HomeIsOrigin

(* Settings: all are positive at the start (Config!StartsSound).            *)
StartsSound == Conf!StartsSound

=============================================================================
