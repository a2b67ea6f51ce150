----------------------------- MODULE ClientList -----------------------------
(***************************************************************************)
(* What the clients panel makes of a reply to CLIENT LIST:                 *)
(* parseClientList filters, sorts and cuts the rows and counts connections *)
(* per IP, FetchClients adds the totals (internal/source/redis).           *)
(*                                                                         *)
(* Of a client the model has its command, which the filter looks at, the   *)
(* number its order looks at (idle, age or omem), and its kind of address. *)
(***************************************************************************)
EXTENDS Integers, Sequences, SequencesExt, FiniteSets

CONSTANTS
    MaxClients,             \* bound: connections of the server
    MaxNumber,              \* bound: the numbers
    Limits                  \* --clients-limit; Normalize has made it positive

VARIABLES
    raw,                    \* the reply: a sequence of clients
    query,                  \* SortBy, the filter ("" is none), Limit
    listing                 \* Rows, IPStats, ConnectedClients, Limited

vars == <<raw, query, listing>>

Orders == {"idle", "age", "cmd", "omem"}

(* A client's `cmd` is empty before its first command; v6: the IP of its    *)
(* addr is an IPv6 one.  Those of the model begin with the same group.      *)
Client == [cmd : {"", "get", "set"}, number : 0..MaxNumber, v6 : BOOLEAN]

Queries == [sort : Orders, filter : {"", "get"}, limit : Limits]

NoListing == [rows |-> <<>>, ips |-> <<>>, connected |-> 0, limited |-> FALSE]

Init ==
    /\ raw = <<>>
    /\ query \in Queries
    /\ listing = NoListing

(* The reply, line by line.                                                 *)
Line(c) ==
    /\ listing = NoListing
    /\ Len(raw) < MaxClients
    /\ raw' = Append(raw, c)
    /\ UNCHANGED <<query, listing>>

-----------------------------------------------------------------------------

Rank(cmd) == CASE cmd = "" -> 0 [] cmd = "get" -> 1 [] cmd = "set" -> 2

(* Mutant: no word about empty commands.                                    *)
LessPlain(sort, c, d) ==
    IF sort = "cmd" /\ c.cmd # d.cmd THEN Rank(c.cmd) < Rank(d.cmd) \/ d.cmd = ""
    ELSE IF sort \in {"age", "omem"} THEN c.number > d.number
    ELSE c.number < d.number

(* The function sort.Slice is given: by command with the empty ones last,   *)
(* the biggest age or output buffer first, the smallest idle time first.    *)
Less(sort, c, d) ==
    CASE sort \in {"age", "omem"} -> c.number > d.number
      [] sort = "cmd" /\ c.cmd # d.cmd ->
            c.cmd # "" /\ (d.cmd = "" \/ Rank(c.cmd) < Rank(d.cmd))
      [] OTHER -> c.number < d.number

(* The clients the filter lets through, by their lines in the reply.        *)
Kept == {i \in DOMAIN raw : query.filter = "" \/ raw[i].cmd = query.filter}

(* The ways sort.Slice may leave them: equal elements in any order.         *)
Sorted(sort, lines) ==
    {t \in {[k \in DOMAIN p |-> raw[p[k]]] : p \in SetToSeqs(lines)} :
        \A i, j \in DOMAIN t : Less(sort, t[i], t[j]) => i < j}

IP(c) == IF c.v6 THEN "[2001" ELSE "10.0.0.1"

CountBy(lines) ==
    [ip \in {IP(raw[i]) : i \in lines} |->
        Cardinality({i \in lines : IP(raw[i]) = ip})]

(* Mutant: the IPs are counted of the rows the filter lets through.         *)
CountShown == CountBy(Kept)

(* The addr is cut at its first ":": "[2001:db8::1]:5000" counts as "[2001",*)
(* with every other IPv6 address of that first group.                       *)
IPStats == CountBy(DOMAIN raw)

(* Mutant: only more rows than the limit are a limited list.                *)
IsLimited(rows) == Len(rows) > query.limit

(* len(rows) >= options.Limit, the rows already cut.                        *)
Limited(rows) == Len(rows) >= query.limit

(* FetchClients, the reply being in.                                        *)
Parse ==
    /\ listing = NoListing /\ raw # <<>>
    /\ \E t \in Sorted(query.sort, Kept) :
        LET rows == SubSeq(t, 1, Min({Len(t), query.limit}))
        IN  listing' = [rows |-> rows, ips |-> IPStats,
                        connected |-> Len(raw), limited |-> Limited(rows)]
    /\ UNCHANGED <<raw, query>>

(* The next poll, with other settings perhaps.                              *)
Again ==
    /\ listing # NoListing
    /\ raw' = <<>> /\ query' \in Queries /\ listing' = NoListing

Next == (\E c \in Client : Line(c)) \/ Parse \/ Again

Spec == Init /\ [][Next]_vars

-----------------------------------------------------------------------------

(* Every variable has its type, and the limit is kept.                      *)
TypeOK ==
    /\ raw \in Seq(Client) /\ Len(raw) <= MaxClients
    /\ query \in Queries
    /\ Len(listing.rows) <= query.limit

(* sort.Slice gets what it needs from each order, a strict weak one: no two *)
(* clients before each other, and both "before" and "neither before the     *)
(* other" carry over a third client (parse.go:142-162).                     *)
OrderIsWeak ==
    \A c, d, e \in ToSet(raw) :
        LET less(x, y) == Less(query.sort, x, y)
        IN  /\ ~(less(c, d) /\ less(d, c))
            /\ less(c, d) => less(c, e) \/ less(e, d)

(* A list that does not say limited has every client the filter lets        *)
(* through, as often as there are such; one that does has none that belongs *)
(* below one left out (parse.go:163-165, source.go:247).                    *)
NothingMissing ==
    listing # NoListing =>
        /\ listing.limited \/ Len(listing.rows) = Cardinality(Kept)
        /\ \A i \in Kept : raw[i] \notin ToSet(listing.rows) =>
            /\ listing.limited
            /\ \A r \in ToSet(listing.rows) : ~Less(query.sort, raw[i], r)

Connections(ip) == IF ip \in DOMAIN listing.ips THEN listing.ips[ip] ELSE 0

(* The counts per IP add up to the connections of the server and do not     *)
(* depend on the filter or the limit; only IPv6 clients of one first group  *)
(* share one (parse.go:118-121, source.go:230-233).                         *)
IPsAddUp ==
    listing # NoListing =>
        /\ listing.connected = Connections("[2001") + Connections("10.0.0.1")
        /\ \A i \in DOMAIN raw : raw[i].v6 \/ listing.ips[IP(raw[i])] =
                Cardinality({j \in DOMAIN raw : ~raw[j].v6})

=============================================================================
