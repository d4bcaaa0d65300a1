------------------------------ MODULE LogFilters ------------------------------
(***************************************************************************)
(* eth_getLogs, the poll-based filters and the log subscriptions of the    *)
(* RPC server, over the log index of the repository.                       *)
(*                                                                         *)
(* The index (lib/storage/src/db/repository/log_index.rs) keeps, for every *)
(* address and topic, one bitmap of block offsets per chunk of blocks, and *)
(* the blocks it covers.  It is written with each persisted block and      *)
(* rolled back with the repository when a node restarts into a rebuild.    *)
(* A database written before the index existed has blocks it does not      *)
(* cover; those and the blocks still in memory are found by their bloom.   *)
(* A scan answers from the index, the bloom and the receipts.              *)
(***************************************************************************)
EXTENDS Integers, Sequences, FiniteSets, FiniteSetsExt, SequencesExt

CONSTANTS
    LfContents,       \* what a block may hold: sequences of logs
    LfQueries,        \* log filters: addresses, and a set of topics per position
    LfChunk,          \* CHUNK_SIZE
    LfMaxBlock,       \* bound on the blocks of a chain, for each kind of client
    LfIndexFrom,      \* blocks below it were written by a version without the index
    LfMaxBlocks,      \* max_blocks_per_filter
    LfMaxLogs,        \* max_logs_per_response
    LfNotifications,  \* capacity of the block broadcast channel
    LfMaxRollbacks,   \* bound on restarts
    LfMaxPending      \* bound on pending transactions

VARIABLES
    lfClient,         \* what the client does: "scan" (eth_getLogs), "filter" or "subscription"
    lfChain,          \* blocks 1..latest, persisted and in memory
    lfPersisted,      \* latest persisted block
    lfBitmaps,        \* <<key, chunk>> -> set of offsets; a missing key is an empty bitmap
    lfFirst, lfLast,  \* log_index_first_block, log_index_last_block; -1 if absent
    lfRollbacks,
    lfFilter,         \* the installed filter; since and idle are ghosts
    lfPoll,           \* a getFilterChanges call between its two steps
    lfGot,            \* what the polls of the filter returned
    lfNext,           \* ghost: the first block no poll has accounted for
    lfPending,        \* pending transactions in the listener of the filter
    lfSub             \* a log subscription: its broadcast queue and what it sent

lfVars == <<lfClient, lfChain, lfPersisted, lfBitmaps, lfFirst, lfLast, lfRollbacks, lfFilter, lfPoll, lfGot,
            lfNext, lfPending, lfSub>>
lfStore == <<lfClient, lfChain, lfPersisted, lfBitmaps, lfFirst, lfLast, lfRollbacks>>
lfRegistry == <<lfFilter, lfPoll, lfGot, lfNext, lfPending>>

NoFilter == [kind |-> "none", block |-> 0, since |-> 0, age |-> 0, idle |-> 0, query |-> CHOOSE q \in LfQueries : TRUE]
NoPoll == -1
NoSub == [open |-> FALSE, queue |-> << >>, sent |-> << >>, lagged |-> FALSE]
Latest == Len(lfChain)

\* The genesis block has no logs.
BlockAt(n) == IF n = 0 THEN << >> ELSE lfChain[n]

-----------------------------------------------------------------------------
(* The index. *)

ChunkStart(block) == block - (block % LfChunk)

\* The keys a log is indexed under: its address and each of its topics.
LogKeys(log) == {<<"address", log.address>>} \cup {<<"topic", log.topics[i]>> : i \in 1..Len(log.topics)}
BlockKeys(block) == UNION {LogKeys(block[i]) : i \in 1..Len(block)}

Bitmap(maps, key, chunk) == IF <<key, chunk>> \in DOMAIN maps THEN maps[<<key, chunk>>] ELSE {}

\* index_logs and deindex_logs of a block, through the cache of the batch; flush
\* deletes a bitmap left empty.
Flush(maps) == [k \in {x \in DOMAIN maps : maps[x] # {}} |-> maps[k]]

MutIndexLogs(maps, number, block) ==
    LET chunk == ChunkStart(number)
        keys  == {<<k, chunk>> : k \in BlockKeys(block)}
    IN  [x \in DOMAIN maps \cup keys |-> IF x \in keys THEN {number - chunk} ELSE maps[x]]

IndexLogs(maps, number, block) ==
    LET chunk == ChunkStart(number)
        keys  == {<<k, chunk>> : k \in BlockKeys(block)}
    IN  [x \in DOMAIN maps \cup keys |->
            Bitmap(maps, x[1], x[2]) \cup (IF x \in keys THEN {number - chunk} ELSE {})]

DeindexLogs(maps, number, block) ==
    LET chunk == ChunkStart(number)
    IN  [x \in DOMAIN maps |->
            IF x[2] = chunk /\ x[1] \in BlockKeys(block) THEN maps[x] \ {number - chunk} ELSE maps[x]]

\* A half-open range of blocks [from, to).
RangeOf(from, to) == [from |-> from, to |-> to]
Intersect(a, b) == RangeOf(Max({a.from, b.from}), Min({a.to, b.to}))
InRange(n, r) == r.from <= n /\ n < r.to

Coverage == RangeOf(lfFirst, lfLast + 1)

\* read_range: the chunks that overlap the range, shifted back and trimmed to it.
ReadRange(key, range) ==
    LET chunks == {x[2] : x \in {y \in DOMAIN lfBitmaps : y[1] = key}}
        upto   == ChunkStart(range.to - 1) + LfChunk
        read   == {c \in chunks : ChunkStart(range.from) <= c /\ c < upto}
    IN  {n \in UNION {{c + o : o \in Bitmap(lfBitmaps, key, c)} : c \in read} : InRange(n, range)}

NoCandidates == [bitmap |-> {}, covered |-> RangeOf(0, 0)]

Query(key, range) ==
    LET covered == Intersect(range, Coverage)
    IN  IF lfFirst = -1 \/ lfLast = -1 \/ covered.from >= covered.to THEN NoCandidates
        ELSE [bitmap |-> ReadRange(key, covered), covered |-> covered]

-----------------------------------------------------------------------------
(* log_index_filter: OR within a group, AND between the groups; what is    *)
(* covered is what all of them cover.                                      *)

Or(a, b) == [bitmap |-> a.bitmap \cup b.bitmap, covered |-> Intersect(a.covered, b.covered)]
And(a, b) == [bitmap |-> a.bitmap \cap b.bitmap, covered |-> Intersect(a.covered, b.covered)]

AnyOf(candidates) ==
    IF candidates = << >> THEN NoCandidates ELSE FoldLeft(Or, Head(candidates), Tail(candidates))
AllOf(candidates) ==
    IF candidates = << >> THEN NoCandidates ELSE FoldLeft(And, Head(candidates), Tail(candidates))

GroupCandidates(kind, values, range) ==
    AnyOf([i \in 1..Cardinality(values) |-> Query(<<kind, SetToSeq(values)[i]>>, range)])

Candidates(q, range) ==
    LET topics == SelectSeq(q.topics, LAMBDA ts : ts # {})
        groups == (IF q.addresses = {} THEN << >> ELSE <<GroupCandidates("address", q.addresses, range)>>)
                    \o [i \in 1..Len(topics) |-> GroupCandidates("topic", topics[i], range)]
    IN  AllOf(groups)

MayContain(c, n) == ~InRange(n, c.covered) \/ n \in c.bitmap

-----------------------------------------------------------------------------
(* scan_logs *)

\* Filter::matches, and the bloom of a block: what it holds at any position.
Matches(q, log) ==
    /\ q.addresses = {} \/ log.address \in q.addresses
    /\ \A i \in 1..Len(q.topics) :
          q.topics[i] = {} \/ (i <= Len(log.topics) /\ log.topics[i] \in q.topics[i])

MatchesBloom(q, block) ==
    LET holds(kind, values) == values = {} \/ \E v \in values : <<kind, v>> \in BlockKeys(block)
    IN  holds("address", q.addresses) /\ \A i \in 1..Len(q.topics) : holds("topic", q.topics[i])

\* collect_matching_logs: the index of a log counts every log of its block.
CollectMatchingLogs(q, number) ==
    LET block == BlockAt(number)
        hits  == SelectSeq([i \in 1..Len(block) |-> i], LAMBDA i : Matches(q, block[i]))
    IN  [k \in 1..Len(hits) |-> <<number, hits[k]>>]

OkLogs(logs) == [ok |-> TRUE, logs |-> logs, retry |-> RangeOf(0, 0)]
FailedLogs(from, to) == [ok |-> FALSE, logs |-> << >>, retry |-> RangeOf(from, to + 1)]

\* scan_logs: too many logs in a range of several blocks is an error that names
\* the range to retry with.
ScanLogs(q, from, to) ==
    LET c == Candidates(q, RangeOf(from, to + 1))
        Visit(acc, n) ==
            IF ~acc.ok \/ ~MayContain(c, n) \/ ~MatchesBloom(q, BlockAt(n)) THEN acc
            ELSE LET logs == acc.logs \o CollectMatchingLogs(q, n)
                 IN  IF from # to /\ Len(logs) > LfMaxLogs THEN FailedLogs(from, n - 1) ELSE OkLogs(logs)
    IN  FoldLeft(Visit, OkLogs(<< >>), [i \in 1..(to - from + 1) |-> from + i - 1])

GetLogsInBlockRange(q, from, to) ==
    CASE from > to -> OkLogs(<< >>)
      [] from <= to /\ to - from > LfMaxBlocks -> FailedLogs(from, from + LfMaxBlocks)
      [] OTHER -> ScanLogs(q, from, to)

-----------------------------------------------------------------------------
(* Blocks: produced in memory, persisted with their index, rolled back. *)

\* A new database, whose genesis block is indexed, or one of an older version.
FiltersInit ==
    /\ lfClient \in {"scan", "filter", "subscription"}
    /\ \/ lfChain = << >> /\ lfPersisted = 0 /\ lfFirst = 0 /\ lfLast = 0
       \/ /\ lfChain \in [1..(LfIndexFrom - 1) -> LfContents] /\ lfPersisted = LfIndexFrom - 1
          /\ lfFirst = -1 /\ lfLast = -1
    /\ lfBitmaps = << >> /\ lfRollbacks = 0
    /\ lfFilter = NoFilter /\ lfPoll = NoPoll /\ lfGot = << >> /\ lfNext = 0 /\ lfPending = 0
    /\ lfSub = NoSub

\* populate: the block is readable and the subscribers are notified.  A receiver
\* that is LfNotifications blocks behind loses the oldest one.
Notified(sub, number) ==
    IF ~sub.open THEN sub
    ELSE LET queue == Append(sub.queue, number)
             lost  == Len(queue) > LfNotifications
         IN  [sub EXCEPT !.queue = IF lost THEN Tail(queue) ELSE queue, !.lagged = @ \/ lost]

AddBlock(block) ==
    /\ Latest < LfMaxBlock[lfClient]
    /\ lfChain' = Append(lfChain, block)
    /\ lfSub' = Notified(lfSub, Latest + 1)
    /\ UNCHANGED <<lfClient, lfPersisted, lfBitmaps, lfFirst, lfLast, lfRollbacks, lfRegistry>>

\* write_block: one batch with the rows of the block, its bitmaps and the coverage.
WriteBlockIndex ==
    LET number == lfPersisted + 1 IN
    /\ number <= Latest
    /\ lfPersisted' = number
    /\ lfBitmaps' = Flush(IndexLogs(lfBitmaps, number, lfChain[number]))
    /\ lfFirst' = IF lfFirst = -1 THEN number ELSE lfFirst
    /\ lfLast' = number
    /\ UNCHANGED <<lfClient, lfChain, lfRollbacks, lfFilter, lfPoll, lfGot, lfNext, lfPending, lfSub>>

\* A restart loses the blocks in memory, the filters and the subscriptions; a
\* rebuild rolls the repository back to a block first.
RollbackIndex(keep) ==
    LET dropped == [i \in 1..(lfPersisted - keep) |-> keep + i]
        Drop(maps, n) == DeindexLogs(maps, n, lfChain[n])
    IN
    /\ keep <= lfPersisted
    /\ lfRollbacks < LfMaxRollbacks
    /\ lfRollbacks' = lfRollbacks + 1
    /\ lfChain' = SubSeq(lfChain, 1, keep) /\ lfPersisted' = keep
    /\ lfBitmaps' = Flush(FoldLeft(Drop, lfBitmaps, dropped))
    /\ lfLast' = IF keep < lfPersisted THEN keep ELSE lfLast
    /\ UNCHANGED <<lfClient, lfFirst>>
    /\ lfFilter' = NoFilter /\ lfPoll' = NoPoll /\ lfGot' = << >> /\ lfNext' = 0 /\ lfPending' = 0
    /\ lfSub' = NoSub

-----------------------------------------------------------------------------
(* The filter registry. *)

\* install_filter: polls start at the latest block.  A query with no blocks asks
\* for latest..latest; one with fromBlock has it.
InstallFilter(kind, q) ==
    /\ lfClient = "filter" /\ lfFilter.kind = "none" /\ lfPoll = NoPoll /\ lfGot = << >>
    /\ lfFilter' = [kind |-> kind, block |-> Latest, since |-> Latest + 1, age |-> 0, idle |-> 0, query |-> q]
    /\ lfNext' = Latest
    /\ lfPending' = 0
    /\ UNCHANGED <<lfStore, lfPoll, lfGot, lfSub>>

\* filter_changes_impl, first step: the latest block is read ...
ReadLatest ==
    /\ lfFilter.kind # "none"
    /\ lfPoll = NoPoll
    /\ lfPoll' = Latest
    /\ UNCHANGED <<lfStore, lfFilter, lfGot, lfNext, lfPending, lfSub>>

\* ... and the range of a log filter is resolved: its own from and to, which
\* default to the latest block.
ResolveRange(q) == IF q.from = 0 THEN RangeOf(Latest, Latest + 1) ELSE RangeOf(q.from, Latest + 1)

Changes(start, latest) ==
    CASE lfFilter.kind = "block" -> OkLogs([i \in 1..(latest - start + 1) |-> <<start + i - 1, 0>>])
      [] lfFilter.kind = "pending" -> OkLogs([i \in 1..lfPending |-> <<0, i>>])
      [] OTHER -> LET r == ResolveRange(lfFilter.query) IN GetLogsInBlockRange(lfFilter.query, r.from, r.to - 1)

\* Second step: registry.advance, unless there is no block since the last poll
\* (the poll is then not even recorded), and the changes.
MutPoll ==
    LET latest == lfPoll IN
    /\ lfPoll # NoPoll
    /\ lfPoll' = NoPoll
    /\ IF lfFilter.kind = "none" \/ lfFilter.block > latest
       THEN UNCHANGED <<lfFilter, lfGot, lfNext, lfPending>>
       ELSE LET r == Changes(lfFilter.block, latest) IN
            /\ lfFilter' = [lfFilter EXCEPT !.block = latest, !.age = 0, !.idle = 0]
            /\ lfGot' = lfGot \o r.logs /\ lfNext' = latest + 1
            /\ UNCHANGED lfPending
    /\ UNCHANGED <<lfStore, lfSub>>

Poll ==
    LET latest == lfPoll IN
    /\ lfPoll # NoPoll
    /\ lfPoll' = NoPoll
    /\ IF lfFilter.kind = "none" \/ lfFilter.block > latest
       THEN /\ lfFilter' = IF lfFilter.kind = "none" THEN lfFilter ELSE [lfFilter EXCEPT !.idle = 0]
            /\ UNCHANGED <<lfGot, lfNext, lfPending>>
       ELSE LET r == Changes(lfFilter.block, latest) IN
            /\ lfFilter' = [lfFilter EXCEPT !.block = latest + 1, !.age = 0, !.idle = 0]
            /\ lfGot' = IF r.ok THEN lfGot \o r.logs ELSE lfGot
            /\ lfNext' = latest + 1
            /\ lfPending' = IF lfFilter.kind = "pending" THEN 0 ELSE lfPending
    /\ UNCHANGED <<lfStore, lfSub>>

\* The mempool's listener of a pending filter.
PendingTransaction ==
    /\ lfFilter.kind = "pending"
    /\ lfPending < LfMaxPending
    /\ lfPending' = lfPending + 1
    /\ UNCHANGED <<lfStore, lfFilter, lfPoll, lfGot, lfNext, lfSub>>

UninstallFilter ==
    /\ lfFilter.kind # "none"
    /\ lfFilter' = NoFilter
    /\ UNCHANGED <<lfStore, lfPoll, lfGot, lfNext, lfPending, lfSub>>

\* Time: half of stale_filter_ttl passes.  idle is the time since a poll, age the
\* time since the poll the registry recorded.
TimePasses ==
    /\ lfFilter.kind # "none" /\ lfFilter.age < 2
    /\ lfFilter' = [lfFilter EXCEPT !.age = @ + 1, !.idle = @ + 1]
    /\ UNCHANGED <<lfStore, lfPoll, lfGot, lfNext, lfPending, lfSub>>

\* clear_stale: a filter whose recorded poll is stale_filter_ttl old goes.
ClearStale ==
    /\ lfFilter.kind # "none" /\ lfFilter.age >= 2
    /\ lfFilter' = NoFilter
    /\ UNCHANGED <<lfStore, lfPoll, lfGot, lfNext, lfPending, lfSub>>

-----------------------------------------------------------------------------
(* Subscriptions (eth_pubsub_impl.rs). *)

Subscribe ==
    /\ lfClient = "subscription" /\ ~lfSub.open
    /\ lfSub' = [NoSub EXCEPT !.open = TRUE]
    /\ UNCHANGED <<lfStore, lfRegistry>>

\* pipe_from_stream: the next notification; an overrun receiver skips.
SendNotification ==
    /\ lfSub.open /\ lfSub.queue # << >>
    /\ lfSub' = [lfSub EXCEPT !.queue = Tail(@), !.sent = Append(@, Head(lfSub.queue))]
    /\ UNCHANGED <<lfStore, lfRegistry>>

CloseSubscription ==
    /\ lfSub.open
    /\ lfSub' = NoSub
    /\ UNCHANGED <<lfStore, lfRegistry>>

FiltersNext ==
    \/ \E block \in LfContents : AddBlock(block)
    \/ WriteBlockIndex
    \/ \E keep \in 0..Latest : RollbackIndex(keep)
    \/ \E kind \in {"block", "pending"} : InstallFilter(kind, NoFilter.query)
    \/ \E q \in LfQueries : InstallFilter("log", q)
    \/ ReadLatest \/ Poll \/ PendingTransaction \/ UninstallFilter \/ TimePasses \/ ClearStale
    \/ Subscribe \/ SendNotification \/ CloseSubscription

-----------------------------------------------------------------------------
(* Properties. *)

\* The logs of a range, read from the receipts.
AllLogs(q, from, to) ==
    LET block(n) == CollectMatchingLogs(q, n)
    IN  FoldLeft(LAMBDA acc, n : acc \o block(n), << >>, [i \in 1..(to - from + 1) |-> from + i - 1])

\* eth_getLogs is exact whatever the index covers: for every filter and every
\* range of existing blocks, in any state of the index (blocks written before it,
\* blocks still in memory, blocks rolled back and written again with other
\* contents), scan_logs either returns all the matching logs of the range and
\* nothing else, or fails, and then the range it proposes holds no more than
\* max_logs_per_response logs.
ScanExact ==
    lfClient = "scan" => \A q \in LfQueries, from \in 0..Latest : \A to \in from..Latest :
        LET r == ScanLogs(q, from, to)
        IN  IF r.ok THEN r.logs = AllLogs(q, from, to)
            ELSE Len(AllLogs(q, from, r.retry.to - 1)) <= LfMaxLogs

\* A block filter reports every block from its installation on exactly once and in
\* order, whatever is produced between the two steps of a poll
\* (filter_changes_impl, FilterRegistry::advance).
BlockFilterReportsOnce ==
    lfFilter.kind = "block" =>
        lfGot = [i \in 1..Len(lfGot) |-> <<lfNext - Len(lfGot) + i - 1, 0>>]

\* What lib/rpc_api/src/filter.rs says of eth_getFilterChanges, "Returns all filter
\* changes since last poll": a log filter with no block range has reported the
\* matching logs of every block its polls have passed.
ChangesSinceLastPoll ==
    lfFilter.kind = "log" /\ lfFilter.query.from = 0 =>
        \A n \in lfFilter.since..(lfNext - 1) :
            Range(CollectMatchingLogs(lfFilter.query, n)) \subseteq Range(lfGot)

\* What registry.rs says of clear_stale, "Evicts filters that have not been polled
\* within `stale_filter_ttl`": a filter it evicts was not polled for that long.
PolledFilterKept == [][ClearStale => lfFilter.idle >= 2]_lfVars
===============================================================================
