---------------------------- MODULE L1LogsCache -----------------------------
(***************************************************************************)
(* The node's view of a settlement layer RPC (lib/provider): the shared    *)
(* header watchers, the cache of recent logs that the L1 watchers read     *)
(* through get_logs, and the search for a contract's deployment block.     *)
(*                                                                         *)
(* A block's hash is the sequence of tags from the first block up to it,   *)
(* so its parent's hash is its prefix; its logs are named by its hash.     *)
(* The chain grows and reorganizes between any two requests.               *)
(***************************************************************************)
EXTENDS Integers, Sequences, SequencesExt

CONSTANTS
  LcTags,        \* block contents that forks tell apart
  LcStart,       \* length of the chain when the provider is built
  LcMaxLen,      \* bound on the length of the chain
  LcMaxReorgs,   \* bound on reorganizations
  LcDepth,       \* blocks a reorganization may replace
  LcCapacity,    \* logs_cache_capacity
  LcDeployed     \* block in which the looked-up contract was deployed

VARIABLES
  lcCaps,       \* ProviderCapabilities
  lcChain,      \* the canonical chain: the hash of its head
  lcReorgs,     \* reorganizations so far
  lcLatest,     \* latest_header_watcher
  lcFinal,      \* finalized_header_watcher
  lcFirst,      \* RecentLogs.first_block, 0 when None
  lcBlocks,     \* RecentLogs.blocks: hashes
  lcSynced,     \* RecentLogs.synced_with_hash
  lcTarget,     \* the header a synchronization works towards, <<>> when none runs
  lcStack,      \* frames of update_block
  lcFloor,      \* its floor
  lcRead,       \* the call of get_logs: "none", "sync" or "read"
  lcAnswer,     \* the last answer [from, blocks, cached]
  lcMixed,      \* history: a header was fetched from a chain that is not the target's
  lcPart,       \* what a behaviour follows: "cache" or "search"
  lcSearch      \* discover_deployment_block: [lo, hi], hi = -1 before it starts

lcVars == <<lcCaps, lcChain, lcReorgs, lcLatest, lcFinal, lcFirst, lcBlocks, lcSynced, lcTarget, lcStack,
            lcFloor, lcRead, lcAnswer, lcMixed, lcPart, lcSearch>>

cacheVars == <<lcFirst, lcBlocks, lcSynced>>
syncVars == <<lcTarget, lcStack, lcFloor>>

NoAnswer == [from |-> 0, blocks |-> <<>>, cached |-> FALSE]

BlockAt(head, n) == SubSeq(head, 1, n)
ParentHash(hash) == Front(hash)

-----------------------------------------------------------------------------
(* The provider.                                                           *)

\* ProviderCapabilities::detect: what the probes of the RPC show.  The chain-id
\* heuristic decides on EIP-7594 when eth_config gives no answer.
Detect(rpc) ==
  [getHeader |-> rpc.header,
   finalizedTag |-> rpc.finalized,
   eip7594 |-> CASE rpc.config = "osaka" -> TRUE
                 [] rpc.config = "older" -> FALSE
                 [] OTHER -> ~rpc.anvil]

Rpcs == [header : BOOLEAN, finalized : BOOLEAN, config : {"osaka", "older", "unknown"}, anvil : BOOLEAN]

FinalizedLen(chain) == IF Len(chain) > LcDepth THEN Len(chain) - LcDepth ELSE 1

\* get_block_number_by_id, through whichever request the RPC knows.
BlockNumberById(caps, chain, id) ==
  CASE id = "finalized" /\ caps.finalizedTag -> FinalizedLen(chain)
    [] OTHER -> Len(chain)

HeaderOf(caps, chain, id) == BlockAt(chain, BlockNumberById(caps, chain, id))

CacheInit ==
  /\ lcPart \in {"cache", "search"}
  /\ \E rpc \in Rpcs : lcCaps = Detect(rpc) /\ (lcPart = "cache" => rpc.header /\ rpc.finalized /\ rpc.config = "osaka")
  /\ lcChain = [i \in 1 .. LcStart |-> CHOOSE t \in LcTags : TRUE]
  /\ lcReorgs = 0
  /\ lcLatest = lcChain
  /\ lcFinal = HeaderOf(lcCaps, lcChain, "finalized")
  /\ lcFirst = 0 /\ lcBlocks = <<>> /\ lcSynced = <<>>
  /\ lcTarget = <<>> /\ lcStack = <<>> /\ lcFloor = 0
  /\ lcRead = "none" /\ lcAnswer = NoAnswer
  /\ lcMixed = FALSE
  /\ lcSearch = [lo |-> 0, hi |-> -1]

\* The settlement layer: a new block, or another tail of the chain.
Extend ==
  /\ Len(lcChain) < LcMaxLen
  /\ \E t \in LcTags : lcChain' = Append(lcChain, t)
  /\ UNCHANGED <<lcCaps, lcReorgs, lcLatest, lcFinal, cacheVars, syncVars, lcRead, lcAnswer, lcMixed, lcPart, lcSearch>>

Reorg ==
  /\ lcReorgs < LcMaxReorgs
  /\ \E d \in 1 .. LcDepth, t \in LcTags :
       /\ d < Len(lcChain)
       /\ t # lcChain[Len(lcChain) - d + 1]
       /\ \E n \in {d - 1, d} \ {0} :
            lcChain' = BlockAt(lcChain, Len(lcChain) - d) \o [i \in 1 .. n |-> t]
  /\ lcReorgs' = lcReorgs + 1
  /\ UNCHANGED <<lcCaps, lcLatest, lcFinal, cacheVars, syncVars, lcRead, lcAnswer, lcMixed, lcPart, lcSearch>>

\* build_header_watcher: a tick that gets an answer.  A failed one changes nothing.
PollLatest ==
  /\ lcLatest # lcChain
  /\ lcLatest' = lcChain
  /\ UNCHANGED <<lcCaps, lcChain, lcReorgs, lcFinal, cacheVars, syncVars, lcRead, lcAnswer, lcMixed, lcPart, lcSearch>>

PollFinalized ==
  /\ lcPart = "search"
  /\ lcFinal # HeaderOf(lcCaps, lcChain, "finalized")
  /\ lcFinal' = HeaderOf(lcCaps, lcChain, "finalized")
  /\ UNCHANGED <<lcCaps, lcChain, lcReorgs, lcLatest, cacheVars, syncVars, lcRead, lcAnswer, lcMixed, lcPart, lcSearch>>

-----------------------------------------------------------------------------
(* RecentLogs.                                                             *)

Latest(first, blocks) == IF blocks = <<>> THEN 0 ELSE first + Len(blocks) - 1

CachedHash(n) ==
  IF lcFirst = 0 \/ n < lcFirst \/ n > Latest(lcFirst, lcBlocks) THEN <<>> ELSE lcBlocks[n - lcFirst + 1]

\* push_head: blocks at or above the new one are reverted, the oldest evicted;
\* ok is FALSE when the numbers would not be contiguous (the reverts remain).
PushHead(number, hash) ==
  LET kept == SelectSeq(lcBlocks, LAMBDA h : Len(h) < number)
      grown == Append(kept, hash)
      first == IF kept = <<>> THEN number ELSE lcFirst
      extra == IF Len(grown) > LcCapacity THEN Len(grown) - LcCapacity ELSE 0
  IN IF kept # <<>> /\ lcFirst + Len(kept) # number
       THEN [ok |-> FALSE, first |-> lcFirst, blocks |-> kept]
       ELSE [ok |-> TRUE, first |-> first + extra, blocks |-> SubSeq(grown, extra + 1, Len(grown))]

ContainsRange(from, to) ==
  /\ lcFirst # 0 /\ lcBlocks # <<>>
  /\ from <= to /\ from >= lcFirst /\ to <= Latest(lcFirst, lcBlocks)

-----------------------------------------------------------------------------
(* LogsCache.  A synchronization holds the write lock from its first       *)
(* request to its last, so calls of get_logs take turns.                   *)

Frame(n, hash) == [number |-> n, header |-> hash, checked |-> FALSE]
Top == lcStack[Len(lcStack)]
Under == Front(lcStack)

\* update_block loads the parent first while it is not cached, so a call for
\* block n opens a frame for each block from n down to one whose parent is.
Enter(stack, n, hint, floor) ==
  LET lowest == CHOOSE m \in floor .. n :
                  /\ m = floor \/ CachedHash(m - 1) # <<>>
                  /\ \A k \in m + 1 .. n : CachedHash(k - 1) = <<>>
  IN stack \o <<Frame(n, hint)>> \o [i \in 1 .. n - lowest |-> Frame(n - i, <<>>)]

MutFloorFor(target) ==
  target

FloorFor(target) ==
  IF lcFirst = 0 THEN target
  ELSE IF target < LcCapacity THEN 1 ELSE target - (LcCapacity - 1)

\* get_logs: synchronize_if_needed.
GetLogs ==
  /\ lcPart = "cache"
  /\ lcRead = "none"
  /\ IF lcSynced = lcLatest
       THEN lcRead' = "read" /\ UNCHANGED syncVars
       ELSE /\ lcRead' = "sync"
            /\ lcTarget' = lcLatest
            /\ lcFloor' = FloorFor(Len(lcLatest))
            /\ lcStack' = Enter(<<>>, Len(lcLatest), lcLatest, lcFloor')
  /\ UNCHANGED <<lcCaps, lcChain, lcReorgs, lcLatest, lcFinal, cacheVars, lcAnswer, lcMixed, lcPart, lcSearch>>

\* The error path of get_logs: the cache starts anew.
ResetCache ==
  /\ lcFirst' = 0 /\ lcBlocks' = <<>> /\ lcSynced' = <<>>
  /\ lcTarget' = <<>> /\ lcStack' = <<>> /\ lcFloor' = 0
  /\ lcRead' = "read"
  /\ lcMixed' = FALSE

\* update_block asks for the header of a block it has no hint for.
FetchHeader ==
  /\ lcRead = "sync" /\ Top.header = <<>>
  /\ IF Top.number <= Len(lcChain)
       THEN /\ lcStack' = Append(Under, Frame(Top.number, BlockAt(lcChain, Top.number)))
            /\ lcMixed' = (lcMixed \/ ~IsPrefix(lcTarget, lcChain))
            /\ UNCHANGED <<cacheVars, lcTarget, lcFloor, lcRead>>
       ELSE ResetCache
  /\ UNCHANGED <<lcCaps, lcChain, lcReorgs, lcLatest, lcFinal, lcAnswer, lcPart, lcSearch>>

\* The cached parent is not the header's parent.
MutParentMismatch(f) ==
  FALSE

ParentMismatch(f) ==
  /\ f.number > lcFloor
  /\ CachedHash(f.number - 1) \notin {<<>>, ParentHash(f.header)}

\* The logs of the header's block; then, once, the reorganization check.
FetchLogs ==
  /\ lcRead = "sync" /\ Top.header # <<>> /\ ~Top.checked
  /\ \/ /\ lcStack' = LET done == Append(Under, [Top EXCEPT !.checked = TRUE])
                      IN IF ParentMismatch(Top) THEN Enter(done, Top.number - 1, <<>>, lcFloor) ELSE done
        /\ UNCHANGED <<cacheVars, lcTarget, lcFloor, lcRead, lcMixed>>
     \/ /\ ~IsPrefix(Top.header, lcChain)   \* an error, or no logs for a block with a bloom
        /\ ResetCache
  /\ UNCHANGED <<lcCaps, lcChain, lcReorgs, lcLatest, lcFinal, lcAnswer, lcPart, lcSearch>>

PushLoaded ==
  /\ lcRead = "sync" /\ Top.checked
  /\ LET pushed == PushHead(Top.number, Top.header)
     IN IF pushed.ok
          THEN /\ lcFirst' = pushed.first /\ lcBlocks' = pushed.blocks
               /\ lcStack' = Under
               /\ UNCHANGED lcMixed
               /\ IF Under = <<>>
                    THEN lcSynced' = lcTarget /\ lcTarget' = <<>> /\ lcRead' = "read"
                    ELSE UNCHANGED <<lcSynced, lcTarget, lcRead>>
               /\ UNCHANGED lcFloor
          ELSE ResetCache
  /\ UNCHANGED <<lcCaps, lcChain, lcReorgs, lcLatest, lcFinal, lcAnswer, lcPart, lcSearch>>

\* The range is served from the cache or by the RPC.
Answer ==
  /\ lcRead = "read"
  /\ \E from \in 1 .. Len(lcLatest) : \E to \in from .. Len(lcLatest) :
       lcAnswer' = IF ContainsRange(from, to)
                     THEN [from |-> from, cached |-> TRUE,
                           blocks |-> SubSeq(lcBlocks, from - lcFirst + 1, to - lcFirst + 1)]
                     ELSE NoAnswer
  /\ lcRead' = "none"
  /\ UNCHANGED <<lcCaps, lcChain, lcReorgs, lcLatest, lcFinal, cacheVars, syncVars, lcMixed, lcPart, lcSearch>>

-----------------------------------------------------------------------------
(* discover_deployment_block: a binary search while the chain grows.       *)

StartSearch ==
  /\ lcPart = "search"
  /\ lcSearch.hi = -1
  /\ lcSearch' = [lo |-> 0, hi |-> IF LcDeployed <= Len(lcChain) THEN Len(lcChain) ELSE 0]
  /\ UNCHANGED <<lcCaps, lcChain, lcReorgs, lcLatest, lcFinal, cacheVars, syncVars, lcRead, lcAnswer, lcMixed, lcPart>>

MutNarrowed(s) ==
  LET mid == (s.lo + s.hi) \div 2
  IN IF mid >= LcDeployed THEN [s EXCEPT !.hi = mid - 1] ELSE [s EXCEPT !.lo = mid + 1]

Narrowed(s) ==
  LET mid == (s.lo + s.hi) \div 2
  IN IF mid >= LcDeployed THEN [s EXCEPT !.hi = mid] ELSE [s EXCEPT !.lo = mid + 1]

SearchStep ==
  /\ lcSearch.lo < lcSearch.hi
  /\ lcSearch' = Narrowed(lcSearch)
  /\ UNCHANGED <<lcCaps, lcChain, lcReorgs, lcLatest, lcFinal, cacheVars, syncVars, lcRead, lcAnswer, lcMixed, lcPart>>

-----------------------------------------------------------------------------
CacheNext ==
  \/ Extend \/ Reorg \/ PollLatest \/ PollFinalized
  \/ GetLogs \/ FetchHeader \/ FetchLogs \/ PushLoaded \/ Answer
  \/ StartSearch \/ SearchStep

-----------------------------------------------------------------------------
(* Properties.                                                             *)

OnChain(n, hash, head) == n <= Len(head) /\ hash = BlockAt(head, n)

\* "The chain head current cache corresponds to": when a synchronization has ended
\* and every header it fetched was of its head's chain, every cached block lies on the chain of the
\* head it synchronized with, however many blocks and reorganizations it skipped,
\* and the head is the newest of them; a range answered from the cache is of that
\* chain.
CacheFollowsHead ==
  lcRead = "read" /\ ~lcMixed /\ lcSynced # <<>> =>
    /\ \A i \in 1 .. Len(lcBlocks) : OnChain(lcFirst + i - 1, lcBlocks[i], lcSynced)
    /\ Latest(lcFirst, lcBlocks) = Len(lcSynced)

\* The same without the proviso: a reorganization during a synchronization does
\* not leave blocks of another fork under the head.
CacheOnOneFork ==
  lcRead = "read" /\ lcSynced # <<>> =>
    \A i \in 1 .. Len(lcBlocks) : OnChain(lcFirst + i - 1, lcBlocks[i], lcSynced)

\* Once the cache is synchronized with the canonical head and that head is what
\* the watcher shows, get_logs answers what the RPC would.
AnswersCanonical ==
  lcAnswer.cached /\ lcRead = "none" /\ lcSynced = lcChain =>
    \A i \in 1 .. Len(lcAnswer.blocks) : OnChain(lcAnswer.from + i - 1, lcAnswer.blocks[i], lcChain)

\* The binary search ends at the deployment block, or at 0 when there is no code.
DeploymentFound ==
  lcSearch.hi # -1 /\ lcSearch.lo >= lcSearch.hi => lcSearch.lo \in {0, LcDeployed}

=============================================================================
