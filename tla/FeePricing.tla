------------------------------ MODULE FeePricing ------------------------------
(***************************************************************************)
(* What the fee parameters of a block are made of: the gas adjuster        *)
(* (lib/gas_adjuster) samples the fees of L1 and the fill of the node's    *)
(* blobs; the base token price updater (lib/base_token_adjuster) fetches   *)
(* token prices, publishes them to the sequencer and keeps the ratio in    *)
(* the L1 contract near them; the fee provider                             *)
(* (lib/sequencer/src/execution/fee_provider.rs) turns both into the       *)
(* prices of the next block, limited by the block before it.               *)
(* Prices are small integers: USD per base unit of a token, scaled.        *)
(***************************************************************************)
EXTENDS Integers, Sequences, FiniteSets, FiniteSetsExt, SequencesExt

CONSTANTS
    FeBlobs,          \* PubdataMode::Blobs; otherwise Calldata
    FeL1Fees,         \* fees an L1 block may have
    FePrices,         \* prices the external API may return
    FeFallback,       \* fallback_prices: a price, or 0 when not configured
    FeNativeUsd,      \* native_price_usd, in the same scale
    FeMaxSamples,     \* max_base_fee_samples, also for the fill ratios
    FeChunk,          \* FEE_HISTORY_MAX_REQUEST_CHUNK
    FeCap,            \* pubdata_price_cap, 0 when not configured
    FeNativePerByte,  \* NATIVE_PER_BLOB_BYTE
    FeDeviation,      \* l1_update_deviation_percentage
    FeAttempts,       \* price_fetching_max_attempts
    FeFills,          \* bytes a sidecar of FeBlobSize bytes may hold
    FeBlobSize,
    FeMaxL1, FeMaxBlocks, FeMaxSidecars, FeMaxFaults   \* bounds (faults: reorgs and restarts)

VARIABLES
    feL1,             \* fee of each L1 block
    feStats,          \* GasStatistics: samples, median, last (last_processed_block)
    fePubdata,        \* pubdata_price channel, -1 while empty
    feSidecars,       \* sidecars sent by the batcher, in bytes
    feFill,           \* Statistics of the fill ratios: samples and the published median, -1 if none
    fePrice,          \* prices published to the sequencer, 0 while empty
    feFetch,          \* the updater's iteration: failed attempts, and the price being written to L1
    feKnown,          \* last_l1_ratio: the ratio the updater believes is on L1
    feOnL1,           \* the ratio on L1, and the one before it
    fePrevious,       \* previous_block_fee_params, a record or NoParams
    feChain,          \* fee parameters of the blocks of the chain
    feReplayed,       \* blocks of the chain the node has applied since its start
    feFaults          \* late or undone updates (reorgs), restarts and sidecars so far

feVars == <<feL1, feStats, fePubdata, feSidecars, feFill, fePrice, feFetch, feKnown, feOnL1,
            fePrevious, feChain, feReplayed, feFaults>>
feGas == <<feL1, feStats, fePubdata, feSidecars, feFill>>
feTokens == <<fePrice, feFetch, feKnown, feOnL1>>
feSequencer == <<fePrevious, feChain, feReplayed>>

NoParams == [native |-> -1, pubdata |-> -1]
Idle == [attempt |-> 0, writing |-> 0]

CeilDiv(a, b) == (a + b - 1) \div b

\* select_nth_unstable(len / 2): the upper median.
MedianOf(samples) ==
    LET n == Len(samples)
    IN  CHOOSE v \in Range(samples) :
            /\ Cardinality({i \in 1..n : samples[i] < v}) <= n \div 2
            /\ Cardinality({i \in 1..n : samples[i] <= v}) > n \div 2

LastN(samples, n) == IF Len(samples) <= n THEN samples ELSE SubSeq(samples, Len(samples) - n + 1, Len(samples))

-----------------------------------------------------------------------------
(* Gas adjuster. *)

\* base_fee_history: the fees of blocks from..upto, asked for in chunks.  A chunk
\* starts every FeChunk blocks and runs to its start + FeChunk.
BaseFeeHistory(fees, upto, count) ==
    LET from   == Max({1, upto - (count - 1)})
        starts == {b \in from..upto : (b - from) % FeChunk = 0}
        chunk(s) == LET end == Min({s + FeChunk, upto}) IN [i \in 1..(end - s + 1) |-> fees[s + i - 1]]
    IN  FoldLeft(LAMBDA acc, s : acc \o chunk(s), << >>, SetToSortSeq(starts, LAMBDA a, b : a < b))

\* GasStatistics::add_samples
AddSamples(stats, fees) ==
    LET samples == LastN(stats.samples \o fees, FeMaxSamples)
    IN  [samples |-> samples,
         median  |-> IF samples = << >> THEN stats.median ELSE MedianOf(samples),
         last    |-> stats.last + Len(fees)]

\* pubdata_price: the blob fee, or 17 times the gas price (here once).
PubdataPrice(stats) == stats.median

\* The state of GasAdjuster::new, from the fee history up to the block before the head.
NewStats(l1) ==
    LET current == Len(l1) - 1
        fees    == BaseFeeHistory(l1, current, FeMaxSamples)
    IN  [AddSamples([samples |-> << >>, median |-> 0, last |-> 0], fees) EXCEPT !.last = current]

MineFees(fee) ==
    /\ Len(feL1) < FeMaxL1
    /\ feL1' = Append(feL1, fee)
    /\ UNCHANGED <<feStats, fePubdata, feSidecars, feFill, feTokens, feSequencer, feFaults>>

\* update_fees
UpdateFees ==
    LET current == Len(feL1) - 1
        stats   == AddSamples(feStats, BaseFeeHistory(feL1, current, current - feStats.last))
    IN
    /\ current > feStats.last
    /\ feStats' = stats
    /\ fePubdata' = PubdataPrice(stats)
    /\ UNCHANGED <<feL1, feSidecars, feFill, feTokens, feSequencer, feFaults>>

SendSidecar(bytes) ==
    /\ feFaults.sidecars < FeMaxSidecars
    /\ feSidecars' = Append(feSidecars, bytes)
    /\ feFaults' = [feFaults EXCEPT !.sidecars = @ + 1]
    /\ UNCHANGED <<feL1, feStats, fePubdata, feFill, feTokens, feSequencer>>

\* update_blob_fill_ratios: drain the sidecars; the median of the last ones is published.
UpdateBlobFillRatios ==
    /\ feSidecars # << >>
    /\ LET samples == LastN(feFill.samples \o feSidecars, FeMaxSamples)
       IN  feFill' = [samples |-> samples, median |-> MedianOf(samples)]
    /\ feSidecars' = << >>
    /\ UNCHANGED <<feL1, feStats, fePubdata, feTokens, feSequencer, feFaults>>

-----------------------------------------------------------------------------
(* Base token price updater.  The settlement token and ETH have price 1.   *)

\* run: an iteration that failed publishes the fallback prices if none were.
PublishFallback == fePrice' = IF fePrice = 0 THEN FeFallback ELSE fePrice

\* retry_fetch_ratio: an attempt fails; the last one fails the iteration.
FetchFails ==
    /\ feFetch.writing = 0
    /\ IF feFetch.attempt + 1 < FeAttempts
       THEN feFetch' = [feFetch EXCEPT !.attempt = @ + 1] /\ UNCHANGED fePrice
       ELSE feFetch' = Idle /\ PublishFallback
    /\ UNCHANGED <<feGas, feKnown, feOnL1, feSequencer, feFaults>>

\* maybe_update_l1_ratio sends a transaction when the deviation reaches the threshold.
Deviates(new, old) == (IF new > old THEN new - old ELSE old - new) * 100 >= FeDeviation * old

FetchPrices(price) ==
    /\ feFetch.writing = 0
    /\ fePrice' = price
    /\ feFetch' = IF Deviates(price, feKnown) THEN [attempt |-> 0, writing |-> price] ELSE Idle
    /\ UNCHANGED <<feGas, feKnown, feOnL1, feSequencer, feFaults>>

\* The transaction is included and its receipt seen.
MutRatioIncluded ==
    /\ feFetch.writing # 0
    /\ feOnL1' = [now |-> feFetch.writing, before |-> feOnL1.now]
    /\ feFetch' = Idle
    /\ UNCHANGED <<feGas, fePrice, feKnown, feSequencer, feFaults>>

RatioIncluded ==
    /\ feFetch.writing # 0
    /\ feOnL1' = [now |-> feFetch.writing, before |-> feOnL1.now]
    /\ feKnown' = feFetch.writing
    /\ feFetch' = Idle
    /\ UNCHANGED <<feGas, fePrice, feSequencer, feFaults>>

\* It reverts, cannot be sent or is not included in time: the iteration fails and
\* what is believed of L1 stays.
RatioFails ==
    /\ feFetch.writing # 0
    /\ feFetch' = Idle
    /\ PublishFallback
    /\ UNCHANGED <<feGas, feKnown, feOnL1, feSequencer, feFaults>>

\* It is included after the 300 seconds the updater waits for its receipt.
RatioIncludedLate ==
    /\ feFetch.writing # 0 /\ feFaults.reorgs + feFaults.restarts < FeMaxFaults
    /\ feOnL1' = [now |-> feFetch.writing, before |-> feOnL1.now]
    /\ feFaults' = [feFaults EXCEPT !.reorgs = @ + 1]
    /\ feFetch' = Idle
    /\ PublishFallback
    /\ UNCHANGED <<feGas, feKnown, feSequencer>>

\* One confirmation is awaited: the block of the last update may be reorganised away.
ReorgRatio ==
    /\ feFaults.reorgs + feFaults.restarts < FeMaxFaults
    /\ feFetch.writing = 0 /\ feOnL1.before # 0
    /\ feOnL1' = [now |-> feOnL1.before, before |-> 0]
    /\ feFaults' = [feFaults EXCEPT !.reorgs = @ + 1]
    /\ UNCHANGED <<feGas, fePrice, feFetch, feKnown, feSequencer>>

-----------------------------------------------------------------------------
(* Fee provider. *)

DesiredNative(price) == CeilDiv(FeNativeUsd, price)

\* calculate_native_price: within an eighth of the previous block, at least 1 up.
MutCalculateNativePrice(price) ==
    LET desired == DesiredNative(price)
        p       == fePrevious.native
    IN  IF fePrevious = NoParams THEN desired
        ELSE Max({p - (p \div 8) - 1, Min({desired, p + Max({p \div 8, 1})})})

CalculateNativePrice(price) ==
    LET desired == DesiredNative(price)
        p       == fePrevious.native
    IN  IF fePrevious = NoParams THEN desired
        ELSE Max({p - (p \div 8), Min({desired, p + Max({p \div 8, 1})})})

\* calculate_pubdata_price: in base token units, with the cost of proving and of the
\* unused part of a blob, at most half above the previous block, capped.
DesiredPubdata(price, native) ==
    LET base == CeilDiv(fePubdata, price)
        fill == IF feFill.median = -1 THEN [n |-> 1, d |-> 2] ELSE [n |-> feFill.median, d |-> FeBlobSize]
    IN  IF FeBlobs THEN ((base + native * FeNativePerByte) * fill.d) \div fill.n ELSE base

CalculatePubdataPrice(price, native) ==
    LET desired == DesiredPubdata(price, native)
        p       == fePrevious.pubdata
        limited == IF fePrevious = NoParams THEN desired ELSE Min({desired, p + Max({p \div 2, 1})})
    IN  IF FeCap # 0 THEN Min({limited, FeCap}) ELSE limited

\* produce_fee_params waits for the prices; the block is executed and
\* on_canonical_state_change remembers its parameters.
ProduceFeeParams ==
    LET native == CalculateNativePrice(fePrice)
        params == [native |-> native, pubdata |-> CalculatePubdataPrice(fePrice, native)]
    IN
    /\ fePrice # 0
    /\ feReplayed = Len(feChain) /\ Len(feChain) < FeMaxBlocks
    /\ feChain' = Append(feChain, params)
    /\ feReplayed' = feReplayed + 1
    /\ fePrevious' = params
    /\ UNCHANGED <<feGas, feTokens, feFaults>>

\* on_canonical_state_change of a replayed block.
MutReplayFees ==
    /\ feReplayed < Len(feChain)
    /\ feReplayed' = feReplayed + 1
    /\ UNCHANGED <<feGas, feTokens, feChain, fePrevious, feFaults>>

ReplayFees ==
    /\ feReplayed < Len(feChain)
    /\ feReplayed' = feReplayed + 1
    /\ fePrevious' = feChain[feReplayed + 1]
    /\ UNCHANGED <<feGas, feTokens, feChain, feFaults>>

\* A restart replays at least the last block; the watch channels are empty again and
\* the ratio is read from L1.
RestartFees ==
    /\ feFaults.reorgs + feFaults.restarts < FeMaxFaults
    /\ feFaults' = [feFaults EXCEPT !.restarts = @ + 1]
    /\ feStats' = NewStats(feL1) /\ fePubdata' = PubdataPrice(NewStats(feL1))
    /\ feSidecars' = << >> /\ feFill' = [samples |-> << >>, median |-> -1]
    /\ fePrice' = 0 /\ feFetch' = Idle /\ feKnown' = feOnL1.now
    /\ fePrevious' = NoParams
    /\ feReplayed' = IF feChain = << >> THEN 0 ELSE Len(feChain) - 1
    /\ UNCHANGED <<feL1, feOnL1, feChain>>

FeesInit ==
    /\ \E a, b \in FeL1Fees : feL1 = <<a, b>>
    /\ feStats = NewStats(feL1) /\ fePubdata = PubdataPrice(NewStats(feL1))
    /\ feSidecars = << >> /\ feFill = [samples |-> << >>, median |-> -1]
    /\ fePrice = 0 /\ feFetch = Idle
    /\ \E p \in FePrices : feKnown = p /\ feOnL1 = [now |-> p, before |-> 0]
    /\ fePrevious = NoParams /\ feChain = << >> /\ feReplayed = 0
    /\ feFaults = [reorgs |-> 0, restarts |-> 0, sidecars |-> 0]

FeesNext ==
    \/ \E fee \in FeL1Fees : MineFees(fee)
    \/ UpdateFees
    \/ \E bytes \in FeFills : SendSidecar(bytes)
    \/ UpdateBlobFillRatios
    \/ FetchFails
    \/ \E price \in FePrices : FetchPrices(price)
    \/ RatioIncluded \/ RatioFails \/ RatioIncludedLate \/ ReorgRatio
    \/ ProduceFeeParams \/ ReplayFees \/ RestartFees

-----------------------------------------------------------------------------
(* Properties. *)

\* Between consecutive blocks the native price moves by at most an eighth (one unit
\* for small prices) and the pubdata price grows by at most a half, also when the node
\* restarted between them with nothing but the replayed blocks to know the last
\* prices from, and whatever the prices and L1 fees did meanwhile.
FeesSteady ==
    \A i \in 1..(Len(feChain) - 1) :
        LET a == feChain[i]
            b == feChain[i + 1]
        IN  /\ b.native >= a.native - (a.native \div 8)
            /\ b.native <= a.native + Max({a.native \div 8, 1})
            /\ b.pubdata <= a.pubdata + Max({a.pubdata \div 2, 1})

\* After an iteration that wrote nothing because the deviation is small, the ratio of
\* L1 is within the deviation of the published price, unless L1 included an
\* update after its timeout or undid one.
RatioTracksPrice ==
    [][\A p \in FePrices :
          FetchPrices(p) /\ feFetch' = Idle /\ feFaults.reorgs = 0 => ~Deviates(p, feOnL1.now)]_feVars

\* lib/base_token_adjuster/src/lib.rs says of a reorganised update that "it can be sent
\* on the next iteration if still needed".
ReorgedRatioResent ==
    [][\A p \in FePrices : FetchPrices(p) /\ feFetch' = Idle => ~Deviates(p, feOnL1.now)]_feVars

\* lib/gas_adjuster/src/lib.rs says of base_fee_history "Returns 1 value for each block
\* in range".
OneValuePerBlock ==
    \A upto \in 1..Len(feL1) : \A count \in 1..upto : Len(BaseFeeHistory(feL1, upto, count)) = count
===============================================================================
