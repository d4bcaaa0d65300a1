--------------------------- MODULE CallSimulation ---------------------------
(***************************************************************************)
(* The two RPC methods that run the VM several times for one answer:       *)
(* eth_estimateGas, a search for a gas limit (lib/rpc/src/                 *)
(* eth_call_handler.rs and call_fees.rs, also used by eth_fillTransaction),*)
(* and eth_simulateV1, a chain of blocks that were never built             *)
(* (lib/rpc/src/simulate.rs).                                              *)
(*                                                                         *)
(* What a transaction does at a gas limit is the VM's business (external): *)
(* it succeeds on an arbitrary set of limits, not necessarily upwards      *)
(* closed, since a contract may look at the gas it has left.               *)
(***************************************************************************)
EXTENDS Integers, Sequences, SequencesExt, FiniteSets, FiniteSetsExt

CONSTANTS
  CsBlockGas,   \* gas limit of a block
  CsIntrinsic,  \* gas below which a transaction is out of gas in validation
  CsStipend,    \* GAS_STIPEND
  CsRatio,      \* 1 / ESTIMATE_GAS_ERROR_RATIO
  CsFloor,      \* L1_TX_MINIMAL_GAS_LIMIT
  CsNeeds,      \* gas transactions need
  CsBalances,   \* balances of the sender
  CsBaseFee,    \* base fee of the block
  CsWindow,     \* 256: block hashes a context holds
  CsParent,     \* the block a simulation starts from
  CsMaxBlocks,  \* MAX_SIMULATE_BLOCKS
  CsCallGas     \* eth_call_gas: default gas of a simulated call

VARIABLES
  csEst,   \* the estimation under way
  csSim    \* the simulation under way

csVars == <<csEst, csSim>>

None == -1
Or(x, default) == IF x = None THEN default ELSE x
Lesser(a, b) == IF a < b THEN a ELSE b
Greater(a, b) == IF a < b THEN b ELSE a

-----------------------------------------------------------------------------
(* CallFees::ensure_fees.                                                  *)

NoFees == [err |-> TRUE, price |-> 0, tip |-> None]
Fees(price, tip) == [err |-> FALSE, price |-> price, tip |-> tip]

\* Legacy requests keep their own price, relaxed or not.
EnsureFees(gasPrice, maxFee, maxTip, baseFee, relax) ==
  IF maxFee = None /\ maxTip = None THEN Fees(Or(gasPrice, 0), None)
  ELSE IF gasPrice # None THEN NoFees
  ELSE LET tip == Or(maxTip, 0)
       IN IF Or(maxFee, 0) = 0
            THEN IF maxFee = 0 /\ tip > 0 THEN Fees(baseFee + tip, maxTip)
                 ELSE Fees(IF tip = 0 THEN 0 ELSE baseFee + tip, maxTip)
          ELSE IF (~relax /\ maxFee < baseFee) \/ maxFee < tip THEN NoFees
          ELSE Fees(Lesser(maxFee, baseFee + tip), maxTip)

-----------------------------------------------------------------------------
(* eth_estimateGas.                                                        *)

\* Outcome of the transaction of request r at a gas limit (the VM).
Outcome(r, gas) ==
  IF gas < CsIntrinsic THEN "outOfGas"
  ELSE IF gas * r.price + r.value > r.balance THEN "invalid"
  ELSE IF gas >= r.need /\ gas # r.hole THEN "success"
  ELSE "revert"

Requests ==
  [gas : {None, 9, CsBlockGas}, gasPrice : {None, CsBaseFee, CsBaseFee + 1},
   maxFee : {None, CsBaseFee + 1}, maxTip : {None, 1}, value : {0, 1},
   l1 : BOOLEAN, need : CsNeeds, used : {CsIntrinsic, 7}, hole : {None, 11},
   balance : CsBalances, policy : {"off", "allow", "deny"}]

\* A policy client is only asked about L2 transactions, and a transaction does
\* not use more gas than it needs.
PlausibleRequest(r) == r.used <= r.need /\ (r.l1 => r.policy = "off")

NoEstimate == [pc |-> "idle", req |-> [need |-> 0], lowest |-> 0, highest |-> 0, mid |-> 0]

\* max_gas_from_balance: what is left after the value, over the base fee.
MaxGasFromBalance(r) == (r.balance - r.value) \div CsBaseFee

\* build_estimate_tx.
BuildEstimateTx(r) ==
  LET wanted == Lesser(Or(r.gas, CsBlockGas), CsBlockGas)
      fees == EnsureFees(r.gasPrice, r.maxFee, r.maxTip, CsBaseFee, TRUE)
      paying == Or(r.gasPrice, Or(r.maxFee, 0)) > 0
  IN [err |-> fees.err \/ (paying /\ r.balance < r.value),
      gas |-> IF paying THEN Lesser(wanted, MaxGasFromBalance(r)) ELSE wanted,
      price |-> fees.price]

\* The first run, at the highest limit: an invalid or reverted one ends it.
StartEstimate ==
  /\ csEst.pc = "idle"
  /\ \E r \in {q \in Requests : PlausibleRequest(q)} :
       LET tx == BuildEstimateTx(r)
           req == [r EXCEPT !.balance = IF r.l1 THEN 1000 ELSE @] @@ [price |-> tx.price]
           lowest == r.used - 1
       IN csEst' =
            IF tx.err \/ Outcome(req, tx.gas) # "success"
              THEN [NoEstimate EXCEPT !.pc = "error", !.req = req, !.highest = tx.gas]
              ELSE [pc |-> "optimistic", req |-> req, mid |-> 0,
                    lowest |-> IF r.l1 THEN Greater(lowest, CsFloor) ELSE lowest,
                    highest |-> IF r.l1 THEN Greater(tx.gas, CsFloor) ELSE tx.gas]
  /\ UNCHANGED csSim

\* GasRange::apply_probe.
MutApplyProbe(est, gas) ==
  CASE Outcome(est.req, gas) \in {"outOfGas", "revert"} -> [est EXCEPT !.lowest = gas]
    [] Outcome(est.req, gas) = "success" -> [est EXCEPT !.highest = gas - 1]
    [] OTHER -> [est EXCEPT !.pc = "error"]

ApplyProbe(est, gas) ==
  CASE Outcome(est.req, gas) \in {"outOfGas", "revert"} -> [est EXCEPT !.lowest = gas]
    [] Outcome(est.req, gas) = "success" -> [est EXCEPT !.highest = gas]
    [] OTHER -> [est EXCEPT !.pc = "error"]

NarrowEnough(est) == (est.highest - est.lowest) * CsRatio < est.highest

Midpoint(est) == (est.lowest + est.highest) \div 2

\* The optimistic probe, then the first midpoint, biased to three times the
\* lowest limit.
OptimisticProbe ==
  /\ csEst.pc = "optimistic"
  /\ LET gas == ((csEst.req.used + CsStipend) * 64) \div 63
         inside == csEst.lowest < gas /\ gas < csEst.highest
         probed == IF inside THEN ApplyProbe(csEst, gas) ELSE csEst
     IN csEst' = IF probed.pc = "error" THEN probed
                 ELSE [probed EXCEPT !.pc = "search",
                         !.mid = Lesser(probed.lowest * 3, Midpoint(probed))]
  /\ UNCHANGED csSim

Search ==
  /\ csEst.pc = "search"
  /\ ~NarrowEnough(csEst)
  /\ LET probed == ApplyProbe(csEst, csEst.mid)
     IN csEst' = [probed EXCEPT !.mid = Midpoint(probed)]
  /\ UNCHANGED csSim

\* With a policy client the answer is executed once more under its validator.
FinishEstimate ==
  /\ csEst.pc = "search"
  /\ NarrowEnough(csEst)
  /\ csEst' = [csEst EXCEPT !.mid = 0, !.pc = IF csEst.req.policy = "deny" THEN "error" ELSE "done"]
  /\ UNCHANGED csSim

\* set_gas_limit mints what an L1 transaction's limit costs, so its sender can
\* always pay; Outcome sees that as a large balance.

-----------------------------------------------------------------------------
(* eth_simulateV1.  Hashes: a real block's hash is its number, the hash of *)
(* the k-th simulated block 100 + k, and zero is 0.  The state is one slot *)
(* and the sender's nonce.                                                 *)

Calls == [gas : {None, 3}, nonce : {None, 1}]
BlockOverrides == [number : {None, CsParent, CsParent + 2, CsParent + 4},
                   time : {None, 2, 3}, slot : {None, 5}, hashOf : {None, CsParent},
                   calls : {<<>>} \cup {<<c>> : c \in Calls} \cup {<<c, d>> : c, d \in Calls}]

\* BlockHashes: the last CsWindow hashes, the parent's last.
RealHashes == [i \in 1 .. CsWindow |-> Greater(CsParent - CsWindow + i, 0)]

Rotated(hashes, hash) == Append(Tail(hashes), hash)

\* copy_within and fill: the hashes of skipped blocks are zero.
Skipped(hashes, k) ==
  [i \in 1 .. CsWindow |-> IF i + k <= CsWindow THEN hashes[i + k] ELSE 0]

\* block_hashes whose entry for block n was overridden by hash 7.
WithHashOf(hashes, number, n) ==
  IF n < Greater(number - CsWindow, 0) \/ n >= number THEN hashes
  ELSE [hashes EXCEPT ![CsWindow + 1 - (number - n)] = 7]

\* apply_simulate_block_overrides.
ApplyOverrides(ctx, o, prevNumber, prevTime) ==
  IF (o.number # None /\ o.number <= prevNumber) \/ (o.time # None /\ o.time <= prevTime)
    THEN [ctx EXCEPT !.err = TRUE]
    ELSE LET number == Or(o.number, ctx.number)
             skipped == IF number > ctx.number THEN Skipped(ctx.hashes, number - ctx.number)
                        ELSE ctx.hashes
         IN [err |-> FALSE, number |-> number, time |-> Or(o.time, ctx.time),
             hashes |-> IF o.hashOf = None THEN skipped
                        ELSE WithHashOf(skipped, number, o.hashOf)]

\* next_block_context.
MutNextBlockContext(ctx, hash) ==
  [ctx EXCEPT !.number = @ + 1, !.time = @ + 1, !.hashes = [@ EXCEPT ![CsWindow] = hash]]

NextBlockContext(ctx, hash) ==
  [ctx EXCEPT !.number = @ + 1, !.time = @ + 1, !.hashes = Rotated(@, hash)]

\* simulation_default_gas_limit; None when the block's gas is exceeded.
DefaultGas(calls) ==
  LET specified == FoldLeft(LAMBDA sum, c : sum + Or(c.gas, 0), 0, calls)
      without == Len(SelectSeq(calls, LAMBDA c : c.gas = None))
  IN IF specified > CsBlockGas THEN None
     ELSE IF without = 0 THEN 0
     ELSE Lesser((CsBlockGas - specified) \div without, CsCallGas)

\* create_simulation_txs: missing nonces continue from the state's, or from an
\* explicit one that is not stale.
FillNonces(calls, stateNonce) ==
  LET step(acc, c) ==
        IF c.nonce # None
          THEN [txs |-> Append(acc.txs, c.nonce), next |-> Greater(acc.next, c.nonce + 1)]
          ELSE [txs |-> Append(acc.txs, acc.next), next |-> acc.next + 1]
  IN FoldLeft(step, [txs |-> <<>>, next |-> stateNonce], calls)

\* The VM accepts a transaction whose nonce is the account's.
Run(nonces, slot, nonce) ==
  FoldLeft(LAMBDA acc, n : IF n = acc.nonce
                             THEN [nonce |-> n + 1, slot |-> acc.slot + 1, ok |-> Append(acc.ok, TRUE)]
                             ELSE [acc EXCEPT !.ok = Append(@, FALSE)],
           [nonce |-> nonce, slot |-> slot, ok |-> <<>>], nonces)

NoSimulation == [pc |-> "idle", blocks |-> <<>>, ctx |-> [err |-> FALSE, number |-> 0, time |-> 0, hashes |-> <<>>],
                 prevNumber |-> 0, prevTime |-> 0, slot |-> 0, nonce |-> 0]

\* resolve_simulation_start_context for a past block.
StartSimulation ==
  /\ csSim.pc = "idle"
  /\ csSim' = [NoSimulation EXCEPT
                 !.pc = "running",
                 !.ctx = [err |-> FALSE, number |-> CsParent + 1, time |-> 2, hashes |-> RealHashes],
                 !.prevNumber = CsParent, !.prevTime = 1]
  /\ UNCHANGED csEst

\* One block of block_state_calls: its context, its state overrides, its calls,
\* and the overlay the next one starts from.
SimulateBlock ==
  /\ csSim.pc = "running"
  /\ Len(csSim.blocks) < CsMaxBlocks
  /\ \E o \in BlockOverrides :
       LET ctx == ApplyOverrides(csSim.ctx, o, csSim.prevNumber, csSim.prevTime)
           slot == Or(o.slot, csSim.slot)
           gas == DefaultGas(o.calls)
           nonces == FillNonces(o.calls, csSim.nonce).txs
           after == Run(nonces, slot, csSim.nonce)
           block == [number |-> ctx.number, time |-> ctx.time, hashes |-> ctx.hashes,
                     start |-> slot, slot |-> after.slot, set |-> o.slot, over |-> o.hashOf,
                     gas |-> FoldLeft(LAMBDA sum, c : sum + Or(c.gas, gas), 0, o.calls),
                     auto |-> \A i \in 1 .. Len(o.calls) : o.calls[i].nonce = None,
                     ok |-> after.ok]
       IN csSim' = IF ctx.err \/ gas = None THEN [csSim EXCEPT !.pc = "error"]
                   ELSE [csSim EXCEPT
                           !.blocks = Append(@, block),
                           !.ctx = NextBlockContext(ctx, 101 + Len(csSim.blocks)),
                           !.prevNumber = ctx.number, !.prevTime = ctx.time,
                           !.slot = after.slot, !.nonce = after.nonce]
  /\ UNCHANGED csEst

-----------------------------------------------------------------------------
SimulationInit == csEst = NoEstimate /\ csSim = NoSimulation

\* The methods share nothing; a behaviour makes one call of one of them.
SimulationNext ==
  \/ csSim.pc = "idle" /\ StartEstimate
  \/ OptimisticProbe \/ Search \/ FinishEstimate
  \/ csEst.pc = "idle" /\ StartSimulation
  \/ SimulateBlock

SimulationSpec ==
  SimulationInit /\ [][SimulationNext]_csVars /\ WF_csVars(Search) /\ WF_csVars(FinishEstimate)

-----------------------------------------------------------------------------
(* Properties.                                                             *)

\* eth_estimateGas only answers with a limit at which the transaction was seen
\* to succeed, even when success is not monotone in gas (or with the L1 floor,
\* which is not executed); and some limit within the error ratio below it fails
\* or is less than the gas the transaction uses.
EstimateSucceeds ==
  csEst.pc = "done" =>
    /\ Outcome(csEst.req, csEst.highest) = "success" \/ (csEst.req.l1 /\ csEst.highest = CsFloor)
    /\ NarrowEnough(csEst)
    /\ \/ Outcome(csEst.req, csEst.lowest) # "success"
       \/ csEst.lowest < csEst.req.used
       \/ csEst.req.l1 /\ csEst.lowest = CsFloor

\* The binary search ends: a gas limit is at least the intrinsic gas, so the
\* error ratio is reached before the range is down to one unit.
EstimateEnds == (csEst.pc = "search") ~> (csEst.pc \in {"done", "error"})

\* The blocks of eth_simulateV1 form a chain: numbers grow, so do timestamps,
\* a block starts from the state the previous one left unless it overrides it,
\* and BLOCKHASH sees the hash of each simulated predecessor at its number,
\* real ones before, and zero where numbers were skipped.
SimulatedBlocksChain ==
  LET bs == csSim.blocks
      HashAt(k, n) ==
        IF n = bs[k].over /\ n < bs[k].number THEN {7}
        ELSE IF \E j \in 1 .. k - 1 : bs[j].number = n
          THEN {100 + CHOOSE j \in 1 .. k - 1 : bs[j].number = n}
        ELSE IF n <= CsParent THEN {n, 7} ELSE {0}
  IN \A k \in 1 .. Len(bs) :
       /\ k > 1 => /\ bs[k].number > bs[k - 1].number
                   /\ bs[k].time > bs[k - 1].time
                   /\ bs[k].start = Or(bs[k].set, bs[k - 1].slot)
       /\ bs[k].gas <= CsBlockGas
       /\ \A d \in 1 .. CsWindow :
            bs[k].number - d > 0 => bs[k].hashes[CsWindow + 1 - d] \in HashAt(k, bs[k].number - d)
       /\ bs[k].auto => \A i \in 1 .. Len(bs[k].ok) : bs[k].ok[i]

\* build_estimate_tx gives the first run a limit the sender can pay: max_gas_
\* from_balance "Returns how much gas the sender can afford".
EstimateAffordable ==
  csEst.pc = "error" /\ csEst.highest >= CsIntrinsic /\ csEst.req.balance >= csEst.req.value
      /\ Or(csEst.req.gasPrice, Or(csEst.req.maxFee, 0)) > 0
    => Outcome(csEst.req, csEst.highest) # "invalid"

=============================================================================
