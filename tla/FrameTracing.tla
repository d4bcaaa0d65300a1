---------------------------- MODULE FrameTracing ----------------------------
(***************************************************************************)
(* The tracers that observe the VM through the EvmTracer callbacks:        *)
(*   ct  CallTracer of debug_trace* (lib/rpc/src/sandbox.rs),              *)
(*   js  JsTracer with its state overlays (lib/rpc/src/js_tracer/),        *)
(*   pt  the policy tracer (lib/tx_validators/src/policy_client/tracer.rs),*)
(*   df  the deployment filter (lib/tx_validators/src/deployment_filter.rs)*)
(*                                                                         *)
(* The VM is external: vm is what really happens (its storage, its call    *)
(* stack, the tree of calls of the transaction) and every action is one    *)
(* of its callbacks, or two that always follow each other.  One contract   *)
(* with one storage slot stands for the state; a call is a tree node.      *)
(***************************************************************************)
EXTENDS Integers, Sequences, SequencesExt

CONSTANTS
  FtMaxTxs,     \* bound: transactions of the traced block
  FtMaxFrames,  \* bound: calls of one transaction
  FtMaxDepth,   \* bound: depth of the call stack
  FtMaxWrites,  \* bound: storage writes of one transaction
  FtValues,     \* values of the storage slot, 0 included
  FtTransient,  \* whether contracts use transient storage
  FtAllowed     \* whether the transactions' origin may deploy contracts

VARIABLES vm, ct, js, pt, df

ftVars == <<vm, ct, js, pt, df>>

\* A call: what it is, whether it carries an error, and the calls it made.
Node(kind) == [kind |-> kind, err |-> FALSE, calls |-> <<>>]

AddCall(stack, node) ==
  [stack EXCEPT ![Len(stack)] = [@ EXCEPT !.calls = Append(@, node)]]

SetErr(stack) == [stack EXCEPT ![Len(stack)] = [@ EXCEPT !.err = TRUE]]

Created(kind) == kind \in {"CREATE", "CREATE2"}

-----------------------------------------------------------------------------
(* OverlayState: an overlay entry remembers whether it was committed and   *)
(* the value it replaced; the journal remembers the entry before a change. *)

NoValue == -1
NoEntry == [value |-> NoValue, committed |-> FALSE, previous |-> NoValue]
Pending(v) == [value |-> v, committed |-> FALSE, previous |-> NoValue]

Keys == {"slot", "code", "destruct"}

Put(o, key, entry) ==
  [o EXCEPT !.map[key] = entry,
            !.journal = Append(@, [key |-> key, before |-> o.map[key]])]

\* on_storage_write: an occupied entry always remembers its last value.
PutSlot(o, v) ==
  LET e == o.map["slot"] IN
  Put(o, "slot", IF e = NoEntry THEN Pending(v)
                 ELSE [value |-> v, committed |-> FALSE, previous |-> e.value])

\* on_bytecode_change: an occupied entry remembers the committed value only.
PutCode(o, v) ==
  LET e == o.map["code"] IN
  Put(o, "code", IF e = NoEntry THEN Pending(v)
                 ELSE [value |-> v, committed |-> FALSE,
                       previous |-> IF e.committed /\ e.previous = NoValue
                                    THEN e.value ELSE e.previous])

\* mark_contract_deployed (bit 1) and on_selfdestruct (bit 2) of the
\* self-destruct overlay.
Bits(v) == IF v = NoValue THEN {} ELSE {b \in {1, 2} : (v \div b) % 2 = 1}
Mark(o, bit) ==
  LET e == o.map["destruct"] IN
  Put(o, "destruct", IF e = NoEntry THEN Pending(bit)
                     ELSE [e EXCEPT !.value = IF bit \in Bits(@) THEN @ ELSE @ + bit])

\* Mutant: a failed call's changes stay in the overlay.
MutRevertTo(o, checkpoint) ==
  [o EXCEPT !.journal = SubSeq(@, 1, checkpoint)]

\* revert_to_checkpoint: undo the journal from its end.
RevertTo(o, checkpoint) ==
  [o EXCEPT !.map = FoldLeft(LAMBDA m, a : [m EXCEPT ![a.key] = a.before], @,
                             Reverse(SubSeq(o.journal, checkpoint + 1, Len(o.journal)))),
            !.journal = SubSeq(@, 1, checkpoint)]

Commit(o) ==
  [o EXCEPT !.map = [k \in Keys |-> IF o.map[k] = NoEntry \/ o.map[k].committed THEN o.map[k]
                                    ELSE [value |-> o.map[k].value, committed |-> TRUE,
                                          previous |-> NoValue]]]

Rollback(o) ==
  [o EXCEPT !.map = [k \in Keys |->
     LET e == o.map[k] IN
     IF e = NoEntry \/ e.committed THEN e
     ELSE IF e.previous = NoValue THEN NoEntry
     ELSE [value |-> e.previous, committed |-> TRUE, previous |-> NoValue]]]

\* apply_pending_selfdestructs: a contract deployed and destroyed in the same
\* transaction leaves the overlays.
ApplySelfdestructs(o) ==
  LET gone == Bits(o.map["destruct"].value) = {1, 2} IN
  [o EXCEPT !.map = [k \in Keys |->
     IF k = "destruct" \/ gone THEN NoEntry ELSE o.map[k]]]

ClearJournal(o) == [o EXCEPT !.journal = <<>>]

\* host_get_state, host_get_code: the overlay over the state before the block.
HostGet(key) ==
  IF js.map[key] # NoEntry THEN js.map[key].value ELSE vm.before[key]

-----------------------------------------------------------------------------
(* JsTracer's callbacks.                                                   *)

JsBegin ==
  ClearJournal([js EXCEPT !.frames = <<>>, !.roots = <<>>, !.txFailed = FALSE])

JsEnter(o, kind) ==
  [o EXCEPT !.frames = Append(@, [kind |-> kind, checkpoint |-> Len(o.journal)])]

JsExit(o, failed) ==
  LET frame == Last(o.frames)
      back  == IF failed THEN RevertTo(o, frame.checkpoint) ELSE o
      rest  == Front(o.frames)
  IN [back EXCEPT !.frames = rest,
                  !.roots = IF rest = <<>> THEN Append(@, frame.kind) ELSE @,
                  !.txFailed = @ \/ (rest = <<>> /\ failed)]

\* on_call_error: whatever the depth of the call that failed.
JsCallError(o) == [o EXCEPT !.txFailed = TRUE]

\* without_ignored_roots: the bootloader's own calls are left out, unless
\* there is nothing else.
KeptRoots(roots, ignored) ==
  LET kept == SelectSeq(roots, LAMBDA r : r \notin ignored) IN
  IF kept = <<>> THEN roots ELSE kept

\* finish_tx: an error or a missing root rolls back; so does a failed
\* transaction; otherwise self-destructs apply and the overlays commit.
JsFinish ==
  LET roots == KeptRoots(js.roots, {"TRACKER"})
      bad   == js.error # "none" \/ Len(roots) # 1
      done  == IF bad \/ js.txFailed THEN Rollback(js) ELSE Commit(ApplySelfdestructs(js))
  IN [ClearJournal(done) EXCEPT
        !.frames = <<>>, !.roots = <<>>, !.txFailed = FALSE,
        !.error = IF @ = "none" /\ bad THEN "roots" ELSE @,
        !.results = IF bad THEN @ ELSE @ + 1]

\* on_storage_read: the sanity check of the overlay against the VM's value.
JsRead(o, value) ==
  IF o.map["slot"] # NoEntry /\ o.map["slot"].value # value /\ o.error = "none"
  THEN [o EXCEPT !.error = "mismatch"] ELSE o

\* invoke_method, record_error, budget_exceeded: the user's script throws, or the
\* time or memory budget is spent.  The first error stays; the hooks that follow
\* call the script no more.
JsUserError(o) == IF o.error = "none" THEN [o EXCEPT !.error = "script"] ELSE o

-----------------------------------------------------------------------------
(* CallTracer's callbacks.                                                 *)

\* Frames below the top are ignored with only_top_call.
Traced(depth) == ~ct.onlyTop \/ depth = 1

CtBegin == [ct EXCEPT !.depth = 0, !.ok = TRUE, !.finished = <<>>]

CtEnter(c, kind) ==
  [c EXCEPT !.depth = @ + 1,
            !.unfinished = IF Traced(c.depth + 1) THEN Append(@, Node(kind)) ELSE @]

\* Mutant: a finished call always goes to the list of roots.
MutCtExit(c, result) ==
  [c EXCEPT !.depth = @ - 1,
            !.unfinished = IF Traced(c.depth) THEN Front(@) ELSE @,
            !.finished = IF Traced(c.depth) THEN Append(@, Last(c.unfinished)) ELSE @,
            !.ok = @ /\ (c.depth = 1 => result = "ok")]

\* after_execution_frame_completed: a finished call joins its parent or the
\* roots; running out of resources is an error of the top call only.
CtExit(c, result) ==
  LET done == IF result = "none" /\ c.depth = 1 THEN SetErr(c.unfinished) ELSE c.unfinished
      rest == Front(done)
  IN IF ~Traced(c.depth) THEN [c EXCEPT !.depth = @ - 1]
     ELSE [c EXCEPT !.depth = @ - 1,
                    !.unfinished = IF rest = <<>> THEN <<>> ELSE AddCall(rest, Last(done)),
                    !.finished = IF rest = <<>> THEN Append(@, Last(done)) ELSE @,
                    !.ok = @ /\ (c.depth = 1 => result = "ok")]

\* on_opcode_error and on_call_error; after a create request the error belongs
\* to a call that never came to be.
CtError(c, creating) ==
  IF c.onlyTop /\ (c.depth > 1 \/ creating) THEN c
  ELSE [c EXCEPT !.unfinished = SetErr(@)]

CtSelfdestruct(c) ==
  IF Traced(c.depth) THEN [c EXCEPT !.unfinished = AddCall(@, Node("SELFDESTRUCT"))] ELSE c

\* finish_tx and reconcile_trace_with_output: one root, or a frame for a
\* transaction that failed before execution; a success the bootloader turned
\* into a revert is patched.
CtFinish(reverted) ==
  LET roots == KeptRoots(ct.finished, {r \in Range(ct.finished) : r.kind = "TRACKER"})
      frame == IF roots = <<>> THEN [Node("CALL") EXCEPT !.err = TRUE] ELSE roots[1]
      ok    == roots # <<>> /\ ct.ok
  IN [ct EXCEPT !.finished = <<>>,
                !.result = IF ok /\ reverted THEN [frame EXCEPT !.err = TRUE] ELSE frame,
                !.roots = Len(roots)]

-----------------------------------------------------------------------------
(* The policy tracer and the deployment filter.                            *)

PtEnter(p, kind) == [p EXCEPT !.stack = Append(@, Node(kind))]

PtExit(p) ==
  LET done == Last(p.stack) rest == Front(p.stack) IN
  IF rest = <<>> THEN [stack |-> <<>>, root |-> <<done>>]
  ELSE [p EXCEPT !.stack = AddCall(rest, done)]

\* Mutant: the flag of an earlier transaction is not reset.
MutDfBegin == [df EXCEPT !.origin = "unset"]

DfBegin == [origin |-> "unset", flagged |-> FALSE]

\* should_reject, with the origin taken from the first call's caller.
DfEnter(d, kind) ==
  LET origin == IF d.origin # "unset" THEN d.origin
                ELSE IF kind = "TRACKER" THEN "system" ELSE "user"
  IN [origin |-> origin,
      flagged |-> d.flagged \/ (Created(kind) /\ ~(origin = "user" /\ FtAllowed))]

-----------------------------------------------------------------------------
(* The VM.                                                                 *)

TracingInit ==
  /\ \E code \in {0, 1} : \E slot \in (IF code = 0 THEN {0} ELSE FtValues) :
       vm = [store |-> [slot |-> slot, code |-> code], before |-> [slot |-> slot, code |-> code],
             transient |-> 0, started |-> [slot |-> slot, code |-> code],
             stack |-> <<>>, snaps |-> <<>>, roots |-> <<>>, frames |-> 0, writes |-> 0,
             new |-> FALSE, doomed |-> FALSE, exhausted |-> FALSE, txs |-> 0,
             inTx |-> FALSE, failed |-> FALSE, excused |-> FALSE]
  /\ \E onlyTop \in BOOLEAN :
       ct = [depth |-> 0, unfinished |-> <<>>, finished |-> <<>>, ok |-> TRUE,
             result |-> Node("CALL"), roots |-> 1, onlyTop |-> onlyTop]
  /\ js = [map |-> [k \in Keys |-> NoEntry], journal |-> <<>>, frames |-> <<>>, roots |-> <<>>,
           txFailed |-> FALSE, error |-> "none", results |-> 0]
  /\ pt = [stack |-> <<>>, root |-> <<>>]
  /\ df = [origin |-> "unset", flagged |-> FALSE]

Running == vm.inTx /\ vm.stack # <<>>

\* The bootloader's own call is taken to succeed.
OwnCode == Last(vm.stack).kind # "TRACKER"

BeginTx ==
  /\ ~vm.inTx /\ vm.txs < FtMaxTxs
  /\ vm' = [vm EXCEPT !.inTx = TRUE, !.txs = @ + 1, !.frames = 0, !.writes = 0,
                      !.started = vm.store, !.transient = 0, !.roots = <<>>,
                      !.new = FALSE, !.doomed = FALSE, !.exhausted = FALSE]
  /\ ct' = CtBegin
  /\ js' = JsBegin
  /\ pt' = [stack |-> <<>>, root |-> <<>>]
  /\ df' = DfBegin

\* The transaction's own root comes first, the bootloader's after it; code must
\* exist to be called and must not to be created.
CanEnter(kind) ==
  /\ vm.inTx /\ ~vm.exhausted
  /\ vm.frames < FtMaxFrames /\ Len(vm.stack) < FtMaxDepth
  /\ vm.stack = <<>> => (kind = "TRACKER") = (vm.roots # <<>>) /\ Len(vm.roots) < 2
  /\ vm.stack # <<>> => kind # "TRACKER" /\ Last(vm.stack).kind # "TRACKER"
  /\ Created(kind) => vm.store.code = 0 /\ ~\E i \in DOMAIN vm.stack : Created(vm.stack[i].kind)
  /\ kind = "CREATE2" => vm.stack # <<>>

Snapshot == [store |-> vm.store, transient |-> vm.transient, new |-> vm.new, doomed |-> vm.doomed]

VmEnter(kind) ==
  [vm EXCEPT !.frames = @ + 1, !.stack = Append(@, Node(kind)), !.snaps = Append(@, Snapshot)]

\* A failed call's effects are undone.  Its node carries the EVM's error; a lack
\* of resources is the whole transaction's.
VmExit(v, result) ==
  LET snap == Last(v.snaps)
      back == IF result = "ok" THEN v
              ELSE [v EXCEPT !.store = snap.store, !.transient = snap.transient,
                             !.new = snap.new, !.doomed = snap.doomed]
      rest == Front(v.stack)
      done == [Last(v.stack) EXCEPT !.err = result = "failed" \/ (result = "none" /\ rest = <<>>)]
  IN [back EXCEPT !.snaps = Front(@),
                  !.stack = IF rest = <<>> THEN <<>> ELSE AddCall(rest, done),
                  !.roots = IF rest = <<>> THEN Append(@, done) ELSE @]

\* on_create_request, where there is one, and on_new_execution_frame.
Enter(kind) ==
  /\ CanEnter(kind)
  /\ vm' = VmEnter(kind)
  /\ ct' = CtEnter(ct, kind)
  /\ js' = JsEnter(js, kind)
  /\ pt' = PtEnter(pt, kind)
  /\ df' = DfEnter(df, kind)

\* A call that fails before its first opcode: on_new_execution_frame,
\* on_call_error, after_execution_frame_completed.
EnterCallError(kind) ==
  /\ CanEnter(kind)
  /\ vm' = [VmExit(VmEnter(kind), "failed") EXCEPT !.excused = @ \/ vm.stack # <<>>]
  /\ ct' = CtExit(CtError(CtEnter(ct, kind), FALSE), "failed")
  /\ js' = JsExit(JsCallError(JsEnter(js, kind)), TRUE)
  /\ pt' = PtExit(PtEnter(pt, kind))
  /\ df' = DfEnter(df, kind)

\* The call returns.  A constructor's success is preceded by
\* on_bytecode_change.
ExitOk ==
  /\ Running /\ ~vm.exhausted
  /\ LET creates == Created(Last(vm.stack).kind)
         deployed == [vm EXCEPT !.store.code = 1, !.new = TRUE]
         js1 == IF creates THEN PutCode(Mark(js, 1), 1) ELSE js
     IN /\ vm' = VmExit(IF creates THEN deployed ELSE vm, "ok")
        /\ js' = JsExit(js1, FALSE)
  /\ ct' = CtExit(ct, "ok")
  /\ pt' = PtExit(pt)
  /\ UNCHANGED df

\* An opcode fails (a revert included) and the call ends; the opcode may be a
\* CREATE whose request was announced.
ExitError(creating) ==
  /\ Running /\ ~vm.exhausted /\ OwnCode
  /\ vm' = VmExit(vm, "failed")
  /\ ct' = CtExit(CtError(ct, creating), "failed")
  /\ js' = JsExit(js, TRUE)
  /\ pt' = PtExit(pt)
  /\ UNCHANGED df

\* Out of execution resources: no call of the stack has a result.
ExitNone ==
  /\ Running /\ OwnCode
  /\ vm' = VmExit([vm EXCEPT !.exhausted = TRUE], "none")
  /\ ct' = CtExit(ct, "none")
  /\ js' = JsExit(js, TRUE)
  /\ pt' = PtExit(pt)
  /\ UNCHANGED df

\* SSTORE and TSTORE reach the same callback.
Write(v, isTransient) ==
  /\ Running /\ ~vm.exhausted /\ vm.writes < FtMaxWrites
  /\ OwnCode
  /\ isTransient => FtTransient
  /\ vm.store.code = 1 \/ Created(Last(vm.stack).kind)
  /\ vm' = IF isTransient THEN [vm EXCEPT !.transient = v, !.writes = @ + 1, !.excused = TRUE]
           ELSE [vm EXCEPT !.store.slot = v, !.writes = @ + 1]
  /\ js' = PutSlot(js, v)
  /\ UNCHANGED <<ct, pt, df>>

\* SLOAD and TLOAD too.
Read(isTransient) ==
  /\ Running /\ ~vm.exhausted
  /\ OwnCode
  /\ isTransient => FtTransient
  /\ js' = JsRead(js, IF isTransient THEN vm.transient ELSE vm.store.slot)
  /\ UNCHANGED <<vm, ct, pt, df>>

\* A step of the interpreter, as a JS tracer's script sees it.
StepFails ==
  /\ Running /\ ~vm.exhausted
  /\ js.error = "none"
  /\ js' = JsUserError(js)
  /\ UNCHANGED <<vm, ct, pt, df>>

Selfdestruct ==
  /\ Running /\ ~vm.exhausted /\ ~vm.doomed
  /\ OwnCode
  /\ vm.store.code = 1 \/ Created(Last(vm.stack).kind)
  /\ vm' = [vm EXCEPT !.doomed = TRUE, !.stack = AddCall(@, Node("SELFDESTRUCT"))]
  /\ js' = Mark(js, 2)
  /\ ct' = CtSelfdestruct(ct)
  /\ UNCHANGED <<pt, df>>

\* finish_tx.  The bootloader may still revert a transaction whose execution
\* succeeded (it cannot pay for its pubdata).
FinishTx(reverted) ==
  /\ vm.inTx /\ vm.stack = <<>>
  /\ LET ok == vm.roots # <<>> /\ ~vm.roots[1].err
         destroyed == vm.new /\ vm.doomed
     IN /\ reverted => ok
        /\ vm' = [vm EXCEPT
             !.inTx = FALSE, !.failed = reverted \/ ~ok,
             !.excused = @ \/ reverted,
             !.store = IF reverted THEN vm.started
                       ELSE IF destroyed THEN [slot |-> 0, code |-> 0] ELSE @]
  /\ ct' = CtFinish(reverted)
  /\ js' = JsFinish
  /\ UNCHANGED <<pt, df>>

TracingNext ==
  \/ BeginTx
  \/ \E kind \in {"CALL", "CREATE", "CREATE2", "TRACKER"} : Enter(kind)
  \/ \E kind \in {"CALL", "CREATE"} : EnterCallError(kind)
  \/ ExitOk
  \/ \E creating \in BOOLEAN : ExitError(creating)
  \/ ExitNone
  \/ \E v \in FtValues, isTransient \in BOOLEAN : Write(v, isTransient)
  \/ \E isTransient \in BOOLEAN : Read(isTransient)
  \/ StepFails
  \/ Selfdestruct
  \/ \E reverted \in BOOLEAN : FinishTx(reverted)

-----------------------------------------------------------------------------

\* The call tree below a node, with the errors left out.
Deploys(node) == Created(node.kind) \/ \E i \in DOMAIN node.calls : Created(node.calls[i].kind)

Finished == ~vm.inTx /\ vm.txs > 0

\* The trace debug_trace* returns is the transaction's own call tree: every
\* call in its place under its caller, the bootloader's calls left out; with
\* only_top_call just the root; and, in full traces, an error on the root
\* exactly when the transaction failed, whether in the EVM, for lack of
\* resources, before execution or by the bootloader afterwards.
TraceIsCallTree ==
  Finished =>
    /\ ct.roots <= 1
    /\ vm.roots = <<>> => ct.result.err
    /\ vm.roots # <<>> /\ ~ct.onlyTop => ct.result.calls = vm.roots[1].calls
    /\ vm.roots # <<>> => ct.result.kind = vm.roots[1].kind
    /\ ~ct.onlyTop => ct.result.err = vm.failed

\* The policy service judges the calls the transaction really made, and the
\* deployment filter flags exactly the transactions of an origin without
\* permission that try to deploy, whatever earlier transactions did.
ValidatorsSeeTransaction ==
  Finished =>
    /\ Len(vm.roots) = 1 => pt.root # <<>> /\ pt.root[1].kind = vm.roots[1].kind
    /\ pt.stack = <<>>
    /\ df.flagged = (~FtAllowed /\ vm.roots # <<>> /\ Deploys(vm.roots[1]))

\* The state a JS tracer sees through its overlays is the VM's state at every
\* step, inside calls that fail later too.  (Except after three things the
\* overlays do not follow: a nested call that fails before its first opcode,
\* transient storage, and a revert by the bootloader.)
OverlayMatchesVm ==
  ~vm.excused /\ js.error = "none" =>
    HostGet("slot") = vm.store.slot /\ HostGet("code") = vm.store.code

\* The sanity check of on_storage_read never fires.
OverlaySaneOnRead == js.error # "mismatch"
=============================================================================
