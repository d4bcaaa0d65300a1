-------------------------- MODULE ReplicatedLedger --------------------------
(***************************************************************************)
(* What the consensus nodes promise together: one canonical chain that     *)
(* only grows, every block on top of the previous one, and on every node   *)
(* a ledger that takes the blocks of that chain one after the other and    *)
(* never gives one up.                                                     *)
(***************************************************************************)
EXTENDS Integers, Sequences

CONSTANTS Nodes, Payloads

VARIABLES
    chain,   \* canonical blocks; a block is the sequence of payloads up to it
    ledger   \* ledger[n] is what node n has made durable

vars == <<chain, ledger>>

Init == chain = << >> /\ ledger = [n \in Nodes |-> << >>]

Tip == IF chain = << >> THEN << >> ELSE chain[Len(chain)]

Canonize ==
    /\ \E p \in Payloads : chain' = Append(chain, Append(Tip, p))
    /\ UNCHANGED ledger

Persist(n) ==
    /\ Len(ledger[n]) < Len(chain)
    /\ ledger' = [ledger EXCEPT ![n] = Append(@, chain[Len(@) + 1])]
    /\ UNCHANGED chain

Next == Canonize \/ \E n \in Nodes : Persist(n)

Spec == Init /\ [][Next]_vars
=============================================================================
