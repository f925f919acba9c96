-------------------------------- MODULE Chain --------------------------------
(***************************************************************************)
(* The Ethereum chain as the RPC provider reports it: a growing sequence of *)
(* blocks whose unfinalized suffix may be replaced.  It is not part of the  *)
(* program; the queries below are the ones src/chain makes of it.           *)
(*                                                                         *)
(* A block carries the balances after it and the tokens each address had    *)
(* moved in it.  Its hash is its height and the branch it was mined on:     *)
(* that identifies the block and, as on the real chain, all below it.       *)
(***************************************************************************)
EXTENDS BalanceMap, Sequences, FiniteSets, FiniteSetsExt

CONSTANTS Origin,       \* the cursor the first snapshot was taken at
          MaxBlock,     \* bound: the chain stops growing here
          MaxBalance,   \* bound: balances are in 0 .. MaxBalance
          MaxTouched,   \* bound: modelled addresses moved by one block
          MaxReorgs,    \* bound: reorganisations in a behaviour
          FinalityLag   \* a block this deep below the head is final

ASSUME ChainAssumption ==
    /\ {Origin, MaxBlock, MaxBalance, MaxTouched, MaxReorgs, FinalityLag} \subseteq Nat
    /\ Origin > 0

VARIABLES chain,   \* the canonical blocks, chain[n] being block n
          final,   \* height of the finalized block
          branch   \* number of the current branch

chainVars == <<chain, final, branch>>

Block == [branch : Nat, touch : [Addr -> SUBSET Token], balance : [Addr -> Reading]]
NoHash == <<0, 0>>        \* Option::None for a block hash

Height == Len(chain)
HashAt(n) == IF n \in 1..Height THEN <<n, chain[n].branch>> ELSE NoHash
BalanceAt(n) == chain[n].balance

(* Per address, the last block of lo..hi whose logs moved the token.        *)
LastTouch(a, t, lo, hi) ==
    LET moved == {n \in lo..hi : n <= Height /\ t \in chain[n].touch[a]}
    IN  IF moved = {} THEN 0 ELSE Max(moved)
SeenIn(lo, hi) == [a \in Addr |-> [t \in Token |-> LastTouch(a, t, lo, hi)]]

ChainInit ==
    \E start \in [Addr -> [Token -> 0..MaxBalance]] :
        /\ chain = [n \in 1..Origin |->
                      [branch |-> 1, touch |-> [a \in Addr |-> {}], balance |-> start]]
        /\ final = Origin
        /\ branch = 1

(* A new block: a balance only changes together with a watched event.       *)
Mine ==
    /\ Height < MaxBlock
    /\ \E touch \in [Addr -> SUBSET Token], bal \in [Addr -> [Token -> 0..MaxBalance]] :
          /\ Cardinality({a \in Addr : touch[a] # {}}) <= MaxTouched
          /\ \A a \in Addr, t \in Token :
                t \notin touch[a] => bal[a][t] = BalanceAt(Height)[a][t]
          /\ chain' = Append(chain, [branch |-> branch, touch |-> touch, balance |-> bal])
    /\ final' = IF Height + 1 >= final + FinalityLag THEN Height + 1 - FinalityLag ELSE final
    /\ UNCHANGED branch

(* The node switches branch: it drops an unfinalized suffix and goes on     *)
(* mining from there.                                                       *)
Reorg ==
    /\ branch <= MaxReorgs
    /\ \E h \in final..(Height - 1) : chain' = SubSeq(chain, 1, h)
    /\ branch' = branch + 1
    /\ UNCHANGED final

ChainNext == Mine \/ Reorg

ChainTypeOK ==
    /\ chain \in Seq(Block)
    /\ final \in 1..Height
    /\ branch \in Nat \ {0}
===============================================================================
