---------------------------- MODULE DurableChain ----------------------------
(***************************************************************************)
(* What the chainstate promises: the coins and the bind records it answers *)
(* with are a function of the active chain alone, whatever reorganisations,*)
(* flushes and crashes led to it, and a node that comes back after a crash *)
(* is on a chain it had saved, with that chain's coins.                    *)
(***************************************************************************)
EXTENDS Naturals, Sequences

CONSTANT StateOf(_)   \* the answers for a chain

VARIABLES chain,   \* the active chain
          utxo,    \* the answer for every outpoint: its coin and its bind record
          saved,   \* the chain a restart comes back to
          up       \* the node is running

dvars == <<chain, utxo, saved, up>>

DInit ==
  /\ chain = << >>
  /\ utxo = StateOf(<< >>)
  /\ saved = << >>
  /\ up = TRUE

DExtend ==
  /\ up
  /\ Len(chain') = Len(chain) + 1
  /\ SubSeq(chain', 1, Len(chain)) = chain
  /\ utxo' = StateOf(chain')
  /\ UNCHANGED <<saved, up>>

DShorten ==
  /\ up /\ chain # << >>
  /\ chain' = SubSeq(chain, 1, Len(chain) - 1)
  /\ utxo' = StateOf(chain')
  /\ UNCHANGED <<saved, up>>

DSave ==
  /\ up
  /\ saved' = chain
  /\ UNCHANGED <<chain, utxo, up>>

DCrash ==
  /\ up' = FALSE
  /\ chain' = << >>
  /\ utxo' = StateOf(<< >>)
  /\ UNCHANGED saved

DRecover ==
  /\ ~up
  /\ up' = TRUE
  /\ chain' = saved
  /\ utxo' = StateOf(saved)
  /\ UNCHANGED saved

DNext == DExtend \/ DShorten \/ DSave \/ DCrash \/ DRecover

DSpec == DInit /\ [][DNext]_dvars
=============================================================================
