---------------------------- MODULE MCChainState ----------------------------
(* ChainState for TLC *)
EXTENDS ChainState

CONSTANTS BindOutpoints,   \* outpoints whose transaction carries a bind payload
          BindStart        \* the payload is read from this height on

MCCoin == [height: 1..MaxHeight, point: Point]
MCBindCoin(o, c) == o \in BindOutpoints /\ c.height >= BindStart
=============================================================================
