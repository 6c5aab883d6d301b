---------------------------- MODULE MCCoinsViews ----------------------------
(***************************************************************************)
(* CoinsViews with an outpoint that pays the burn account and one whose    *)
(* transaction carries a bind payload that is active only below BindEnd.   *)
(* The heights 1..MaxHeight give a bind coin before BHDIP007Height, one    *)
(* from it on, and a height at which the payload is not read.              *)
(***************************************************************************)
EXTENDS CoinsViews

CONSTANTS BindOutpoints, BindEnd, MaxHeight

MCCoin == [height: 1..MaxHeight]
MCBindCoin(o, c) == o \in BindOutpoints /\ c.height < BindEnd
=============================================================================
