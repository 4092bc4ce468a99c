---------------------------- MODULE MCTokenCalls -----------------------------
(***************************************************************************)
(* Instances of Transport and TokenSource for TLC: in a behaviour either   *)
(* the calls of MCTransport run, or the same callers ask one token source, *)
(* whose tokens live longer than the margin, as long, or shorter.          *)
(***************************************************************************)
EXTENDS MCTransport, TokenSource

VARIABLE asks

MCLives == {1, 2, 4}

MCInit ==
    /\ asks \in BOOLEAN /\ TransportInit /\ TokenInit
    /\ asks => \A c \in Calls : call[c].path = "do" /\ ~call[c].write
MCNext ==
    /\ UNCHANGED asks
    /\ \/ ~asks /\ TransportNext /\ UNCHANGED tokenVars
       \/ asks /\ TokenNext /\ UNCHANGED transportVars
MCSpec == MCInit /\ [][MCNext]_<<asks, transportVars, tokenVars>>
=============================================================================
