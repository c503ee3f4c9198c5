---------------------------- MODULE MCContainers ----------------------------
(***************************************************************************)
(* One instance of the containers of the SDK: the two kinds of list and    *)
(* the buffers.  They share no variable, so one of them runs at a time     *)
(* while the others rest: TLC explores the sum of their states, not the    *)
(* product.                                                                *)
(***************************************************************************)
EXTENDS SlistSystem, DlistSystem, MCBuf

VARIABLE part  \* the component that runs

MCVars == <<slistVars, dlistVars, vars, part>>

MCInit ==
  /\ part \in {"slist", "dlist", "buf"}
  /\ SlistInit /\ DlistInit /\ Init
  /\ part # "buf" => mem = [i \in 0 .. Size - 1 |-> 0] /\ Empty

\* The bound on the calls on a buffer is reached.
CallsMade == calls = MaxCalls /\ UNCHANGED vars

MCNext ==
  /\ \/ /\ part = "slist" /\ SlistNext
        /\ UNCHANGED <<dlistVars, vars>>
     \/ /\ part = "dlist" /\ DlistNext
        /\ UNCHANGED <<slistVars, vars>>
     \/ /\ part = "buf" /\ (Next \/ CallsMade)
        /\ UNCHANGED <<slistVars, dlistVars>>
  /\ UNCHANGED part

MCSpec == MCInit /\ [][MCNext]_MCVars
=============================================================================
