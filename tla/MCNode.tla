------------------------------- MODULE MCNode -------------------------------
(***************************************************************************)
(* The components of a node that share no state, checked together: part     *)
(* says which of them moves in a behaviour, so that their state spaces add   *)
(* up instead of being multiplied.  The others stay in one initial state.   *)
(***************************************************************************)
EXTENDS MCNetPol, MCBgpPeers, MCTail, MCAgent

VARIABLE part

Parts == {"netpol", "peers", "vips", "tail", "agent"}
Moves(p) == part = p

AnyOf(S) == CHOOSE x \in S : TRUE

\* The proxy begins with the firewall on; a restart may switch it off.  The stores
\* begin with one of the worlds that differ in their pods, or with the refused block if
\* one family is switched on alone; the change goes to any other world.
NodeInit ==
    /\ part \in Parts
    /\ NpInit /\ BgInit /\ AdInit /\ PtInit /\ AgInit
    /\ npStore \in IF Len(npFams) = 2 THEN {"before", "after"} ELSE {"whole"}
    /\ ~Moves("netpol") => npStore = "whole" /\ ~npDeny /\ npFams = <<4>>
    /\ ~Moves("peers") => bgCfg = AnyOf(BgConfigs) /\ bgStore = AnyOf(DOMAIN BgWorlds)
    /\ ~Moves("vips") => adCfg = AnyOf(AdConfigs) /\ adStore = AnyOf(DOMAIN AdWorlds)
    /\ ~ptCfg.permitAll /\ (~Moves("tail") => ptStore = AnyOf(DOMAIN PtWorlds))
    /\ ~Moves("agent") => agCfg = AnyOf(AgConfigs)

NodeNext ==
    /\ UNCHANGED part
    /\ \/ Moves("netpol") /\ NpNext /\ UNCHANGED <<bgVars, adVars, ptVars, agVars>>
       \/ Moves("peers") /\ BgNext /\ UNCHANGED <<npVars, adVars, ptVars, agVars>>
       \/ Moves("vips") /\ AdNext /\ UNCHANGED <<npVars, bgVars, ptVars, agVars>>
       \/ Moves("tail") /\ PtNext /\ UNCHANGED <<npVars, bgVars, adVars, agVars>>
       \/ Moves("agent") /\ AgNext /\ UNCHANGED <<npVars, bgVars, adVars, ptVars>>

nodeVars == <<part, npVars, bgVars, adVars, ptVars, agVars>>

\* NpFairness and AgFairness, for the behaviours in which the component moves.
NodeFairness ==
    /\ WF_npVars(Moves("netpol") /\ NpTick)
    /\ WF_npVars(Moves("netpol") /\ (NpRestoreSet \/ NpRestoreFilter \/ NpEnsureJump \/ NpFail))
    /\ WF_agVars(Moves("agent") /\ AgTime)
    /\ WF_agVars(Moves("agent") /\ (LoopMoves \/ StartMoves))
    /\ WF_agVars(Moves("agent") /\ EndMoves)
    /\ SF_agVars(Moves("agent") /\ \E c \in Loops : AgLoopStops(c))

NodeSpec == NodeInit /\ [][NodeNext]_nodeVars /\ NodeFairness
=============================================================================
