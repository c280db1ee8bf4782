----------------------------- MODULE MCDataPath -----------------------------
(***************************************************************************)
(* The components of the request path that share no state, side by side: a *)
(* behaviour exercises one of them, chosen at the start, and the others    *)
(* stay as constructed.                                                    *)
(***************************************************************************)
EXTENDS Routing, TokenBucket, AliasTable, P2Estimator, SseFramer,
        BinaryHeapTimers, Http1Parser

VARIABLE part

\* Bodies that share a prefix, and one too short to route by.
MCBodies == {<<>>, <<1>>, <<1, 2>>}

MCWeightVectors == UNION {[1..k -> 1..5] : k \in 1..3}

\* Whole lines and pieces of lines, with both line endings.
MCChunks ==
    {<<Data, "x", LF>>, <<Data>>, <<"x">>, <<LF>>, <<CR, LF>>,
     <<Data, Space, Done, LF, LF>>, <<Colon, LF>>}

\* Requests, and callers of check(), run the same code; they are the same
\* model values, each in its own part.
Symmetry == Permutations(Requests)

MCInit ==
    /\ part \in {"routing", "bucket", "alias", "estimator", "sse", "timers", "http1"}
    /\ RoutingInit /\ Init /\ AliasInit /\ P2Init /\ SseInit /\ TimersInit /\ Http1Init

MCNext ==
    /\ UNCHANGED part
    /\ \/ /\ part = "routing" /\ RoutingNext
          /\ UNCHANGED <<vars, aliasVars, p2Vars, sseVars, timerVars, http1Vars>>
       \/ /\ part = "bucket" /\ Next
          /\ UNCHANGED <<routingVars, aliasVars, p2Vars, sseVars, timerVars, http1Vars>>
       \/ /\ part = "alias" /\ AliasNext
          /\ UNCHANGED <<routingVars, vars, p2Vars, sseVars, timerVars, http1Vars>>
       \/ /\ part = "estimator" /\ P2Next
          /\ UNCHANGED <<routingVars, vars, aliasVars, sseVars, timerVars, http1Vars>>
       \/ /\ part = "sse" /\ SseNext
          /\ UNCHANGED <<routingVars, vars, aliasVars, p2Vars, timerVars, http1Vars>>
       \/ /\ part = "timers" /\ TimersNext
          /\ UNCHANGED <<routingVars, vars, aliasVars, p2Vars, sseVars, http1Vars>>
       \/ /\ part = "http1" /\ Http1Next
          /\ UNCHANGED <<routingVars, vars, aliasVars, p2Vars, sseVars, timerVars>>

MCSpec ==
    MCInit /\ [][MCNext]_<<part, routingVars, vars, aliasVars, p2Vars, sseVars,
                           timerVars, http1Vars>>

=============================================================================
