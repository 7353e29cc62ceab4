-------------------------- MODULE MCLangGraphAdapter --------------------------
(* Graphs, routers and inputs for TLC. *)
EXTENDS LangGraphAdapter

Graph(nodes, edges) == [nodes |-> nodes, edges |-> edges]

\* A diamond with a way past the join, and a loop back to one of its branches.
Diamond ==
    Graph({"triage", "quick", "deep", "report"},
          {<<START, "triage">>, <<"triage", "quick">>, <<"triage", "deep">>,
           <<"quick", "report">>, <<"quick", END>>, <<"deep", "report">>,
           <<"report", "deep">>, <<"report", END>>})

\* The same branches in a line.
Line ==
    Graph({"triage", "deep", "report"},
          {<<START, "triage">>, <<"triage", "deep">>, <<"deep", "report">>,
           <<"report", END>>})

\* Work that is checked, and repeated or assigned anew.
Retry ==
    Graph({"intake", "assign", "work", "check"},
          {<<START, "intake">>, <<"intake", "assign">>, <<"assign", "work">>,
           <<"work", "check">>, <<"check", "work">>, <<"check", "assign">>,
           <<"check", END>>})

Names == <<"assign", "check", "deep", "intake", "quick", "report", "triage", "work">>

Times(node, findings) == Cardinality({i \in DOMAIN findings : findings[i] = node})

\* The routers of the nodes with several edges; the goal "again" goes once
\* round the loop.
RouterOf(graph, node, goal, findings) ==
    CASE Cardinality({e \in graph.edges : e[1] = node}) = 1 ->
            (CHOOSE e \in graph.edges : e[1] = node)[2]
      [] graph = Diamond /\ node = "triage" ->
            IF goal = "check" THEN "quick" ELSE "deep"
      [] graph = Diamond /\ node = "quick" -> IF goal = "check" THEN "report" ELSE END
      [] graph = Diamond /\ node = "report" ->
            IF goal = "again" /\ Times("report", findings) = 1 THEN "deep" ELSE END
      [] graph = Retry /\ node = "check" ->
            IF Times("check", findings) = 1 THEN "assign" ELSE END

\* Hosts without a goal only go on with what others began.
ReviewGoals == [a |-> {"check", "again"}, b |-> {}, c |-> {}]
RetryGoals == [a |-> {"ship"}, b |-> {}]

ReviewGraphs == [a |-> Diamond, b |-> Diamond, c |-> Line]
RetryGraphs == [a |-> Retry, b |-> Retry]
=============================================================================
