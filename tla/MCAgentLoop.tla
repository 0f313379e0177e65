---------------------------- MODULE MCAgentLoop ----------------------------
EXTENDS AgentLoop

Plain == [policy |-> "trusted", planner |-> FALSE, contract |-> "none", output |-> "none",
          page |-> FALSE, members |-> {}, mobile |-> FALSE, core |-> 1, batches |-> {}, turns |-> 1,
          followUps |-> 0, compactions |-> 0]

\* One task for each feature of the loop, with the calls that concern it.
Planning == [Plain EXCEPT !.policy = "cautious", !.planner = TRUE, !.core = 2, !.turns = 2,
             !.followUps = 1, !.compactions = 1,
             !.batches = {<<"write">>, <<"garbled", "search">>}]
Sending == [Plain EXCEPT !.policy = "cautious", !.contract = "json", !.followUps = 1,
            !.batches = {<<"risky", "risky", "write">>, <<"human", "risky">>}]
Slideshow == [Plain EXCEPT !.contract = "functions", !.output = "slides", !.turns = 2, !.compactions = 1,
              !.batches = {<<"make">>}]
Website == [Plain EXCEPT !.policy = "cautious", !.page = TRUE, !.turns = 2,
            !.batches = {<<"write", "preview">>, <<"visit">>}]
Settling == [Plain EXCEPT !.mobile = TRUE, !.followUps = 1, !.batches = {<<"resolve">>}]
Teamwork == [Plain EXCEPT !.policy = "balanced", !.members = {1, 2}, !.followUps = 1,
             !.batches = {<<"delegate", "write">>, <<"delegate", "observe">>, <<"unknown", "settings">>}]

MCTasks == {Planning, Sending, Slideshow, Website, Settling, Teamwork}
=============================================================================
