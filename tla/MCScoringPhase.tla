---------------------------- MODULE MCScoringPhase ----------------------------
EXTENDS ScoringPhase

None == [w \in Walks |-> {}]

Race == [size |-> 0, catching |-> TRUE, parent |-> {1, 3}, cancels |-> FALSE,
         bound |-> FALSE, budget |-> 0, rereads |-> None,
         answers |-> {"degraded", "fatal", "error", "raised", "cancelled"}]

Blocks == [size |-> 2, catching |-> FALSE, parent |-> {}, cancels |-> TRUE,
           bound |-> FALSE, budget |-> 0, rereads |-> None,
           answers |-> {"degraded", "error", "broken"}]

Singles == [Blocks EXCEPT !.size = 1, !.answers = {"degraded", "client", "fatal"}]

Ceiling == [size |-> 0, catching |-> TRUE, parent |-> {1, 2, 3}, cancels |-> FALSE,
            bound |-> TRUE, budget |-> 2, rereads |-> [None EXCEPT ![2] = {2}],
            answers |-> {"degraded", "error", "refused", "cancelled"}]

Setups == {Race, Blocks, Singles, Ceiling}
=============================================================================
