------------------------------ MODULE MCArmTool -----------------------------
EXTENDS ArmTool

CONSTANTS e1, e2

\* A table in which a register is written twice, and an empty one.
MCTables == {<<e1, e2, e1>>, <<>>}

\* The margin test alone, and each message kind after a late or stale other.
MCPlans ==
    {[progs |-> <<"margin">>, trouble |-> 1]} \cup
    [progs : {<<"cmd", "cmd">>, <<"cmd", "file">>, <<"file", "table">>,
              <<"table", "file">>},
     trouble : {3}]
=============================================================================
