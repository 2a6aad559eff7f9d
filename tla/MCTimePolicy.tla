------------------------------ MODULE MCTimePolicy ------------------------------
(* Short games from chosen moves and clocks, and short configuration files.  *)
EXTENDS TimePolicy, TLC

Line(kind, name, key, blank, value) ==
    [kind |-> kind, name |-> name, key |-> key, blank |-> blank, value |-> value]
SectionLine(name) == Line("section", name, "", FALSE, 0)

FileLines ==
    {SectionLine("TimePolicy"), SectionLine("MCTS"), SectionLine("GTP"),
     Line("pair", "", "time_policy_enabled", FALSE, 1),
     Line("pair", "", "search_threads", FALSE, 2),
     Line("pair", "", "search_threads", TRUE, 2),
     Line("word", "", "time_policy_enabled", FALSE, 0),
     Line("void", "", "time_policy_enabled", FALSE, 0),
     Line("bare", "", "search_threads2", FALSE, 0),
     Line("empty", "", "", FALSE, 0)}
ShortFiles == UNION {[1..n -> FileLines] : n \in 1..4}

SomeStarts == {2 * n : n \in {2, 3, 50, 51, 149, 150, 199, 249, 250}}
SomeClocks == {1000, 36000, 130000, 212400, 999000}
SomeOtherClocks == {999}
TwoSpeeds == {0, 50000}

NeedOf[r \in 1..50] ==
    IF r = 1 THEN 0 ELSE (r * (NeedOf[r - 1] + Overrun) + 1000) \div (r - 1) + 1
==============================================================================
