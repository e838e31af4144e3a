----------------------------- MODULE MCScoreLog -----------------------------
EXTENDS ScoreLog
\* One all, scored at 1 before there was a log; and a team match nobody fought.
MCOneAll == [BlankMatch(FALSE, {"points"}) EXCEPT
               !.rows["points"][1].ip = [s \in Side |-> <<Mark("M", NoId)>>],
               !.stamp["points"] = 1, !.modified = 1]
MCShapes == {MCOneAll, BlankMatch(TRUE, {"b1", "b2"})}
MCLetters == <<"M", "K">>
=============================================================================
