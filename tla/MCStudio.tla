------------------------------ MODULE MCStudio ------------------------------
EXTENDS Studio

Hot == "hot_news_commentary"
Story == "emotional_story"
MCStyles == {Hot, Story}
SkillStyles == [film |-> Story]
NoSkills == << >>

AllTopics == {Topics}

Nothing == {NoPlan}
OneReview == {NoPlan, [theme |-> "a", style |-> Hot, source |-> "vertical"]}

Themes == {<<"a", "b">>}
NoThemes == {}

Percent(v) == [kind |-> "percent", value |-> v]
Fraction(v) == [kind |-> "number", value |-> v]
Figure(v, c) == [video |-> v, views |-> 20000, completion |-> c, engagement |-> Percent(700)]
TypedIn == {Figure("v1", Percent(3500))}

\* The second of three cannot be used, a fourth is one too many.
ModelReplies == {<<TRUE, FALSE, TRUE, TRUE>>}
=============================================================================
