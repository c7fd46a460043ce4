------------------------------- MODULE MCJobs -------------------------------
(* Small values for the programs that are run by hand.                     *)
EXTENDS Jobs

MCDescriptions == {<<1, 3>>, <<1, 1>>, <<2>>, <<1, 2, 3>>, <<3, 1>>}
MCTranscript == 0 .. 4
MCId == 1 .. 4
MCPoints == <<"a", "b", "c">>
MCTexts == <<"a", "b", "c", "d">>
MCLevels == 0 .. 1
MCOrders == {<<"entailment", "neutral", "contradiction">>,
             <<"contradiction", "entailment", "neutral">>}
MCPage == 1 .. 2
MCLinks == <<<<"u", "v">>, <<"v", "x">>>>
=============================================================================
