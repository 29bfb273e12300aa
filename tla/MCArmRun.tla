------------------------------- MODULE MCArmRun -------------------------------
(***************************************************************************)
(* The run loop on a small instance: one pin on both banks, an ordinary     *)
(* address and a boot ROM address, and two runs.                            *)
(***************************************************************************)
EXTENDS ArmRun

Limit(i, d) == [instructions |-> i, deadline |-> d]
Stimulus(at, pin, value) == [at |-> at, pin |-> pin, value |-> value]

\* Out of order, with equal timestamps.
Shuffled == <<Stimulus(1, 0, "1"), Stimulus(0, 0, "Z"), Stimulus(1, 0, "0")>>

Broken == [breakpoints |-> {"rom"}, watched |-> {"data"}, stops |-> << >>]
Stopped == [breakpoints |-> {}, watched |-> {"sio"},
            stops |-> <<[signal |-> <<"chip", 0>>, edge |-> "change"],
                        [signal |-> <<"board", 0>>, edge |-> "rising"]>>]

\* One long run.
MCLongLimits == {Limit(3, None), Limit(None, 3)}
MCLongStimuli == {Shuffled, <<Stimulus(1, 1, "1")>>}
MCSetups == {Broken, Stopped}

\* The instruction limit alone.
MCBudgetLimits == {Limit(1, None), Limit(2, None)}
MCNoStimuli == {<< >>}

\* Two short runs, with a debugger between them; unbounded limits are refused.
MCShortLimits == {Limit(1, None), Limit(None, None)}
MCShortStimuli == {<<Stimulus(0, 0, "1")>>}
=============================================================================
