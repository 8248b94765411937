---------------------------- MODULE MCAgentLoop ----------------------------
(* AgentLoop with the bounds of AgentLoop.cfg. *)
EXTENDS AgentLoop

\* Hooks that replace the history by one of its own length, as the run assumes.
SameHistory == {HistoryLength}

\* With these lengths SavedFromPrompt is violated: the slice that is saved starts
\* at the length of the history before the hook.
OtherHistory == {HistoryLength - 1, HistoryLength, HistoryLength + 1}
=============================================================================
