----------------------------- MODULE MCModelStream -----------------------------
(***************************************************************************)
(* Scripts and runs for model checking ModelStream: every script of at most  *)
(* three steps out of five, for a run of one agent or a swarm of three.      *)
(***************************************************************************)
EXTENDS ModelStream

Call(name) == [name |-> name, id |-> None]
CallWithId(name, id) == [name |-> name, id |-> id]

Steps ==
  {DefaultStep,
   [calls |-> <<Call("repo_grep")>>],
   [calls |-> <<Call("git_log_path"), Call("repo_grep")>>],
   [calls |-> <<Call("repo_grep"), Call("repo_grep")>>],
   [calls |-> <<Call("repo_grep"), CallWithId("repo_grep", "second")>>]}

Scripts == UNION {[1 .. n -> Steps] : n \in 0 .. 3}

Fake(script, responder, mapped, runs) ==
  [provider |-> "fake", script |-> script, responder |-> responder, mapped |-> mapped,
   runs |-> runs]

Swarm == <<"FindingAdjudication", "FindingAdjudication", "FindingAdjudication">>

\* One entry in the mapping, or none.
NoEntry == [o \in DOMAIN OutputModels |-> "none"]
Mappings == {[NoEntry EXCEPT !["Finding"] = p] : p \in Prepared}

MCScenarios ==
  {Fake(s, r, NoEntry, runs) :
     s \in Scripts, r \in Prepared, runs \in {<<"Finding">>, Swarm}}
    \cup {Fake(<<>>, r, m, <<o>>) :
            o \in DOMAIN OutputModels, r \in {"none", "exact"}, m \in Mappings}
    \cup {[Fake(<<>>, "none", NoEntry, <<"Finding">>) EXCEPT !.provider = p] :
            p \in {"bedrock", "gemini"}}
=============================================================================
