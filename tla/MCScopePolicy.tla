---------------------------- MODULE MCScopePolicy ----------------------------
(* An instance of ScopePolicy for TLC: see ScopePolicy_scopes.cfg.         *)
EXTENDS ScopePolicy, TLC

\* d/ with the files f and .h, and beside it a file g and .git/ with a file.
D == <<"d">>
F == <<"d", "f">>
H == <<"d", ".h">>
G == <<"g">>
R == <<".git">>
RF == <<".git", "f">>

MCEntries == {D, F, G, H, R, RF}
MCFiles == {F, G, H, RF}
MCReserved == {R}
MCDotted == {H, R}
\* "raw" is control characters, six times as long in JSON.
MCPatterns == {"d", "f", "top", "none", "raw", "bad", "unbuildable"}
MCCovers == "d" :> {D, H} @@ "f" :> {F, RF} @@ "top" :> {D, G} @@ "none" :> {}
              @@ "raw" :> {} @@ "bad" :> {} @@ "unbuildable" :> {}
MCPlain == {"d", "f", "top", "none"}
MCListBytes == [S \in SUBSET MCPatterns |-> Cardinality(S \ {"raw"})
                                            + 3 * Cardinality(S \cap {"raw"})]
\* Some sets cannot be built though the patterns can.
MCBuildable == {S \in SUBSET MCPatterns : /\ "unbuildable" \notin S
                                          /\ ~({"raw", "top"} \subseteq S)}
MCAsks == {[rest |-> 2, told |-> 2, budget |-> 12],
           [rest |-> 1, told |-> 1, budget |-> 6]}

\* As many patterns as a list may hold and one more, different ones or not.
MCLists == {<<>>, <<"f", "f">>, <<"f", "f", "f">>, <<"top", "none">>, <<"d", "f">>,
            <<"bad">>, <<"unbuildable">>, <<"raw", "d">>}

Line(covers, verdict) == [covers |-> covers, verdict |-> verdict]
MCTop == {<<>>, <<Line({D}, "ignore")>>, <<Line({F}, "ignore"), Line({F}, "whitelist")>>,
          <<Line({F, H, G}, "ignore")>>}
MCDeep == {<<>>, <<Line({F, H}, "ignore"), Line({F}, "whitelist")>>}
MCIgnoreFiles == [{".gitignore", ".ignore"} ->
                     {<<>> :> top @@ D :> deep @@ R :> <<>> :
                        top \in MCTop, deep \in MCDeep}]
=============================================================================
