----------------------------- MODULE MCContract ------------------------------
(* An instance of Contract for TLC: see Contract_evidence.cfg.             *)
EXTENDS Contract

Sized(units, bytes) == [units |-> units, bytes |-> bytes, wellFormed |-> TRUE]
Query(t) == [units |-> t.units, bytes |-> t.bytes, wellFormed |-> t.wellFormed,
             oneLine |-> TRUE, supported |-> TRUE]
Path(t, parts) == [units |-> t.units, bytes |-> t.bytes, wellFormed |-> t.wellFormed,
                   parts |-> parts]
\* Texts around a limit of three: too short or long in units or in bytes, with half a
\* surrogate pair.
MCTexts == {Sized(0, 0), Sized(1, 3), Sized(3, 3), Sized(3, 4), Sized(4, 4),
            [Sized(1, 3) EXCEPT !.wellFormed = FALSE]}
Plain == Sized(2, 2)
\* With a line break, with a construct the worker has not.
MCQueries == {Query(t) : t \in MCTexts}
               \cup {[Query(Plain) EXCEPT !.oneLine = FALSE],
                     [Query(Plain) EXCEPT !.supported = FALSE]}
\* With a part no layer takes, with dots before and behind a separator.
MCPaths == {Path(t, <<"name">>) : t \in MCTexts}
             \cup {Path(Plain, parts) : parts \in
                      {<<"bad">>, <<"name", "dots">>, <<"dots", "separated">>,
                       <<"separated", "dots", "name">>, <<"separated", "name">>}}

Range(start, end) == [start |-> start, end |-> end]
\* A call of a registration, whose scope fits.
NoNarrow == [include |-> <<>>, exclude |-> <<>>]
Exact(query, n) ==
    [operation |-> "exact", query |-> query, maxMatches |-> n,
     ids |-> "registered", narrow |-> NoNarrow, builds |-> TRUE, frame |-> 2]
ReadOf(operation, path, range, budget, expected) ==
    [operation |-> operation, path |-> path, range |-> range, byteBudget |-> budget,
     expected |-> expected,
     ids |-> "registered", narrow |-> NoNarrow, builds |-> TRUE, frame |-> 2]
Named == Path(Plain, <<"name">>)
MCRanges == {Range(0, 0), Range(0, 2), Range(1, 3), Range(2, 1), Range(0, 4), Range(3, 6)}

\* Octets: 1 is a character, 2 begins one of two bytes, 3 one of three, 0 goes on.
MCFiles == {<<>>, <<1, 2, 0, 1>>, <<3, 0, 0, 1>>, <<1, 1, 3, 0, 0>>, <<1, 1, 1, 1>>}

\* Lists as long as may be and longer, in a frame at its cap or beyond.
MCNarrowed ==
    {[r EXCEPT !.narrow.include = include, !.narrow.exclude = exclude, !.builds = b,
               !.frame = IF b THEN n ELSE 3] :
       r \in {Exact(Query(Plain), 2), ReadOf("read-fresh", Named, Range(0, 1), 2, <<>>)},
       include \in {<<p>> : p \in MCPaths}
                    \cup {<<Named, Named>>, <<Named, Named, Named>>},
       exclude \in {<<>>, <<Named>>}, b \in BOOLEAN, n \in {3, 4}}
MCRequests ==
    {Exact(t, 2) : t \in MCQueries}
      \cup {Exact(Query(Plain), n) : n \in {0, 3}}
      \cup {[Exact(Query(Plain), 2) EXCEPT !.ids = ids] :
               ids \in {"malformed", "named", "foreign"}}
      \cup {ReadOf("read-fresh", t, Range(0, 1), 2, <<>>) : t \in MCPaths}
      \cup {ReadOf("read-fresh", Named, s, n, <<>>) : s \in MCRanges, n \in {0, 2, 4, 5}}
      \cup {ReadOf("read-verified", Named, s, 2, f) : s \in MCRanges, f \in MCFiles}
      \cup MCNarrowed

Cost(deadline, bytes) == [deadlineMs |-> deadline, responseBytes |-> bytes]
MCContexts == {Cost(0, 3), Cost(2, 3), Cost(3, 4), Cost(2, 1), Cost(1, 5)}
MCCaps == {Cost(1, 2), Cost(2, 4)}
=============================================================================
