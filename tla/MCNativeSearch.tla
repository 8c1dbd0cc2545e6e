--------------------------- MODULE MCNativeSearch ---------------------------
(* Instances of NativeSearch for TLC: see the NativeSearch_*.cfg files.    *)
EXTENDS NativeSearch, TLC

\* d/ with a file f and a directory e, and beside it a file g and
\* a hidden one.
D == <<"d">>
E == <<"d", "e">>
F == <<"d", "f">>
G == <<"g">>
H == <<".h">>

MCHidden == {H}
MCEntries == {D, E, F, G, H}
MCType == D :> "dir" @@ E :> "dir" @@ F :> "text" @@ G :> "text" @@ H :> "binary"
MCRulesets == {{}, {F}}

Ask(what, most, entries, depth, ignore) ==
    [read |-> what, maxMatches |-> most, maxEntries |-> entries,
     maxDepth |-> depth, respectIgnore |-> ignore]

\* A search with room for all it meets or not, one that meets the depth and the
\* entry limit, a read, a validation.
MCRequests == {Ask(<<"search">>, 2, 5, 2, TRUE), Ask(<<"search">>, 1, 4, 1, FALSE),
               Ask(F, 1, 5, 2, TRUE), Ask(<<"validate">>, 1, 4, 2, TRUE)}
=============================================================================
