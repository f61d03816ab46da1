-------------------------- MODULE MCRequestHandler --------------------------
(***************************************************************************)
(* RequestHandler on uris put together from up to MaxAtoms atoms.          *)
(***************************************************************************)
EXTENDS RequestHandler, SequencesExt

CONSTANT MaxAtoms   \* bound: how many atoms a uri has

\* "/", ".", "+", "a", "gif", "html", %2e, %2F, %00, %2b; the lenient %2g and %-2; the
\* rejected %gg and %0x; and a cut-off "%2" that may swallow what follows it.
Atoms == {<<Slash>>, <<Dot>>, <<Plus>>, <<97>>, <<103, 105, 102>>, Html,
          <<Percent, 50, 101>>, <<Percent, 50, 70>>, <<Percent, 48, 48>>, <<Percent, 50, 98>>,
          <<Percent, 50, 103>>, <<Percent, Minus, 50>>, <<Percent, 103, 103>>,
          <<Percent, 48, 120>>, <<Percent, 50>>}

\* Uris of at most n atoms; the second set has paths deep enough for "/../" to be spelled.
Sentences(n) == {FlattenSeq(w) : w \in UNION {[1..k -> Atoms] : k \in 0..n}}
Deep == {FlattenSeq(w) : w \in [1..(MaxAtoms + 2) -> {<<Slash>>, <<Dot>>, <<Percent, 50, 101>>}]}
MCUris == Sentences(MaxAtoms) \cup Deep

=============================================================================
