----------------------------- MODULE MCAdmission -----------------------------
(***************************************************************************)
(* Small instances of Admission.  app is shipped in bundles; lib and gcc,  *)
(* which it needs, and base, which they share, come from upstream.         *)
(***************************************************************************)
EXTENDS Admission, SequencesExt

CONSTANTS app, lib, gcc, base, NoPath

MCPaths == {app, lib, gcc, base}
MCRefs == [p \in MCPaths |->
    CASE p = app -> {lib, gcc} [] p \in {lib, gcc} -> {base} [] OTHER -> {}]
MCUpstream == {lib, gcc, base}
MCBytes == [p \in MCPaths |-> CASE p \in {app, gcc} -> 4 [] p = lib -> 3 [] OTHER -> 2]

M(kind, what, of, head, bytes) ==
    [kind |-> kind, what |-> what, of |-> of, head |-> head, bytes |-> bytes]
F(what, of) == M("file", what, of, 1, 1)

\* What nix-cache-push-bundle makes of a directory with the paths P.
Layout(P) ==
    <<M("dir", "nar dir", NoPath, 1, 0), F("cache-info", NoPath), F("manifest", NoPath)>>
    \o SetToSeq({F("narinfo", p) : p \in P}) \o SetToSeq({F("nar", p) : p \in P})

Bundle(R, P) ==
    [bytes |-> 3, members |-> Layout(P), whole |-> TRUE, parses |-> TRUE,
     described |-> TRUE, allowed |-> TRUE, roots |-> R, paths |-> P, claim |-> MCBytes,
     named |-> P, signed |-> P]

SoundOnes ==
    {Bundle(R, P) : R \in {{app}, {lib}, {app, lib}}, P \in {{}, {app}, {app, lib}}}

\* One thing changed in a bundle that ships app.
One == Bundle({app}, {app})
With(m) == [One EXCEPT !.members = Append(@, m)]
Without(i) == [One EXCEPT !.members = RemoveAt(@, i)]
Changed ==
    {With(m) : m \in {F("nar", app), F("stray", NoPath), F("nar", lib), F("narinfo", lib),
        M("other", "nar", lib, 1, 0), M("dir", "stray", NoPath, 1, 0),
        M("dir", "top", NoPath, 1, 0), M("dir", "top", NoPath, 6, 0),
        M("file", "nar", lib, 1, 2), M("file", "nar", lib, 1, 3)}}
    \cup {[Bundle({app}, {app, lib}) EXCEPT
            !.members = Append(@, M("dir", "top", NoPath, 1, 0))]}
    \cup {Without(i) : i \in 1 .. 5}
    \cup {[One EXCEPT !.bytes = b] : b \in {4, 5}}
    \cup {[One EXCEPT !.whole = FALSE], [One EXCEPT !.parses = FALSE],
          [One EXCEPT !.described = FALSE],
          [One EXCEPT !.allowed = FALSE], [One EXCEPT !.named = {}],
          [One EXCEPT !.signed = {}], [One EXCEPT !.paths = {}],
          [One EXCEPT !.roots = {app, lib, gcc}]}
    \cup {[One EXCEPT !.claim[app] = n] : n \in {0, 3, 5}}

MCUploads == SoundOnes \cup Changed

\* From an empty store to one that has everything, protected in part or not at
\* all, and from no room to plenty.
MCHosts ==
    {[valid |-> V, core |-> C, free |-> f, budget |-> b] :
        V \in {{}, {base}, {lib, base}, {lib, gcc, base}, MCPaths},
        C \in {{}, {base}}, f \in {5, 9, 22}, b \in {0, 7, 12, 20, 26}}
MCGoodHosts == {h \in MCHosts : h.core \subseteq h.valid}

=============================================================================
