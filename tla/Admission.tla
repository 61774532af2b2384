------------------------------ MODULE Admission ------------------------------
(***************************************************************************)
(* importer.import_bundle as a sequence of checks: what a bundle must be,  *)
(* and how much the host may grow by it, before anything of it is pinned.  *)
(* Importer leaves all of this to ImportFails; here one bundle goes        *)
(* through it under the lock, while other programs use up disk space.      *)
(***************************************************************************)
EXTENDS Integers, Sequences, FiniteSets, FiniteSetsExt, StoreGraph

CONSTANTS
    Bytes,          \* Bytes[p]: size of p's NAR, unpacked
    Upstream,       \* paths the host can substitute
    Uploads,        \* bundles, as in UploadFields
    Hosts,          \* what they meet, as [valid, core, free, budget]
    Cap, MaxRoots,                          \* repo.max_bundle_bytes, max_roots
    MaxUnpacked, Slack, MaxMembers,         \* repo.max_unpacked_bytes, extract.py
    Floor,                                  \* cfg.import_min_free_bytes
    Chunk, Tenth,   \* nixcli.CHUNK; bytes in a tenth of the unit nix reports in
    MaxOthers       \* bound: bytes other programs write meanwhile

(***************************************************************************)
(* members is the tar's content, [kind, what, of, head, bytes] each; whole *)
(* says that zstd and tar see its end.  parses, described: manifest.json  *)
(* and the narinfos are well-formed.  claim[p] is its NarSize; named and  *)
(* signed are the paths signed by name, and as nix itself accepts it.     *)
(***************************************************************************)
UploadFields == {"bytes", "members", "whole", "parses", "described", "allowed",
                 "roots", "paths", "claim", "named", "signed"}

ASSUME UploadsAssumption ==
    \A u \in Uploads :
        /\ DOMAIN u = UploadFields
        /\ u.roots \in (SUBSET Paths) \ {{}} /\ u.paths \in SUBSET Paths
        /\ u.claim \in [Paths -> Nat]
        /\ Len(u.members) \in Nat /\ DOMAIN u.members = 1 .. Len(u.members)
        /\ \A i \in DOMAIN u.members : {u.members[i].head, u.members[i].bytes} \subseteq Nat

ASSUME HostsAssumption ==
    \A h \in Hosts :
        /\ {h.valid, h.core} \subseteq ClosedSets /\ h.core \subseteq h.valid
        /\ {h.free, h.budget} \subseteq Int

\* The store is finite and no NAR is empty: it has a header.
ASSUME SizesAssumption == IsFiniteSet(Paths) /\ Bytes \in [Paths -> Nat \ {0}]

\* Like the host, the upstream cache serves nothing without its references.
ASSUME UpstreamAssumption == Upstream \in ClosedSets

ASSUME LimitsAssumption ==
    /\ {Cap, MaxRoots, MaxUnpacked, Slack, MaxMembers, Floor, MaxOthers} \subseteq Nat
    /\ {Chunk, Tenth} \subseteq Nat \ {0}

VARIABLES
    bundle, host,   \* the bundle, and the host as it was before
    at,             \* the next check, or how it ended: "pinned"; "refused" by a check;
                    \* "unread", "failed": statvfs, or another call, failed before
                    \* the store was touched; "broken": later
    pos, total, raw, names,     \* unpacking: members, file bytes, stream bytes, files
    claimed,        \* bundled_new
    valid, free,    \* the store and the space left beside it
    others          \* bytes other programs wrote

unpackVars == <<pos, total, raw, names>>
storeVars == <<valid, free, others>>
admVars == <<bundle, host, at, unpackVars, claimed, storeVars>>

SumOf(F, S) == MapThenSumSet(LAMBDA x : F[x], S)

\* What the paths S take up.
Size(S) == SumOf(Bytes, S)

-----------------------------------------------------------------------------
(* extract_bundle *)

\* What a file in the bundle is.
Name(m) == [what |-> m.what, of |-> m.of]
FileKinds == {"cache-info", "manifest", "narinfo", "nar"}
Files(what) == {n.of : n \in {f \in names : f.what = what}}

\* Mutant of Takes: lets a second member of one name through.
TakesTwice(m) ==
    /\ pos < MaxMembers
    /\ raw + m.head + m.bytes <= MaxUnpacked + Slack
    /\ \/ m.kind = "dir" /\ m.what \in {"top", "nar dir"}
       \/ /\ m.kind = "file" /\ m.what \in FileKinds
          /\ total + m.bytes <= MaxUnpacked

Takes(m) ==
    /\ pos < MaxMembers
    /\ raw + m.head + m.bytes <= MaxUnpacked + Slack
    /\ \/ m.kind = "dir" /\ m.what \in {"top", "nar dir"}
       \/ /\ m.kind = "file" /\ m.what \in FileKinds
          /\ total + m.bytes <= MaxUnpacked
          /\ Name(m) \notin names

\* One member leaves the stream; its size is checked before it is written.
Unpack ==
    /\ at = "unpack" /\ pos < Len(bundle.members)
    /\ LET m == bundle.members[pos + 1] IN
        /\ pos' = pos + 1
        /\ raw' = raw + m.head + m.bytes
        /\ IF m.kind = "file"
           THEN total' = total + m.bytes /\ names' = names \cup {Name(m)}
           ELSE UNCHANGED <<total, names>>
        /\ at' = IF Takes(m) THEN "unpack" ELSE "refused"
    /\ UNCHANGED <<bundle, host, claimed, storeVars>>

-----------------------------------------------------------------------------
(* import_bundle: one check after the other *)

\* A check that only decides.
Decide(here, ok, there) ==
    /\ at = here
    /\ at' = IF ok THEN there ELSE "refused"
    /\ UNCHANGED <<bundle, host, unpackVars, storeVars>>

CheckCap == Decide("cap", bundle.bytes <= Cap, "unpack") /\ UNCHANGED claimed

CheckEnd ==
    /\ pos = Len(bundle.members)
    /\ Decide("unpack",
        bundle.whole /\ Files("cache-info") # {} /\ Files("manifest") # {},
        "manifest")
    /\ UNCHANGED claimed

ParsesManifest == bundle.parses
ParsesNarinfos == bundle.described
LoadsNarinfos == ParsesNarinfos /\ Files("narinfo") \subseteq Files("nar")
KeyNamesKnown == bundle.paths \subseteq bundle.named

CheckManifest ==
    /\ Decide("manifest",
        /\ ParsesManifest /\ bundle.allowed
        /\ Cardinality(bundle.roots) <= MaxRoots
        /\ LoadsNarinfos /\ Files("narinfo") = bundle.paths
        /\ KeyNamesKnown, "claims")
    /\ UNCHANGED claimed

\* _protected_bytes does not believe an empty listing of the store.
InBudget(n) == valid # {} /\ Size(host.core) + n <= host.budget

\* Mutant of Guard: also asks when nothing is added.
GuardAnything(n) == InBudget(n) /\ free - n >= Floor

\* SizeGuard.check: what the host has costs nothing.
Guard(n) == n = 0 \/ GuardAnything(n)

ClaimedNew == SumOf(bundle.claim, bundle.paths \ valid)

CheckClaims ==
    /\ Decide("claims", Guard(ClaimedNew), "contents")
    /\ claimed' = ClaimedNew

KeysBound == bundle.paths \subseteq bundle.signed
NarSizesTrue == \A p \in bundle.paths : bundle.claim[p] = Bytes[p]

CheckContents ==
    /\ Decide("contents", KeysBound /\ NarSizesTrue, "roots")
    /\ UNCHANGED claimed

\* Mutant of RootsThere: a root may also come from upstream.
RootsServed == bundle.roots \subseteq bundle.paths \cup valid \cup Upstream

RootsThere == bundle.roots \subseteq bundle.paths \cup valid

CheckRoots == Decide("roots", RootsThere, "growth") /\ UNCHANGED claimed

Missing == (UNION {Refs[p] : p \in bundle.paths}) \ (bundle.paths \cup valid)

\* nix-store prints sizes in tenths of a unit, to the nearest one.
Shown(n) == (2 * n + Tenth) \div (2 * Tenth)
Halves(n) == (n + 1) \div 2

\* Mutant of SizeUp: takes the tenths for what they say.
SizeShown(t) == t * Tenth
SizeUp(t) == Halves((2 * t + 1) * Tenth)

\* The missing paths go to nix in pieces; two pieces may share what they need.
Pieces(S) ==
    {P \in SUBSET ((SUBSET S) \ {{}}) :
        /\ UNION P = S
        /\ Cardinality(P) = (Cardinality(S) + Chunk - 1) \div Chunk
        /\ \A C \in P : Cardinality(C) <= Chunk
        /\ \A C, D \in P : C = D \/ C \cap D = {}}
Estimate(P) == SumOf([C \in P |-> SizeUp(Shown(Size(Closure(C) \ valid)))], P)

\* estimate_fetch fails on anything that is not a download; then the full guard.
CheckGrowth ==
    /\ \E P \in Pieces(Missing) :
        Decide("growth",
            /\ Closure(Missing) \subseteq valid \cup Upstream
            /\ Guard(claimed + Estimate(P)), "fetch")
    /\ UNCHANGED claimed

\* The guard has found n in the budget and cannot read the free space.
Blind(n) == n # 0 /\ InBudget(n)

SpaceUnread ==
    /\ \/ at = "claims" /\ Blind(ClaimedNew)
       \/ /\ at = "growth" /\ Closure(Missing) \subseteq valid \cup Upstream
          /\ \E P \in Pieces(Missing) : Blind(claimed + Estimate(P))
    /\ at' = "unread"
    /\ UNCHANGED <<bundle, host, unpackVars, claimed, storeVars>>

\* Any other call may fail: a write while unpacking, nix, the database, pin.
Fails ==
    /\ \/ at \in {"cap", "unpack", "manifest", "claims", "contents", "roots", "growth"}
          /\ at' = "failed"
       \/ at = "still" /\ at' = "broken"
    /\ UNCHANGED <<bundle, host, unpackVars, claimed, storeVars>>

-----------------------------------------------------------------------------
(* realise, copy, pin *)

\* S arrives in the store; a failure leaves any part of it that is closed.
Takein(S) ==
    /\ valid' = valid \cup S
    /\ free' = free - Size(S \ valid)
    /\ UNCHANGED <<bundle, host, unpackVars, claimed, others>>

Write(here, S, there) ==
    /\ at = here
    /\ \/ Takein(S) /\ at' = there
       \/ \E T \in SUBSET S :
            /\ ~ (S \subseteq valid)
            /\ Closed(valid \cup T)
            /\ Takein(T) /\ at' = "broken"

Fetch == Write("fetch", Closure(Missing), "copy")
Copy == Write("copy", bundle.paths, "still")

CheckStill ==
    Decide("still", bundle.roots \subseteq valid, "pinned") /\ UNCHANGED claimed

\* Everything else on the machine.
OtherWrites ==
    /\ others < MaxOthers
    /\ others' = others + 1 /\ free' = free - 1
    /\ UNCHANGED <<bundle, host, at, unpackVars, claimed, valid>>

AdmInit ==
    /\ bundle \in Uploads /\ host \in Hosts
    /\ at = "cap"
    /\ pos = 0 /\ total = 0 /\ raw = 0 /\ names = {}
    /\ claimed = 0
    /\ valid = host.valid /\ free = host.free /\ others = 0

AdmNext ==
    \/ CheckCap \/ Unpack \/ CheckEnd \/ CheckManifest \/ CheckClaims
    \/ CheckContents \/ CheckRoots \/ CheckGrowth \/ Fetch \/ Copy \/ CheckStill
    \/ SpaceUnread \/ Fails \/ OtherWrites

AdmSpec == AdmInit /\ [][AdmNext]_admVars

-----------------------------------------------------------------------------
(* Properties *)

Member(i) == bundle.members[i]
FileAt == {i \in DOMAIN bundle.members : Member(i).kind = "file"}
Ships(what) == {Member(i).of : i \in {j \in FileAt : Member(j).what = what}}

\* What a bundle should be, said of it as a whole (extract.py's docstring,
\* manifest.py and narinfo.py, importer.check_key_names).
Sound ==
    /\ bundle.bytes <= Cap /\ bundle.whole /\ bundle.allowed
    /\ bundle.parses /\ bundle.described
    /\ Len(bundle.members) <= MaxMembers
    /\ \A i \in DOMAIN bundle.members :
        \/ i \in FileAt /\ Member(i).what \in FileKinds
        \/ Member(i).kind = "dir" /\ Member(i).what \in {"top", "nar dir"}
    /\ \A i, j \in FileAt : Name(Member(i)) = Name(Member(j)) => i = j
    /\ Ships("cache-info") # {} /\ Ships("manifest") # {}
    /\ Ships("narinfo") = bundle.paths /\ bundle.paths \subseteq Ships("nar")
    /\ SumOf([i \in FileAt |-> Member(i).bytes], FileAt) <= MaxUnpacked
    /\ SumOf([i \in DOMAIN bundle.members |-> Member(i).head + Member(i).bytes],
             DOMAIN bundle.members) <= MaxUnpacked + Slack
    /\ Cardinality(bundle.roots) <= MaxRoots
    /\ bundle.paths \subseteq bundle.named \cap bundle.signed
    /\ \A p \in bundle.paths : bundle.claim[p] = Bytes[p]

\* Nothing but a sound bundle gets as far as the store: the member loop and the
\* order of the checks let no malformed one through (importer.import_bundle).
AdmitsOnlySound ==
    valid # host.valid \/ at \in {"fetch", "copy", "still", "pinned"} => Sound

\* A pinned root was shipped and signed or was on the host before, and the store
\* grew by shipped paths and by what those need from upstream: roots are never
\* substituted, although references are (importer.py:193-196).
RootsTrusted ==
    /\ at = "pinned" => bundle.roots \subseteq bundle.paths \cup host.valid
    /\ valid \ host.valid \subseteq
            bundle.paths \cup (Closure(bundle.paths) \cap Upstream)

\* Whatever arrives, even by a fetch that breaks off, was allowed for: protected
\* bytes plus growth stay within the budget, and the floor stays free but for
\* what others write (SizeGuard, estimate_fetch).  Paths the host had already and
\* did not protect are not counted: that is the promise the code keeps.  And what
\* is protected was known: the listing it is computed from was not empty.
GrowthCharged ==
    valid # host.valid =>
        /\ host.valid # {}
        /\ Size(host.core) + Size(valid \ host.valid) <= host.budget
        /\ free >= Floor - others

\* Rounding and shared references may make the guard overestimate by this much.
Margin == SumOf([p \in Missing |-> Tenth + Size(Closure({p}) \ host.valid)], Missing)
Growth == Size((bundle.paths \cup Closure(Missing)) \ host.valid)

\* The checks refuse only a bundle that is unsound, relies on what is not there, or
\* would add bytes: to more than fits, to a store whose listing is empty, or to a
\* disk whose free space cannot be read.  Pinning again what the host has never
\* fails on budget or space, however full it is (SizeGuard.check).
RefusedForCause ==
    at \in {"refused", "unread"} =>
        \/ ~ Sound
        \/ ~ (bundle.roots \subseteq bundle.paths \cup host.valid)
        \/ ~ (Closure(bundle.paths) \subseteq bundle.paths \cup host.valid \cup Upstream)
        \/ /\ Growth # 0
           /\ \/ host.valid = {} \/ at = "unread"
              \/ Size(host.core) + Growth + Margin > host.budget
              \/ free - Growth - Margin < Floor

=============================================================================
