------------------------------ MODULE Releases ------------------------------
(***************************************************************************)
(* What the release tracker (deputyos-track) reads: the upstream projects' *)
(* releases as GitHub lists them, and the order that version.rs puts them  *)
(* in.  A release is its tag and the two flags that upstream gives it.     *)
(***************************************************************************)
EXTENDS Integers, Sequences

CONSTANTS
    Stable,     \* profiles with release_channel = "stable"
    Beta,       \* and with "beta"
    History     \* what an upstream project publishes, one after the other

Profiles == Stable \cup Beta

\* A tag is the numbers before the first "-", by their rank, and the text after
\* it, character by character; one that does not parse has no rank.  A release
\* is known by its place in History.
Final == <<>>
Tag == [core : Nat, suffix : Seq(Nat)]
Release == [tag : Tag, prerelease : BOOLEAN]
Releases == DOMAIN History

ASSUME ChannelsAssumption == Stable \cap Beta = {}
ASSUME HistoryAssumption == History \in Seq(Release) /\ 1 \in Releases

\* Version::parse.
Parses(i) == History[i].tag.core # 0

\* String comparison of the suffixes: beta10 comes before beta2.
TextLess(s, t) ==
    \E k \in 0 .. Len(s) :
        /\ k < Len(t) /\ \A i \in 1 .. k : s[i] = t[i]
        /\ k < Len(s) => s[k + 1] < t[k + 1]

\* Version::cmp: a > b, and the same of two releases.
Greater(a, b) ==
    \/ a.core > b.core
    \/ a.core = b.core /\ a.suffix = Final /\ b.suffix # Final
    \/ a.core = b.core /\ a.suffix # Final /\ b.suffix # Final /\ TextLess(b.suffix, a.suffix)
Newer(i, j) == Greater(History[i].tag, History[j].tag)

\* Client::latest: a stable profile asks for releases/latest, which leaves out
\* drafts and prereleases, and does not look at the tag; a beta profile takes
\* the first release listed that is no draft.
latest(p) == {i \in Releases : p \in Stable => ~History[i].prerelease}
=============================================================================
