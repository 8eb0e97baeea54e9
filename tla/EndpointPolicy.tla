----------------------------- MODULE EndpointPolicy -----------------------------
(***************************************************************************)
(* function-node/src/endpoint-policy.js: the optional lockdown of a        *)
(* connection to some methods and paths.                                   *)
(*                                                                         *)
(* A path is the sequence its text splits into at the slashes, decoded, in *)
(* which Empty is the segment between two slashes, or after the last one,  *)
(* and Dots a segment no path may have ("..", ".", a bad encoding).        *)
(***************************************************************************)
EXTENDS Sequences, Integers

CONSTANTS Methods, Segments, Empty, Dots

ASSUME SegmentsAssumption == Empty \in Segments /\ Dots \in Segments /\ Empty # Dots

Path == Seq(Segments)
Rule == [methods : SUBSET Methods, path : Seq(Segments \ {Dots}), prefix : BOOLEAN]   \* {}: any method

\* What an entry of the role map may say: nothing, something malformed, a policy.
Lockdown == [mode : {"none", "malformed"}, rules : {{}}]
              \cup [mode : {"allow", "deny"}, rules : (SUBSET Rule) \ {{}}]

\* The segments that are not empty.
Names(path) ==
    LET names[i \in 0..Len(path)] ==
            IF i = 0 THEN <<>>
            ELSE IF path[i] = Empty THEN names[i - 1] ELSE Append(names[i - 1], path[i])
    IN  names[Len(path)]

\* (mutant) slashes are taken as they come
NormalizePathRaw(path) == path

Slashed(path) == path = <<>> \/ path[Len(path)] = Empty

\* A slash in front, no two in a row; one at the end stays.
NormalizePath(path) == Names(path) \o IF Slashed(path) THEN <<Empty>> ELSE <<>>

Malformed(path) == \E i \in 1..Len(path) : path[i] = Dots

\* The path is the rule's, or, for a prefix rule, lies below it.
RuleMatches(rule, method, path) ==
    LET own == NormalizePath(rule.path)
        stem == IF own[Len(own)] = Empty THEN Len(own) - 1 ELSE Len(own)
    IN  /\ rule.methods = {} \/ method \in rule.methods
        /\ \/ path = own
           \/ /\ rule.prefix /\ Len(path) > stem
              /\ SubSeq(path, 1, stem) = SubSeq(own, 1, stem)

Permits(lock, method, subpath) ==
    LET matched == \E rule \in lock.rules : RuleMatches(rule, method, NormalizePath(subpath))
    IN  \/ lock.mode = "none"
        \/ lock.mode = "allow" /\ ~Malformed(subpath) /\ matched
        \/ lock.mode = "deny" /\ ~Malformed(subpath) /\ ~matched
=================================================================================
