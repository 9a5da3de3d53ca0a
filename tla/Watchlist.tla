------------------------------ MODULE Watchlist ------------------------------
(* watchlist.rs: the pre-check of the sensitive-path list. A path is matched *)
(* against the globs only if it holds the last literal run of one of them,   *)
(* so a run that some matching path lacks would hide that path. Patterns are *)
(* sequences of characters; the glob's own meaning is globset's, external.   *)
EXTENDS Integers, Sequences, SequencesExt, FiniteSets, FiniteSetsExt

CONSTANTS
    Plain,          \* characters a glob gives no meaning
    MaxPattern,     \* bound: the longest pattern tried,
    Inside,         \* the longest over these characters alone,
    MaxInside,
    MaxPath         \* and the longest path
ASSUME WatchAssumption == {MaxPattern, MaxInside, MaxPath} \subseteq Nat

VARIABLE pattern    \* an entry of the list, as it is typed

watchVars == pattern

Wild == {"*", "?", "[", "]", "{", "}", ",", "!", "^"}
WatchInit == pattern = <<>>
\* The next character of the entry in agent.toml.
TypePattern(c) ==
    /\ \/ Len(pattern) < MaxPattern
       \/ Len(pattern) < MaxInside /\ ToSet(pattern) \cup {c} \subseteq Inside
    /\ pattern' = Append(pattern, c)
WatchNext == \E c \in Plain \cup Wild : TypePattern(c)
WatchSpec == WatchInit /\ [][WatchNext]_watchVars

-----------------------------------------------------------------------------
(* last_literal_run                                                          *)

Negations == {"!", "^"}
\* Where the members of the class begin, after `c` at `i`; 0 outside a class.
\* A `]` right after `[`, `[!` or `[^` is a member; a mutant ends the class.
ClassEndsEarly(s, i, c) ==
    CASE s.class = 0 -> IF c = "[" THEN i + 1 ELSE 0
      [] s.class # 0 /\ c \in Negations /\ i = s.class -> i + 1
      [] s.class # 0 /\ c = "]" -> 0
      [] OTHER -> s.class
ClassAfter(s, i, c) ==
    CASE s.class = 0 -> IF c = "[" THEN i + 1 ELSE 0
      [] s.class # 0 /\ c \in Negations /\ i = s.class -> i + 1
      [] s.class # 0 /\ c = "]" /\ i > s.class -> 0
      [] OTHER -> s.class
BracesAfter(s, c) ==
    CASE s.class = 0 /\ c = "{" -> s.braces + 1
      [] s.class = 0 /\ c = "}" -> Max({s.braces - 1, 0})
      [] OTHER -> s.braces
IsWild(s, c) == s.class # 0 \/ c \in {"[", "{", "}", "]", "*", "?"} \/ s.braces > 0
RunStep(s, i, c) ==
    [best |-> IF IsWild(s, c) /\ s.run # <<>> THEN s.run ELSE s.best,
     run |-> IF IsWild(s, c) THEN <<>> ELSE Append(s.run, c),
     braces |-> BracesAfter(s, c), class |-> ClassAfter(s, i, c)]
LastLiteralRun(p) ==
    LET end == FoldLeft(LAMBDA s, i : RunStep(s, i, p[i]), [best |-> <<>>, run |-> <<>>, braces |-> 0, class |-> 0],
                        [i \in 1..Len(p) |-> i])
    IN IF end.run # <<>> THEN end.run ELSE end.best

\* matches: the pre-check is off when a pattern has no run. The runs of the
\* list's other entries only let more through.
PreCheck(path) ==
    LET run == LastLiteralRun(pattern)
    IN run = <<>> \/ \E i \in 1..Len(path) : IsPrefix(run, SubSeq(path, i, Len(path)))

-----------------------------------------------------------------------------
(* The paths a glob matches, as globset reads it                             *)

Paths == UNION {[1..n -> Plain \cup {"]", ","} \cup Negations] : n \in 0..MaxPath}
\* Every way to go on after a set of beginnings.
Followed(begins, ends) == {b \o e : b \in begins, e \in ends} \cap Paths
\* now: what is matched so far; open: for each open brace what came before it
\* and its finished alternatives; class: the class being read, if any.
GlobStep(s, c) ==
    CASE s.class # {} ->
            LET k == CHOOSE k \in s.class : TRUE
            IN IF k.empty /\ ~k.not /\ c \in Negations THEN [s EXCEPT !.class = {[k EXCEPT !.not = TRUE]}]
               ELSE IF c = "]" /\ ~k.empty
               THEN [s EXCEPT !.class = {},
                              !.now = Followed(@, {p \in Paths : Len(p) = 1 /\ ((p[1] \in k.members) # k.not)})]
               ELSE [s EXCEPT !.class = {[k EXCEPT !.empty = FALSE, !.members = @ \cup {c}]}]
      [] s.class = {} /\ c = "[" -> [s EXCEPT !.class = {[empty |-> TRUE, not |-> FALSE, members |-> {}]}]
      [] s.class = {} /\ c = "*" -> [s EXCEPT !.now = Followed(@, Paths)]
      [] s.class = {} /\ c = "?" -> [s EXCEPT !.now = Followed(@, {p \in Paths : Len(p) = 1})]
      [] s.class = {} /\ c = "{" -> [s EXCEPT !.open = Append(@, [before |-> s.now, ends |-> {}])]
      [] s.class = {} /\ c = "," /\ s.open # <<>> ->
            LET top == Last(s.open)
            IN [s EXCEPT !.open = Append(Front(@), [top EXCEPT !.ends = @ \cup s.now]), !.now = top.before]
      [] s.class = {} /\ c = "}" ->
            IF s.open = <<>> THEN [s EXCEPT !.bad = TRUE]
            ELSE [s EXCEPT !.open = Front(@), !.now = @ \cup Last(s.open).ends]
      [] OTHER -> [s EXCEPT !.now = Followed(@, {<<c>>})]
Glob(p) == FoldLeft(GlobStep, [now |-> {<<>>}, open |-> <<>>, class |-> {}, bad |-> FALSE], p)
\* Patterns that globset refuses do not reach the list (BadPattern).
Matched(p) == LET g == Glob(p) IN IF g.bad \/ g.open # <<>> \/ g.class # {} THEN {} ELSE g.now

\* last_literal_run: "every path it matches contains that run", whatever
\* classes, alternatives and stray brackets the pattern holds. The code moves
\* the start of a class's members at every negation sign, globset at one, so
\* `[!!][]a]` breaks it: its run is `a`, and it matches `,]`.
RunInMatches == \A path \in Matched(pattern) : PreCheck(path)

\* A class that begins with two negation signs.
NegatedTwice(p) == \E i \in 1..Len(p) - 2 : p[i] = "[" /\ {p[i + 1], p[i + 2]} \subseteq Negations

\* That is the only way: the pre-check hides no path that a pattern without
\* such a class matches.
PreCheckSound == ~NegatedTwice(pattern) => RunInMatches
=============================================================================
