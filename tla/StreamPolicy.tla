----------------------------- MODULE StreamPolicy -----------------------------
(***************************************************************************)
(* Parsing a stream policy and applying it to a stream name                *)
(* (StreamPolicy::from_str and stream_rule in event-system/src/            *)
(* stream_policy.rs).                                                      *)
(*                                                                         *)
(* The input is a sequence of comma separated directives.  A directive is  *)
(* blank, a bare rule, or a prefix with the value after its '='; names and *)
(* prefixes are sequences of letters, and a value is absent, on, off or    *)
(* something that is not a rule.  Case and white space are left out.       *)
(***************************************************************************)
EXTENDS Integers, Sequences, FiniteSetsExt, Functions

CONSTANTS
    Prefix,        \* prefixes a directive may name, sequences of numbers
    StreamName,    \* names the policy is asked about
    MaxDirectives  \* bound on the directives of one input

ASSUME PolicyAssumption ==
    /\ \A p \in Prefix \cup StreamName : p \in Seq(Nat)
    /\ MaxDirectives \in Nat

VARIABLES
    input,         \* the directives read so far
    default_rule,
    prefix_rules,
    status         \* "parsing", "parsed" or "error"

parseVars == <<input, default_rule, prefix_rules, status>>

Rule == {"on", "off"}
Value == {"", "on", "off", "invalid"}

Blank == [kind |-> "blank"]
BareRule == [kind : {"rule"}, rule : Rule]
PrefixDirective == [kind : {"prefix"}, prefix : Prefix, value : Value]
Directive == {Blank} \cup BareRule \cup PrefixDirective

ParseInit ==
    /\ input = <<>>
    /\ default_rule = "off"
    /\ prefix_rules = <<>>
    /\ status = "parsing"

\* The rule of a prefix directive whose value is not invalid.
ParsedRule(value) == IF value = "" THEN "on" ELSE value

\* Mutant: the first directive with a prefix wins.
KeepFirstRule(rules, r) ==
    IF \E i \in DOMAIN rules : rules[i].prefix = r.prefix
    THEN rules
    ELSE Append(rules, r)

\* A later directive with the same prefix replaces the earlier one in place.
InsertRule(rules, r) ==
    IF \E i \in DOMAIN rules : rules[i].prefix = r.prefix
    THEN [i \in DOMAIN rules |-> IF rules[i].prefix = r.prefix THEN r ELSE rules[i]]
    ELSE Append(rules, r)

\* One iteration of the loop over the directives.
ParseDirective(d) ==
    /\ status = "parsing"
    /\ Len(input) < MaxDirectives
    /\ input' = Append(input, d)
    /\ CASE d.kind = "blank" ->
              UNCHANGED <<default_rule, prefix_rules, status>>
         [] d.kind = "rule" ->
              /\ default_rule' = d.rule
              /\ UNCHANGED <<prefix_rules, status>>
         [] d.kind = "prefix" /\ d.value = "invalid" ->
              /\ status' = "error"
              /\ UNCHANGED <<default_rule, prefix_rules>>
         [] d.kind = "prefix" /\ d.value # "invalid" /\ d.prefix = <<>> ->
              /\ default_rule' = ParsedRule(d.value)
              /\ UNCHANGED <<prefix_rules, status>>
         [] OTHER ->
              /\ prefix_rules' = InsertRule(prefix_rules,
                     [prefix |-> d.prefix, stream_state |-> ParsedRule(d.value)])
              /\ UNCHANGED <<default_rule, status>>

\* str::starts_with
StartsWith(name, prefix) ==
    Len(prefix) <= Len(name) /\ SubSeq(name, 1, Len(prefix)) = prefix

\* String comparison.
LexLess(p, q) ==
    \/ p # q /\ StartsWith(q, p)
    \/ \E i \in DOMAIN p \cap DOMAIN q :
          /\ p[i] < q[i]
          /\ \A j \in 1 .. i - 1 : p[j] = q[j]

\* Mutant: rules of one length keep the order of the input.
LengthOnly(r, s) == Len(r.prefix) < Len(s.prefix)

\* The order of the final sort: by length, then lexicographically.
RuleLess(r, s) ==
    \/ Len(r.prefix) < Len(s.prefix)
    \/ Len(r.prefix) = Len(s.prefix) /\ LexLess(r.prefix, s.prefix)

\* sort_by: the order of the rules in which none comes before one that is less,
\* and of two that are neither less the earlier one stays first.
SortBy(rules) ==
    LET order == CHOOSE p \in Bijection(DOMAIN rules, DOMAIN rules) :
                    \A i, j \in DOMAIN rules :
                        i < j => /\ ~RuleLess(rules[p[j]], rules[p[i]])
                                 /\ RuleLess(rules[p[i]], rules[p[j]]) \/ p[i] < p[j]
    IN  [i \in DOMAIN rules |-> rules[order[i]]]

\* The end of from_str: the rules are sorted.
FinishParsing ==
    /\ status = "parsing"
    /\ status' = "parsed"
    /\ prefix_rules' = SortBy(prefix_rules)
    /\ UNCHANGED <<input, default_rule>>

\* stream_rule: the last matching prefix rule, or the default.
StreamRule(name) ==
    LET matches == {i \in DOMAIN prefix_rules : StartsWith(name, prefix_rules[i].prefix)}
    IN  IF matches = {} THEN default_rule ELSE prefix_rules[Max(matches)].stream_state

\* A parsed or rejected input stays as it is.
ParsingFinished == status # "parsing" /\ UNCHANGED parseVars

ParseNext ==
    \/ \E d \in Directive : ParseDirective(d)
    \/ FinishParsing
    \/ ParsingFinished

ParseSpec == ParseInit /\ [][ParseNext]_parseVars

-----------------------------------------------------------------------------
\* A directive says something about a prefix, a bare rule about the empty one.
Concerns(d, p) ==
    \/ d.kind = "rule" /\ p = <<>>
    \/ d.kind = "prefix" /\ d.prefix = p

About(p) == {i \in DOMAIN input : Concerns(input[i], p)}

RuleOf(d) == IF d.kind = "rule" THEN d.rule ELSE ParsedRule(d.value)

\* What the last directive about a prefix says.
LastRule(p) == RuleOf(input[Max(About(p))])

\* What the documentation promises: the longest prefix of the name that some
\* directive names, and of the directives that name it the last one.
ExpectedRule(name) ==
    LET named == {p \in Prefix \cup {<<>>} : About(p) # {} /\ StartsWith(name, p)}
        longest == CHOOSE p \in named : \A q \in named : Len(q) <= Len(p)
    IN  IF named = {} THEN "off" ELSE LastRule(longest)

(* stream_rule finds the rule of the longest matching prefix and, of the     *)
(* directives that name it, the last: the scan from the end of the sorted    *)
(* rules, the replacement of duplicates and the three spellings of the       *)
(* default rule together implement the documented precedence.                *)
LongestPrefixLastDirectiveWins ==
    status = "parsed" => \A n \in StreamName : StreamRule(n) = ExpectedRule(n)

(* The parsed policy only depends on the last directive of every prefix, not *)
(* on the order in which prefixes appear: equal policies compare equal,      *)
(* which the derived PartialEq of StreamPolicy relies on.                    *)
PolicyIsNormalForm ==
    status = "parsed" =>
        /\ \A i, j \in DOMAIN prefix_rules :
              i < j => RuleLess(prefix_rules[i], prefix_rules[j])
        /\ {prefix_rules[i] : i \in DOMAIN prefix_rules}
             = {[prefix |-> p, stream_state |-> LastRule(p)] :
                   p \in {q \in Prefix \ {<<>>} : About(q) # {}}}
=============================================================================
