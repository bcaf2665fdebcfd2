--------------------------- MODULE GovernanceRules ---------------------------
(***************************************************************************)
(* The tag governance engine: the schema (schema_provider.py), the         *)
(* normalizer, the validators and TagGovernanceEngine.evaluate, under      *)
(* src/src/governance.  Pure operators: a tag set is a function from keys  *)
(* to values.                                                              *)
(*                                                                         *)
(* When several keys have one canonical key, the engine keeps the value of *)
(* the one that comes first in the request or in what AWS lists; that      *)
(* order is left open, so normalize gives the set of possible results.     *)
(***************************************************************************)
EXTENDS Naturals, Sequences

CONSTANTS
    None,           \* no value
    Keys, Values,   \* tag keys and tag values
    Lower,          \* str.lower() of the keys
    Reserved,       \* keys that begin with aws: in lower case
    Blank,          \* values of which strip() leaves nothing
    SchemaFile,     \* the rules that tag-schema.yaml defines, in file order;
                    \* None when the file is missing or does not load
    UnknownTags,    \* GOVERNANCE_UNKNOWN_TAGS
    Normalization   \* GOVERNANCE_NORMALIZATION

RuleSet == [key : Keys, required : BOOLEAN, protected : BOOLEAN, allowed : SUBSET Values,
            pattern : {None} \cup SUBSET Values, aliases : SUBSET Keys]

ASSUME GovernanceAssumption ==
    /\ Lower \in [Keys -> Keys]
    /\ Reserved \subseteq Keys /\ Blank \subseteq Values
    /\ SchemaFile # None => /\ SchemaFile \in Seq(RuleSet)
                            /\ \A i, j \in DOMAIN SchemaFile :
                                  SchemaFile[i].key = SchemaFile[j].key => i = j
    /\ Normalization \in BOOLEAN

IsTagSet(ts) == DOMAIN ts \subseteq Keys /\ ts \in [DOMAIN ts -> Values]

\* The tags of a resource after a write: keys that are not written stay.
Written(ts, set) ==
    [k \in DOMAIN ts \cup DOMAIN set |-> IF k \in DOMAIN set THEN set[k] ELSE ts[k]]

\* A schema that does not load counts as an empty one.
get_schema == IF SchemaFile = None THEN <<>> ELSE SchemaFile

Positions == DOMAIN get_schema
SchemaKeys == {get_schema[i].key : i \in Positions}
RuleOf(k) == get_schema[CHOOSE i \in Positions : get_schema[i].key = k]

-----------------------------------------------------------------------------
(***************************************************************************)
(* Normalization                                                           *)
(***************************************************************************)

\* Rules that have k among their aliases, in any case.  A later rule overwrites
\* the entry of an earlier one, in the order the schema was loaded.
Aliased(k) == {i \in Positions : \E a \in get_schema[i].aliases : Lower[a] = Lower[k]}
ByAlias(k) == get_schema[CHOOSE i \in Aliased(k) : \A j \in Aliased(k) : j <= i].key

\* Rules whose own key is k but for case; the first one counts.
SameButCase(k) == {i \in Positions : Lower[get_schema[i].key] = Lower[k]}
ByCase(k) == get_schema[CHOOSE i \in SameButCase(k) : \A j \in SameButCase(k) : i <= j].key

_get_canonical_key(k) ==
    CASE k \in SchemaKeys -> k
      [] k \notin SchemaKeys /\ Aliased(k) # {} -> ByAlias(k)
      [] k \notin SchemaKeys /\ Aliased(k) = {} /\ SameButCase(k) # {} -> ByCase(k)
      [] OTHER -> k

Canonical(k) == IF Normalization THEN _get_canonical_key(k) ELSE k
CanonicalKeys(tags) == {Canonical(k) : k \in DOMAIN tags}

\* The tag sets under canonical keys that tags may become.
normalize(tags) ==
    {n \in [CanonicalKeys(tags) -> {tags[o] : o \in DOMAIN tags}] :
        \A k \in DOMAIN n : \E o \in DOMAIN tags : Canonical(o) = k /\ n[k] = tags[o]}

Violation(k, type) == [tag |-> k, type |-> type]

Conflicts(tags) ==
    {Violation(Canonical(k), "NORMALIZATION_CONFLICT") :
        k \in {o \in DOMAIN tags : \E p \in DOMAIN tags \ {o} : Canonical(p) = Canonical(o)}}

-----------------------------------------------------------------------------
(***************************************************************************)
(* Validation                                                              *)
(***************************************************************************)
Filled(tags, k) == k \in DOMAIN tags /\ tags[k] \notin Blank

validate_required(tags) ==
    {Violation(k, "MISSING_REQUIRED") :
        k \in {s \in SchemaKeys : RuleOf(s).required /\ ~Filled(tags, s)}}

validate_allowed_values(tags) ==
    {Violation(k, "INVALID_VALUE") :
        k \in {s \in SchemaKeys : /\ Filled(tags, s) /\ RuleOf(s).allowed # {}
                                  /\ tags[s] \notin RuleOf(s).allowed}}

\* A pattern is the set of values it matches: none, when it does not compile.
validate_pattern(tags) ==
    {Violation(k, "INVALID_FORMAT") :
        k \in {s \in SchemaKeys : /\ Filled(tags, s) /\ RuleOf(s).pattern # None
                                  /\ tags[s] \notin RuleOf(s).pattern}}

validate_unknown(tags) ==
    IF UnknownTags \in {"allow", "ignore"} THEN {}
    ELSE {Violation(k, "UNKNOWN_TAG") : k \in DOMAIN tags \ (SchemaKeys \cup Reserved)}

PolicyViolations(tags) ==
    validate_required(tags) \cup validate_allowed_values(tags)
        \cup validate_pattern(tags) \cup validate_unknown(tags)

-----------------------------------------------------------------------------
(***************************************************************************)
(* TagGovernanceEngine.evaluate of tags that normalized to n               *)
(***************************************************************************)
Skipped(v, partial) == partial /\ v.type = "MISSING_REQUIRED"
OnlyWarned(v) == UnknownTags = "warn" /\ v.type = "UNKNOWN_TAG"

MissingExtra(n, extra, partial) ==
    IF partial THEN {}
    ELSE {Violation(Canonical(k), "MISSING_REQUIRED") :
             k \in {x \in extra : ~Filled(n, Canonical(x))}}

Violations(tags, n, extra, partial) ==
    Conflicts(tags)
        \cup {v \in PolicyViolations(n) : ~Skipped(v, partial) /\ ~OnlyWarned(v)}
        \cup MissingExtra(n, extra, partial)

Warnings(n) == {v \in PolicyViolations(n) : OnlyWarned(v)}

\* What the writers ask: all tags of a resource, or those of one write.
Compliant(tags, n) == Violations(tags, n, {}, FALSE) = {}
ValidWrite(tags, n) == Violations(tags, n, {}, TRUE) = {}
=============================================================================
