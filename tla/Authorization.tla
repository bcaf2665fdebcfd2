---------------------------- MODULE Authorization ----------------------------
(***************************************************************************)
(* Who may write tags: the policy of src/src/authorization, the owner rule *)
(* of insights.py and the protected keys of protected_tags.py.  Pure       *)
(* operators.  An identity is a record of its roles and of ids, its user   *)
(* id and email in lower case.                                             *)
(***************************************************************************)
EXTENDS GovernanceRules

CONSTANTS
    LowerValue,        \* str.lower() of the values
    Endings,           \* by value, the endings of it that follow a slash
    OWNER_MATCH_TAGS   \* keys whose value names an owner, in lower case

ASSUME AuthorizationAssumption ==
    /\ LowerValue \in [Values -> Values] /\ Endings \in [Values -> SUBSET Values]
    /\ OWNER_MATCH_TAGS \subseteq Keys

Holds(identity, roles) == identity.roles \cap roles # {}

can_write_any_tags(identity) ==
    Holds(identity, {"PlatformAdmin", "TagOperator", "ApplicationOwner"})
can_write_all_resources(identity) == Holds(identity, {"PlatformAdmin", "TagOperator"})
can_manage_protected_tags(identity) == Holds(identity, {"SecurityAdmin", "PlatformAdmin"})

\* Protected keys of the schema among keys, in any case, but not by an alias.
touched(keys) ==
    {s \in SchemaKeys : RuleOf(s).protected /\ \E k \in keys : Lower[k] = Lower[s]}

\* Tags by key in lower case, with values in lower case.  Of keys that differ
\* in case only the one that AWS lists last counts; that order is left open.
lowered(tags) ==
    LET keys == {Lower[k] : k \in DOMAIN tags}
    IN {l \in [keys -> {LowerValue[tags[k]] : k \in DOMAIN tags}] :
           \A s \in keys : \E k \in DOMAIN tags : Lower[k] = s /\ l[s] = LowerValue[tags[k]]}

owner_matches(ids, l) ==
    \E k \in OWNER_MATCH_TAGS \cap DOMAIN l :
        l[k] \notin Blank /\ ids \cap ({l[k]} \cup Endings[l[k]]) # {}

\* Whoever an owner tag names, or the Application tag names exactly.
is_owned(ids, l) ==
    \/ owner_matches(ids, l)
    \/ "application" \in DOMAIN l /\ l["application"] \in ids \ Blank

is_owner(identity, l) == is_owned(identity.ids, l)
can_modify_tags(identity, l) ==
    \/ can_write_all_resources(identity)
    \/ Holds(identity, {"ApplicationOwner"}) /\ is_owner(identity, l)
=============================================================================
