------------------------ MODULE GovernanceRulesProofs ------------------------
(***************************************************************************)
(* Proofs about the rules of module GovernanceRules, for every schema,     *)
(* every choice of keys and values, and every setting.                     *)
(***************************************************************************)
EXTENDS GovernanceRules, WellFoundedInduction, TLAPS

-----------------------------------------------------------------------------
(***************************************************************************)
(* Positions of the schema                                                 *)
(***************************************************************************)

\* A set of positions that is not empty has a first and a last member.
LEMMA FirstPosition ==
    ASSUME NEW T \in SUBSET Nat, T # {}
    PROVE  \E i \in T : \A j \in T : i <= j
  <1>1. \E i \in T : \A j \in T : ~ (<<j, i>> \in OpToRel(<, Nat))
    BY NatLessThanWellFounded, WFMin
  <1>2. PICK i \in T : \A j \in T : ~ (<<j, i>> \in OpToRel(<, Nat))
    BY <1>1
  <1>3. \A j \in T : ~(j < i)
    BY <1>2 DEF OpToRel
  <1>4. \A j \in T : i <= j
    BY <1>3
  <1>. QED
    BY <1>4

LEMMA LastPosition ==
    ASSUME NEW n \in Nat, NEW T \in SUBSET (1..n), T # {}
    PROVE  \E i \in T : \A j \in T : j <= i
  <1>. DEFINE U == {n - i : i \in T}
  <1>1. U \in SUBSET Nat /\ U # {}
    <2>1. \A i \in T : i \in Int /\ i <= n
      OBVIOUS
    <2>2. \A i \in T : n - i \in Nat
      BY <2>1
    <2>. QED
      BY <2>2
  <1>2. PICK u \in U : \A v \in U : u <= v
    BY <1>1, FirstPosition
  <1>3. PICK i \in T : u = n - i
    BY <1>2
  <1>4. \A j \in T : n - i <= n - j
    BY <1>2, <1>3
  <1>. QED
    BY <1>4

-----------------------------------------------------------------------------
(***************************************************************************)
(* Canonical keys                                                          *)
(***************************************************************************)

\* The schema is a list of rules with keys of their own, loaded or not.
LEMMA SchemaFacts ==
    /\ get_schema \in Seq(RuleSet)
    /\ \A i, j \in Positions : get_schema[i].key = get_schema[j].key => i = j
    /\ Positions = 1..Len(get_schema) /\ Len(get_schema) \in Nat
    /\ SchemaKeys \subseteq Keys
  <1>1. get_schema \in Seq(RuleSet)
    BY GovernanceAssumption DEF get_schema
  <1>2. \A i, j \in Positions : get_schema[i].key = get_schema[j].key => i = j
    BY GovernanceAssumption DEF get_schema, Positions
  <1>3. Positions = 1..Len(get_schema) /\ Len(get_schema) \in Nat
    BY <1>1 DEF Positions
  <1>4. \A i \in Positions : get_schema[i].key \in Keys
    <2>1. ASSUME NEW i \in Positions PROVE get_schema[i] \in RuleSet
      BY <1>1, <1>3
    <2>2. \A r \in RuleSet : r.key \in Keys
      BY DEF RuleSet
    <2>. QED
      BY <2>1, <2>2
  <1>. QED
    BY <1>1, <1>2, <1>3, <1>4 DEF SchemaKeys

LEMMA ByAliasInSchema == ASSUME NEW k, Aliased(k) # {} PROVE ByAlias(k) \in SchemaKeys
  <1>1. Aliased(k) \in SUBSET (1..Len(get_schema))
    BY SchemaFacts DEF Aliased
  <1>2. \E i \in Aliased(k) : \A j \in Aliased(k) : j <= i
    BY <1>1, SchemaFacts, LastPosition
  <1>3. (CHOOSE i \in Aliased(k) : \A j \in Aliased(k) : j <= i) \in Positions
    BY <1>2 DEF Aliased
  <1>. QED
    BY <1>3 DEF ByAlias, SchemaKeys

LEMMA ByCaseInSchema == ASSUME NEW k, SameButCase(k) # {} PROVE ByCase(k) \in SchemaKeys
  <1>1. SameButCase(k) \in SUBSET Nat
    BY SchemaFacts DEF SameButCase
  <1>2. \E i \in SameButCase(k) : \A j \in SameButCase(k) : i <= j
    BY <1>1, FirstPosition
  <1>3. (CHOOSE i \in SameButCase(k) : \A j \in SameButCase(k) : i <= j) \in Positions
    BY <1>2 DEF SameButCase
  <1>. QED
    BY <1>3 DEF ByCase, SchemaKeys

\* A key becomes a key of the schema or stays.
LEMMA CanonicalKey ==
    ASSUME NEW k \in Keys
    PROVE  /\ Canonical(k) \in Keys
           /\ Canonical(k) = k \/ Canonical(k) \in SchemaKeys
  <1>1. _get_canonical_key(k) = k \/ _get_canonical_key(k) \in SchemaKeys
    BY ByAliasInSchema, ByCaseInSchema DEF _get_canonical_key
  <1>. QED
    BY <1>1, SchemaFacts DEF Canonical

\* Normalizing twice is normalizing once: a canonical key is its own canonical
\* key, so no alias or spelling leads to another alias.
THEOREM CanonicalIsIdempotent == \A k \in Keys : Canonical(Canonical(k)) = Canonical(k)
  <1>1. \A k \in SchemaKeys : Canonical(k) = k
    BY DEF Canonical, _get_canonical_key
  <1>. QED
    BY <1>1, CanonicalKey

-----------------------------------------------------------------------------
(***************************************************************************)
(* Normalized tag sets                                                     *)
(***************************************************************************)
HasCanonicalKeys(ts) == \A k \in DOMAIN ts : Canonical(k) = k
IsFcn(ts) == ts = [k \in DOMAIN ts |-> ts[k]]

\* What normalize may give is a tag set under canonical keys, with the values
\* it was given.
LEMMA NormalizedTags ==
    ASSUME NEW ts, IsTagSet(ts), NEW n \in normalize(ts)
    PROVE  IsTagSet(n) /\ HasCanonicalKeys(n)
  <1>1. \A k \in DOMAIN n : \E o \in DOMAIN ts : Canonical(o) = k /\ n[k] = ts[o]
    BY DEF normalize
  <1>2. DOMAIN n = CanonicalKeys(ts) /\ n \in [DOMAIN n -> {ts[o] : o \in DOMAIN ts}]
    BY DEF normalize
  <1>3. DOMAIN n \subseteq Keys
    BY <1>1, CanonicalKey DEF IsTagSet
  <1>4. \A k \in DOMAIN n : n[k] \in Values
    BY <1>1 DEF IsTagSet
  <1>5. HasCanonicalKeys(n)
    BY <1>1, CanonicalIsIdempotent DEF HasCanonicalKeys, IsTagSet
  <1>. QED
    BY <1>2, <1>3, <1>4, <1>5 DEF IsTagSet

\* Tags under canonical keys are already normalized, and without conflicts.
LEMMA CanonicalTagsStay ==
    ASSUME NEW ts, IsFcn(ts), HasCanonicalKeys(ts)
    PROVE  normalize(ts) = {ts} /\ Conflicts(ts) = {}
  <1>1. CanonicalKeys(ts) = DOMAIN ts
    BY DEF CanonicalKeys, HasCanonicalKeys
  <1>2. ts \in normalize(ts)
    BY <1>1 DEF normalize, IsFcn, HasCanonicalKeys
  <1>3. ASSUME NEW n \in normalize(ts) PROVE n = ts
    <2>1. n \in [DOMAIN ts -> {ts[o] : o \in DOMAIN ts}]
      BY <1>1 DEF normalize
    <2>2. \A k \in DOMAIN ts : n[k] = ts[k]
      BY <2>1 DEF normalize, HasCanonicalKeys
    <2>. QED
      BY <2>1, <2>2 DEF IsFcn
  <1>4. Conflicts(ts) = {}
    BY DEF Conflicts, HasCanonicalKeys
  <1>. QED
    BY <1>2, <1>3, <1>4

\* A write under canonical keys leaves canonical keys.
LEMMA WrittenTags ==
    ASSUME NEW ts, HasCanonicalKeys(ts), NEW w, HasCanonicalKeys(w)
    PROVE  IsFcn(Written(ts, w)) /\ HasCanonicalKeys(Written(ts, w))
BY DEF IsFcn, HasCanonicalKeys, Written

-----------------------------------------------------------------------------
(***************************************************************************)
(* Validation                                                              *)
(***************************************************************************)

\* What validation finds and does not excuse.
Faults(n, partial) == {v \in PolicyViolations(n) : ~Skipped(v, partial) /\ ~OnlyWarned(v)}

\* Partial evaluation never asks for tags that a write does not carry.
THEOREM PartialNeverMissing ==
    ASSUME NEW tags, NEW n, NEW extra
    PROVE  \A v \in Violations(tags, n, extra, TRUE) : v.type # "MISSING_REQUIRED"
  <1>1. \A v \in Conflicts(tags) : v.type # "MISSING_REQUIRED"
    BY DEF Conflicts, Violation
  <1>2. \A v \in Violations(tags, n, extra, TRUE) : v \in Conflicts(tags) \/ ~Skipped(v, TRUE)
    BY DEF Violations, MissingExtra
  <1>. QED
    BY <1>1, <1>2 DEF Skipped

LEMMA CompliantMeans ==
    ASSUME NEW ts, IsFcn(ts), HasCanonicalKeys(ts)
    PROVE  Compliant(ts, ts) <=> Faults(ts, FALSE) = {}
  <1>1. MissingExtra(ts, {}, FALSE) = {}
    BY DEF MissingExtra
  <1>2. Violations(ts, ts, {}, FALSE) = Faults(ts, FALSE)
    BY <1>1, CanonicalTagsStay DEF Violations, Faults
  <1>. QED
    BY <1>2 DEF Compliant

\* What is wrong with a resource after a write was wrong with it before, or is
\* wrong with the write.
LEMMA WriteAddsNoFault ==
    ASSUME NEW ts, NEW w, \A k \in DOMAIN w : w[k] \notin Blank
    PROVE  Faults(Written(ts, w), FALSE) \subseteq Faults(ts, FALSE) \cup Faults(w, TRUE)
  <1>. DEFINE r == Written(ts, w)
  <1>1. /\ DOMAIN r = DOMAIN ts \cup DOMAIN w
        /\ \A k \in DOMAIN w : r[k] = w[k] /\ Filled(w, k)
        /\ \A k \in DOMAIN ts \ DOMAIN w : r[k] = ts[k]
    BY DEF Written, Filled
  <1>2. \A k : k \in DOMAIN w => Filled(r, k)
    BY <1>1 DEF Filled
  <1>3. \A k : k \notin DOMAIN w => (Filled(r, k) <=> Filled(ts, k))
    BY <1>1 DEF Filled
  <1>. HIDE DEF r
  <1>4. validate_required(r) \subseteq validate_required(ts)
    BY <1>2, <1>3 DEF validate_required
  <1>5. validate_allowed_values(r) \subseteq validate_allowed_values(ts) \cup validate_allowed_values(w)
    <2>1. ASSUME NEW k \in SchemaKeys, Filled(r, k), RuleOf(k).allowed # {}, r[k] \notin RuleOf(k).allowed
          PROVE  Violation(k, "INVALID_VALUE") \in validate_allowed_values(ts) \cup validate_allowed_values(w)
      <3>1. CASE k \in DOMAIN w
        BY <3>1, <2>1, <1>1 DEF validate_allowed_values
      <3>2. CASE k \notin DOMAIN w
        <4>1. Filled(ts, k) /\ ts[k] = r[k]
          BY <3>2, <2>1, <1>1, <1>3 DEF Filled
        <4>. QED
          BY <4>1, <2>1 DEF validate_allowed_values
      <3>. QED
        BY <3>1, <3>2
    <2>. QED
      BY <2>1 DEF validate_allowed_values
  <1>6. validate_pattern(r) \subseteq validate_pattern(ts) \cup validate_pattern(w)
    <2>1. ASSUME NEW k \in SchemaKeys, Filled(r, k), RuleOf(k).pattern # None, r[k] \notin RuleOf(k).pattern
          PROVE  Violation(k, "INVALID_FORMAT") \in validate_pattern(ts) \cup validate_pattern(w)
      <3>1. CASE k \in DOMAIN w
        BY <3>1, <2>1, <1>1 DEF validate_pattern
      <3>2. CASE k \notin DOMAIN w
        <4>1. Filled(ts, k) /\ ts[k] = r[k]
          BY <3>2, <2>1, <1>1, <1>3 DEF Filled
        <4>. QED
          BY <4>1, <2>1 DEF validate_pattern
      <3>. QED
        BY <3>1, <3>2
    <2>. QED
      BY <2>1 DEF validate_pattern
  <1>7. validate_unknown(r) \subseteq validate_unknown(ts) \cup validate_unknown(w)
    BY <1>1 DEF validate_unknown
  <1>8. \A v \in validate_allowed_values(w) \cup validate_pattern(w) \cup validate_unknown(w) :
            ~Skipped(v, TRUE)
    BY DEF validate_allowed_values, validate_pattern, validate_unknown, Violation, Skipped
  <1>9. ASSUME NEW v \in Faults(r, FALSE) PROVE v \in Faults(ts, FALSE) \cup Faults(w, TRUE)
    <2>1. v \in PolicyViolations(r) /\ ~OnlyWarned(v)
      BY DEF Faults
    <2>2. CASE v \in PolicyViolations(ts)
      BY <2>1, <2>2 DEF Faults, Skipped
    <2>3. CASE v \in validate_allowed_values(w) \cup validate_pattern(w) \cup validate_unknown(w)
      BY <2>1, <2>3, <1>8 DEF Faults, PolicyViolations
    <2>. QED
      BY <2>1, <2>2, <2>3, <1>4, <1>5, <1>6, <1>7 DEF PolicyViolations
  <1>. QED
    BY <1>9 DEF r

\* Why tag_writer may validate a write by its own keys only: a compliant
\* resource with canonical keys stays compliant when what is written passed the
\* partial evaluation of strict mode and blanks nothing.
THEOREM ValidWritesKeepCompliance ==
    ASSUME NEW ts, IsFcn(ts), HasCanonicalKeys(ts), Compliant(ts, ts),
           NEW req, IsTagSet(req), NEW w \in normalize(req), ValidWrite(req, w),
           \A k \in DOMAIN w : w[k] \notin Blank
    PROVE  Compliant(Written(ts, w), Written(ts, w))
  <1>1. IsTagSet(w) /\ HasCanonicalKeys(w)
    BY NormalizedTags
  <1>2. IsFcn(Written(ts, w)) /\ HasCanonicalKeys(Written(ts, w))
    BY <1>1, WrittenTags
  <1>3. Faults(w, TRUE) = {}
    BY DEF ValidWrite, Violations, Faults
  <1>4. Faults(ts, FALSE) = {}
    BY CompliantMeans
  <1>5. Faults(Written(ts, w), FALSE) = {}
    BY <1>3, <1>4, WriteAddsNoFault
  <1>. QED
    BY <1>2, <1>5, CompliantMeans
=============================================================================
