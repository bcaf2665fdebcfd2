-------------------------- MODULE PropagationRules --------------------------
(***************************************************************************)
(* The propagation rules of src/src/propagation.py: which children each    *)
(* parent has, what of the parent's tags they should carry, the findings,  *)
(* and the plan that fixes them.                                           *)
(*                                                                         *)
(* An inventory is the sequence of resources that AWS lists in one account *)
(* and region.  A rule describes parents and children in two calls or      *)
(* more, so it is given two views of the tags: what it reads first and     *)
(* what it reads second.                                                   *)
(***************************************************************************)
EXTENDS GovernanceRules, SequencesExt

CONSTANTS
    PROPAGATE_KEYS,          \* {"all"}, {"schema"}, or the keys of the list
    PROPAGATE_EXCLUDE_KEYS,
    max_tasks                \* tasks of a service that are looked at

NoTags == [k \in {} |-> None]

\* The members of s that are in S, in their order.
Where(s, S) == FlattenSeq([i \in DOMAIN s |-> IF s[i] \in S THEN <<s[i]>> ELSE <<>>])

Lowered(keys) == {Lower[k] : k \in keys}

propagated_keys(ts) ==
    LET excluded == Lowered(PROPAGATE_EXCLUDE_KEYS)
        allowed == CASE PROPAGATE_KEYS = {"all"} -> Lowered(Keys)
                     [] PROPAGATE_KEYS = {"schema"} -> Lowered(SchemaKeys)
                     [] OTHER -> Lowered(PROPAGATE_KEYS)
    IN Restrict(ts, {k \in DOMAIN ts : /\ ts[k] # "" /\ k \notin Reserved
                                       /\ Lower[k] \notin excluded /\ Lower[k] \in allowed})

-----------------------------------------------------------------------------
(***************************************************************************)
(* Discovery.  A resource is a record [kind, name, of, state], where of    *)
(* holds the names of the parents it is attached to.  A view is a record   *)
(* [tags, on]: tags by resource, and the keys that an Auto Scaling group   *)
(* or a service hands on (a service all or none).                          *)
(***************************************************************************)
Listed(w, kinds) == Where(w, {r \in ToSet(w) : r.kind \in kinds})
Attached(w, p, kinds) == Where(w, {r \in ToSet(w) : r.kind \in kinds /\ p.name \in r.of})

\* Resources that are not in a state in which they are only listed any more.
Live(w, ended) == {r \in ToSet(w) : r.state # ended}

\* Children as a rule reports them: [arn, tags].
Seen(rs, view) == [i \in DOMAIN rs |-> [arn |-> rs[i], tags |-> view.tags[rs[i]]]]
_rel(p, view, children) ==
    [parent |-> p, tags |-> view.tags[p], children |-> children, config |-> {}]

VpcKinds == {"subnet", "security-group", "route-table", "network-acl", "internet-gateway",
             "natgateway", "vpc-endpoint"}

\* A NAT gateway is listed for a while after it was deleted.
_vpc(w, first, second) ==
    LET Kids(p) == Where(Attached(w, p, VpcKinds),
                         {r \in ToSet(w) : r.kind = "natgateway" => r.state # "deleted"})
        vpcs == Listed(w, {"vpc"})
    IN [i \in DOMAIN vpcs |-> _rel(vpcs[i], first, Seen(Kids(vpcs[i]), second))]

_instances(w) == Where(Listed(w, {"instance"}), Live(w, "terminated"))

\* A device that is attached but was not described counts as one without tags.
_ec2_instance(w, first, second) ==
    LET Devices(p) == Attached(w, p, {"volume", "network-interface"})
        Kid(r) == [arn |-> r, tags |-> IF r.state = "gone" THEN NoTags ELSE first.tags[r]]
        insts == _instances(w)
    IN [i \in DOMAIN insts |->
          _rel(insts[i], second, [j \in DOMAIN Devices(insts[i]) |-> Kid(Devices(insts[i])[j])])]

\* Volumes of which there are snapshots.
_ebs_volume(w, first, second) ==
    LET vols == Where(Listed(w, {"volume"}), {v \in ToSet(w) : Attached(w, v, {"snapshot"}) # <<>>})
    IN [i \in DOMAIN vols |-> _rel(vols[i], first, Seen(Attached(w, vols[i], {"snapshot"}), second))]

\* The ARN of an instance that the group still lists but that is terminated is
\* built without its account: it is no resource, and has no tags.
NoAccount(r) == [r EXCEPT !.state = "unknown"]

\* Tags of the group that new instances would not get are an issue.
_asg(w, first, second) ==
    LET Kid(r) == IF r \in ToSet(_instances(w)) THEN [arn |-> r, tags |-> first.tags[r]]
                  ELSE [arn |-> NoAccount(r), tags |-> NoTags]
        Kids(g) == [i \in DOMAIN Attached(w, g, {"instance"}) |-> Kid(Attached(w, g, {"instance"})[i])]
        off(g) == DOMAIN propagated_keys(second.tags[g]) \ second.on[g]
        groups == Listed(w, {"asg"})
    IN [i \in DOMAIN groups |->
          [_rel(groups[i], second, Kids(groups[i])) EXCEPT !.config =
             IF off(groups[i]) = {} THEN {}
             ELSE {[op |-> "asg_propagate", target |-> groups[i],
                    tags |-> Restrict(second.tags[groups[i]], off(groups[i]))]}]]

\* A service that hands on none of its tags is an issue.
_ecs_service(w, first, second) ==
    LET tasks(s) == Attached(w, s, {"task"})
        Kids(s) == Seen(SubSeq(tasks(s), 1, IF Len(tasks(s)) < max_tasks THEN Len(tasks(s)) ELSE max_tasks),
                        second)
        svcs == Listed(w, {"service"})
    IN [i \in DOMAIN svcs |->
          [_rel(svcs[i], first, Kids(svcs[i])) EXCEPT !.config =
             IF first.on[svcs[i]] = {} /\ propagated_keys(first.tags[svcs[i]]) # NoTags
             THEN {[op |-> "ecs_propagate", target |-> svcs[i], tags |-> NoTags]} ELSE {}]]

\* What CloudFormation marked with the name of the stack; a deleted stack is
\* listed for a while under its name.
_cloudformation(w, first, second) ==
    LET stacks == Where(Listed(w, {"stack"}), Live(w, "deleted"))
        Made(s) == Where(w, {r \in ToSet(w) : r.kind # "stack" /\ s.name \in r.of})
    IN [i \in DOMAIN stacks |-> _rel(stacks[i], second, Seen(Made(stacks[i]), first))]

\* Members that were not described are left out.
_rds_cluster(w, first, second) ==
    LET Members(c) == Where(Attached(w, c, {"db"}), Live(w, "gone"))
        cs == Listed(w, {"dbcluster"})
    IN [i \in DOMAIN cs |-> _rel(cs[i], second, Seen(Members(cs[i]), first))]

_eks_cluster(w, first, second) ==
    LET cs == Listed(w, {"ekscluster"})
    IN [i \in DOMAIN cs |-> _rel(cs[i], first, Seen(Attached(w, cs[i], {"nodegroup"}), second))]

\* The tags of both come last, in the same calls.
_elbv2(w, first, second) ==
    LET lbs == Listed(w, {"loadbalancer"})
    IN [i \in DOMAIN lbs |-> _rel(lbs[i], second, Seen(Attached(w, lbs[i], {"targetgroup"}), second))]

\* The log group has the name of the function, whether or not it exists.
LogGroup(f) == [kind |-> "log-group", name |-> f.name, of |-> {}, state |-> "live"]
_lambda(w, first, second) ==
    LET Kid(f) == [arn |-> LogGroup(f),
                   tags |-> IF LogGroup(f) \in DOMAIN second.tags THEN second.tags[LogGroup(f)] ELSE NoTags]
        fns == Listed(w, {"function"})
    IN [i \in DOMAIN fns |-> _rel(fns[i], first, <<Kid(fns[i])>>)]

RuleNames == {"vpc", "ec2_instance", "ebs_volume", "asg", "ecs_service", "cloudformation",
              "rds_cluster", "eks_cluster", "elbv2", "lambda"}

RULES(rule, w, first, second) ==
    CASE rule = "vpc" -> _vpc(w, first, second)
      [] rule = "ec2_instance" -> _ec2_instance(w, first, second)
      [] rule = "ebs_volume" -> _ebs_volume(w, first, second)
      [] rule = "asg" -> _asg(w, first, second)
      [] rule = "ecs_service" -> _ecs_service(w, first, second)
      [] rule = "cloudformation" -> _cloudformation(w, first, second)
      [] rule = "rds_cluster" -> _rds_cluster(w, first, second)
      [] rule = "eks_cluster" -> _eks_cluster(w, first, second)
      [] rule = "elbv2" -> _elbv2(w, first, second)
      [] rule = "lambda" -> _lambda(w, first, second)

\* What AWS knows of parents and children, whenever it is asked: c hangs on p
\* and is not beyond what the rule looks at.
IsChild(rule, w, p, c) ==
    LET Hangs(parent, kinds) == p.kind = parent /\ c.kind \in kinds /\ p.name \in c.of
    IN /\ {p, c} \subseteq ToSet(w)
       /\ \/ rule = "vpc" /\ Hangs("vpc", VpcKinds) /\ (c.kind = "natgateway" => c.state # "deleted")
          \/ /\ rule = "ec2_instance" /\ Hangs("instance", {"volume", "network-interface"})
             /\ p.state # "terminated" /\ c.state # "gone"
          \/ rule = "ebs_volume" /\ Hangs("volume", {"snapshot"})
          \/ rule = "asg" /\ Hangs("asg", {"instance"}) /\ c.state # "terminated"
          \/ rule = "ecs_service" /\ Hangs("service", {"task"}) /\ Len(Attached(w, p, {"task"})) <= max_tasks
          \/ /\ rule = "cloudformation" /\ p.kind = "stack" /\ c.kind # "stack"
             /\ p.name \in c.of /\ p.state # "deleted"
          \/ rule = "rds_cluster" /\ Hangs("dbcluster", {"db"}) /\ c.state # "gone"
          \/ rule = "eks_cluster" /\ Hangs("ekscluster", {"nodegroup"})
          \/ rule = "elbv2" /\ Hangs("loadbalancer", {"targetgroup"})
          \/ rule = "lambda" /\ p.kind = "function" /\ c = LogGroup(p)

\* What c may get tags from, whatever their states and the rules.
HandsOn(p, c) == p.name \in c.of \/ (p.kind = "function" /\ c = LogGroup(p))

-----------------------------------------------------------------------------
(***************************************************************************)
(* Findings and the plan to fix them                                       *)
(***************************************************************************)
missing(expected, have) == Restrict(expected, DOMAIN expected \ DOMAIN have)
mismatched(expected, have) ==
    Restrict(expected, {k \in DOMAIN expected \cap DOMAIN have : have[k] # expected[k]})

\* _finding_id: the rule, the parent, and the child or the issue.
Finding(rule, parent, child, miss, mis, op) ==
    [id |-> [rule |-> rule, parent |-> parent, child |-> child],
     missing |-> miss, mismatched |-> mis, op |-> op]
IsConfig(f) == f.op # NoTags

RelFindings(rule, rel) ==
    LET expected == propagated_keys(rel.tags)
        issues == SetToSeq(rel.config)
        config == [i \in DOMAIN issues |->
                      Finding(rule, rel.parent, rel.parent, NoTags, NoTags, issues[i])]
        wrong == Where(rel.children, {c \in ToSet(rel.children) :
                     missing(expected, c.tags) # NoTags \/ mismatched(expected, c.tags) # NoTags})
    IN config \o [i \in DOMAIN wrong |->
          Finding(rule, rel.parent, wrong[i].arn, missing(expected, wrong[i].tags),
                  mismatched(expected, wrong[i].tags), NoTags)]

findings_for(rule, rels) == FlattenSeq([i \in DOMAIN rels |-> RelFindings(rule, rels[i])])

\* What a finding asks for.
Asked(f, overwrite) ==
    IF IsConfig(f) THEN NoTags
    ELSE IF overwrite THEN Written(f.missing, f.mismatched) ELSE f.missing

Asking(fs, overwrite) == {i \in DOMAIN fs : Asked(fs[i], overwrite) # NoTags}

\* Mutant: only the last finding of a child is fixed.
fix_plan_last_finding(fs, overwrite) ==
    LET Of(c) == {i \in Asking(fs, overwrite) : fs[i].id.child = c}
        Latest(c) == CHOOSE i \in Of(c) : \A j \in Of(c) : j <= i
    IN [c \in {fs[i].id.child : i \in Asking(fs, overwrite)} |-> Asked(fs[Latest(c)], overwrite)]

\* Of two findings that ask for one key of a child, the later one wins.
fix_plan(fs, overwrite) ==
    LET For(c, k) == {i \in DOMAIN fs : fs[i].id.child = c /\ k \in DOMAIN Asked(fs[i], overwrite)}
        Latest(c, k) == CHOOSE i \in For(c, k) : \A j \in For(c, k) : j <= i
    IN [c \in {fs[i].id.child : i \in Asking(fs, overwrite)} |->
          [k \in {x \in Keys : For(c, x) # {}} |-> Asked(fs[Latest(c, k)], overwrite)[k]]]

ops(fs) == {fs[i].op : i \in {j \in DOMAIN fs : IsConfig(fs[j])}}

(***************************************************************************)
(* build_plan of src/src/changesets.py, for wanted tags by resource:       *)
(* what to change of what a resource has.  The resource is left alone when *)
(* what is wanted is not valid, which a conflict of keys is too.           *)
(***************************************************************************)
build_plan(targets, have, overwrite) ==
    [c \in DOMAIN targets |->
        LET set == CHOOSE n \in normalize(targets[c]) : TRUE
            cur == IF c \in DOMAIN have THEN have[c] ELSE NoTags
        IN [valid |-> ValidWrite(targets[c], set),
            changes |-> Restrict(set, {k \in DOMAIN set : k \in DOMAIN cur => overwrite /\ cur[k] # set[k]})]]
=============================================================================
