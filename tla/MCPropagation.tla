---------------------------- MODULE MCPropagation ----------------------------
(***************************************************************************)
(* Instances of Propagation for TLC: a story for each rule, with what the  *)
(* rule must leave out, and stories in which rules, places and requests    *)
(* meet.                                                                   *)
(***************************************************************************)
EXTENDS Propagation

CONSTANTS c1, c2, u1

Symmetry == Permutations({c1, c2})

KeySet == {"Owner", "owner", "Environment", "Name"}
LowerOf == [k \in KeySet |-> IF k = "Owner" THEN "owner" ELSE k]
ValueSet == {"alice", "bob", "dev", "qa", ""}
TwoRules ==
    <<[key |-> "Owner", required |-> TRUE, protected |-> FALSE, allowed |-> {}, pattern |-> None, aliases |-> {"owner"}],
      [key |-> "Environment", required |-> TRUE, protected |-> FALSE, allowed |-> {"dev"}, pattern |-> None, aliases |-> {}]>>

R(kind, name, of) == [kind |-> kind, name |-> name, of |-> of, state |-> "live"]
In(state, r) == [r EXCEPT !.state = state]

Here == <<"111", "r1">>
There == <<"222", "r1">>
Owner(o) == [Owner |-> o]
Both(o, e) == [Owner |-> o, Environment |-> e, Name |-> o]
Pair(rule, p, c) == [place |-> Here, rule |-> rule, parent |-> p, child |-> c]

\* A story in one place, where all but the named parents have no tags at first.
Story(w, pairs, given, rules, changes, most, room) ==
    [inventory |-> [p \in {Here} |-> w], pairs |-> pairs, rules |-> rules, edits |-> changes,
     tags |-> [r \in ToSet(w) |-> IF r \in DOMAIN given THEN given[r] ELSE NoTags],
     asks |-> most, room |-> room, levels |-> 1]

\* A parent p and its child c, with others that are no children (or no parents).
Plain(rule, p, c, others) ==
    Story(<<p, c>> \o others, {Pair(rule, p, c)}, [r \in {p} |-> Both("alice", "dev")], <<rule>>,
          {[arn |-> p, tags |-> Owner("bob")], [arn |-> c, tags |-> [owner |-> "bob"]]}, 3, 1)

V == R("vpc", "v", {})
I == R("instance", "i", {"g"})
Vol == R("volume", "vol", {"i"})
Snap == R("snapshot", "s", {"vol"})
G == R("asg", "g", {})
S == R("service", "svc", {})
T1 == R("task", "t1", {"svc"})
Stack == R("stack", "st", {})
C == R("dbcluster", "c", {})
L == R("loadbalancer", "l", {})
TG == R("targetgroup", "tg", {"l", "m"})
F == R("function", "f", {})
LG == R("log-group", "f", {})

PerRule ==
    {Plain("vpc", V, R("subnet", "n", {"v"}), <<In("deleted", R("natgateway", "gw", {"v"}))>>),
     Plain("vpc", V, R("internet-gateway", "igw", {"v"}), <<R("subnet", "n", {"other"})>>),
     Plain("ec2_instance", I, Vol, <<In("terminated", R("instance", "j", {}))>>),
     Plain("ec2_instance", I, R("network-interface", "eni", {"i"}), <<In("gone", R("volume", "vol", {"i"}))>>),
     Plain("ebs_volume", Vol, Snap, <<R("volume", "w", {})>>),
     Plain("asg", G, I, <<In("terminated", R("instance", "j", {"g"}))>>),
     Plain("ecs_service", S, T1, <<>>),
     Plain("cloudformation", Stack, R("queue", "q", {"st"}), <<In("deleted", Stack)>>),
     Plain("rds_cluster", C, R("db", "d", {"c"}), <<In("gone", R("db", "e", {"c"}))>>),
     Plain("eks_cluster", R("ekscluster", "k", {}), R("nodegroup", "ng", {"k"}), <<>>),
     Plain("elbv2", L, TG, <<>>),
     Plain("lambda", F, LG, <<R("function", "x", {})>>)}

\* The tags of an instance go down to snapshots, one level in each round.
Chain == [Story(<<I, Vol, Snap>>, {Pair("ec2_instance", I, Vol), Pair("ebs_volume", Vol, Snap)},
                [r \in {I} |-> Owner("alice")], <<"ec2_instance", "ebs_volume">>, {}, 4, 0)
             EXCEPT !.levels = 2]

\* Two parents that disagree, and a value that the schema refuses.
M == R("loadbalancer", "m", {})
Conflict == Story(<<L, M, TG>>, {Pair("elbv2", L, TG), Pair("elbv2", M, TG)},
                  (L :> Both("alice", "dev")) @@ (M :> Owner("bob")),
                  <<"elbv2">>, {}, 3, 0)
Refused == Story(<<V, R("subnet", "n", {"v"})>>, {Pair("vpc", V, R("subnet", "n", {"v"}))},
                 V :> Both("alice", "qa"), <<"vpc">>, {[arn |-> V, tags |-> Both("alice", "dev")]}, 3, 1)

\* Two accounts, in one of which the rule may fail.
Two == [Story(<<Vol, Snap>>, {Pair("ebs_volume", Vol, Snap)}, [r \in {Vol} |-> Owner("alice")],
              <<"ebs_volume">>, {[arn |-> Snap, tags |-> Owner("bob")]}, 3, 2)
           EXCEPT !.inventory = [p \in {Here, There} |-> IF p = Here THEN <<Vol, Snap>> ELSE <<>>]]

AllStories == PerRule \cup {Chain, Conflict, Refused, Two}
=============================================================================
