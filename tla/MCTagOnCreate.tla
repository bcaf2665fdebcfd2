---------------------------- MODULE MCTagOnCreate ----------------------------
(***************************************************************************)
(* Instances of TagOnCreate for TLC.  The create calls cover every entry   *)
(* of the event table, with every alternative of its extractor, one call   *)
(* per story; two stories let the events of several calls meet.  What a    *)
(* call makes is written down here apart from the extractors.              *)
(***************************************************************************)
EXTENDS TagOnCreate, TLC

CONSTANTS i1, e1, w1

\* The schema: Owner and Environment are required, both have an alias, and
\* Environment is protected.
KeySet == {"Owner", "owner", "Environment", "environment", "env", "Application", "application"}
LowerOf == [k \in KeySet |-> CASE k = "Owner" -> "owner" [] k = "Environment" -> "environment"
                               [] k = "Application" -> "application" [] OTHER -> k]
ValueSet == {"alice", "bob", "root", "dev", "qa", ""}
LowerValues == [v \in ValueSet |-> v]
NoEndings == [v \in ValueSet |-> {}]
TwoRules ==
    <<[key |-> "Owner", required |-> TRUE, protected |-> FALSE, allowed |-> {}, pattern |-> ValueSet, aliases |-> {"owner"}],
      [key |-> "Environment", required |-> TRUE, protected |-> TRUE, allowed |-> {"dev"}, pattern |-> None, aliases |-> {"env"}]>>

User(name) == [type |-> "IAMUser", userName |-> name, principalName |-> None, principalId |-> None,
               sessionName |-> None]
Of(type, field, name) == [User(None) EXCEPT !.type = type, ![field] = name]
Callers == {User("alice"), Of("IAMUser", "principalName", "alice"), Of("AssumedRole", "sessionName", "bob"),
            Of("SAMLUser", "principalId", "bob"), Of("Root", "userName", None),
            Of("AWSService", "userName", "alice"), Of("Other", "principalId", "bob"), None}

F(path, v) == [p \in {path} |-> v]
Envelope == F("region", "r1")

\* A call of alice in region r1, or of another caller.
Call(ev, req, resp, made) ==
    [detail |-> [eventName |-> ev, userIdentity |-> User("alice"), requestParameters |-> req,
                 responseElements |-> resp, recipientAccountId |-> "111", awsRegion |-> None],
     envelope |-> Envelope, makes |-> made, tags |-> NoTags]
By(call, uid) == [call EXCEPT !.detail.userIdentity = uid]

R(service, kind) == Arn(service, "r1", "111", kind, "x")
Whole == Arn("any", "r2", "111", "any", "x")
Bucket == Arn("s3", None, None, "bucket", "x")

\* The ARN in the response.
Whole1 == {Call(p[1], None, F(p[2], Whole), {Whole}) : p \in
    {<<"CreateFunction", "functionArn">>, <<"CreateFunction20150331", "functionArn">>,
     <<"CreateDBInstance", "dBInstanceArn">>, <<"CreateDBCluster", "dBClusterArn">>,
     <<"CreateTopic", "topicArn">>, <<"CreateTable", "tableDescription.tableArn">>,
     <<"CreateSecret", "ARN">>, <<"CreateDomain", "domainStatus.arn">>,
     <<"CreateElasticsearchDomain", "domainStatus.ARN">>,
     <<"CreateLoadBalancer", "loadBalancers[0].loadBalancerArn">>,
     <<"CreateCluster", "cluster.clusterArn">>, <<"CreateCluster", "cluster.arn">>,
     <<"CreateService", "service.serviceArn">>, <<"CreateRepository", "repository.repositoryArn">>,
     <<"CreateKey", "keyMetadata.arn">>, <<"CreateStateMachine", "stateMachineArn">>,
     <<"CreateStack", "stackId">>, <<"CreateNotebookInstance", "NotebookInstanceArn">>,
     <<"CreateModel", "ModelArn">>, <<"CreateTrainingJob", "TrainingJobArn">>}}

\* An identifier in the response.
Id1 == {Call(p[1], None, F(p[2], "x"), {R(p[3], p[4])}) : p \in
    {<<"CreateVolume", "volumeId", "ec2", "volume">>,
     <<"CreateVolume", "CreateVolumeResponse.volumeId", "ec2", "volume">>,
     <<"CreateSnapshot", "snapshotId", "ec2", "snapshot">>, <<"CreateVpc", "vpc.vpcId", "ec2", "vpc">>,
     <<"CreateSubnet", "subnet.subnetId", "ec2", "subnet">>,
     <<"CreateSecurityGroup", "groupId", "ec2", "security-group">>,
     <<"CreateInternetGateway", "internetGateway.internetGatewayId", "ec2", "internet-gateway">>,
     <<"CreateNatGateway", "natGateway.natGatewayId", "ec2", "natgateway">>,
     <<"CreateRouteTable", "routeTable.routeTableId", "ec2", "route-table">>,
     <<"CreateNetworkInterface", "networkInterface.networkInterfaceId", "ec2", "network-interface">>,
     <<"CreateCluster", "cluster.clusterIdentifier", "redshift", "cluster">>,
     <<"CreateCacheCluster", "cacheCluster.cacheClusterId", "elasticache", "cluster">>,
     <<"CreateReplicationGroup", "replicationGroup.replicationGroupId", "elasticache", "replicationgroup">>,
     <<"RunJobFlow", "clusterId", "elasticmapreduce", "cluster">>}}

\* A name in the request.
Name1 == {Call(p[1], F(p[2], "x"), Nothing, {R(p[3], p[4])}) : p \in
    {<<"CreateLoadBalancer", "loadBalancerName", "elasticloadbalancing", "loadbalancer">>,
     <<"CreateStream", "streamName", "kinesis", "stream">>,
     <<"CreateLogGroup", "logGroupName", "logs", "log-group">>,
     <<"CreateWorkGroup", "workGroup", "athena", "workgroup">>,
     <<"CreateJob", "name", "glue", "job">>, <<"CreateJob", "JobName", "glue", "job">>,
     <<"CreateCrawler", "CrawlerName", "glue", "crawler">>,
     <<"CreateDatabase", "DatabaseInput.Name", "glue", "database">>}}

Api(kind) == Arn("apigateway", "r1", None, kind, "x")
Instance(id) == Arn("ec2", "r1", "111", "instance", id)
Run == Call("RunInstances", None, F("instancesSet.items", {"x", "y"}), {Instance("x"), Instance("y")})
NewBucket == Call("CreateBucket", F("bucketName", "x"), Nothing, {Bucket})

Other1 ==
    {Call("CreateRestApi", None, F("id", "x"), {Api("restapis")}),
     Call("CreateApi", None, F("apiId", "x"), {Api("apis")}), NewBucket,
     Call("CreateQueue", None, F("queueUrl", [region |-> "r2", account |-> "111", name |-> "x"]),
          {Arn("sqs", "r2", "111", "queue", "x")}),
     Call("CreateQueue", None, F("queueUrl", [region |-> None, account |-> None, name |-> None]), {}),
     [Call("CreateVolume", None, Nothing, {R("ec2", "volume")}) EXCEPT
         !.envelope = [region |-> "r1", resources |-> {R("ec2", "volume"), R("ec2", "snapshot")}]],
     Call("DeleteBucket", F("bucketName", "x"), Nothing, {})}

\* A bucket that alice makes and tags; bob's call for the same name fails.
Tags(o, e) == [Owner |-> o, Environment |-> e]
FailedCall == By(Call("CreateBucket", F("bucketName", "x"), None, {}), User("bob"))
Race == {NewBucket, FailedCall}
TaggedRace == {[NewBucket EXCEPT !.tags = Tags("alice", "dev")], FailedCall}

\* Two resources of bob in two regions.
OfBob == {[NewBucket EXCEPT !.tags = Tags("bob", "dev")],
          [Call("CreateTopic", None, F("topicArn", Whole), {Whole}) EXCEPT !.tags = Tags("bob", "dev")]}

Story(calls, targets, room) == [calls |-> calls, targets |-> targets, room |-> room]
Table == {Story({c}, {"tag-on-create"}, 1) : c \in Whole1 \cup Id1 \cup Name1 \cup Other1}
Known == {Story({By(Call("CreateTopic", None, F("topicArn", Whole), {Whole}), u)}, {"tag-on-create"}, 1) :
             u \in Callers}
Both == {"tag-on-create", "enforcement"}
AllStories == Table \cup Known
    \cup {Story({Run}, {"tag-on-create"}, 2), Story({Run}, Both, 0),
          Story(Race, {"tag-on-create"}, 2), Story(TaggedRace, Both, 1), Story(OfBob, {}, 2)}

\* A bucket without tags, under both Lambdas, and nothing else.
Plain == {Story({NewBucket}, Both, 0), Story({[NewBucket EXCEPT !.tags = Tags("alice", "qa")]}, Both, 0),
          Story({Run}, Both, 0)}

Who(ids, roles) == [ids |-> ids, roles |-> roles]
Admin == Who({"root"}, {"PlatformAdmin"})
Operator == Who({"alice"}, {"TagOperator"})
BobOwns == Who({"bob"}, {"ApplicationOwner"})
Ask(caller, arns, set) == [caller |-> caller, arns |-> arns, tags |-> set, region |-> "r1"]

\* A plain write that breaks the rules; the three after it are refused: an invalid value, a protected key, a role that
\* writes nothing.
SomeRequests == {Ask(Operator, {Bucket, Whole}, F("env", "dev")),
                 Ask(Admin, {Instance("x"), Instance("y")}, F("Owner", "bob")),
                 Ask(BobOwns, {Bucket}, F("Owner", "bob")), Ask(BobOwns, {Bucket, Whole}, F("env", "dev")),
                 Ask(None, {Bucket, Whole}, F("Environment", "qa")),
                 Ask(Admin, {Bucket}, F("Environment", "qa")),
                 Ask(Operator, {Bucket}, F("environment", "dev")),
                 Ask(Who({"bob"}, {"Viewer"}), {Bucket}, F("env", "dev"))}
SomeEditions == {[arn |-> Bucket, tags |-> Tags("bob", "dev"), userIdentity |-> User("bob")],
                 [arn |-> Bucket, tags |-> [Owner |-> "bob", env |-> "dev"], userIdentity |-> None],
                 [arn |-> Bucket, tags |-> [Owner |-> "bob", owner |-> "alice", env |-> "dev"],
                  userIdentity |-> User("bob")],
                 [arn |-> Bucket, tags |-> [Environment |-> "dev", Application |-> "bob"], userIdentity |-> User("bob")]}
=============================================================================
