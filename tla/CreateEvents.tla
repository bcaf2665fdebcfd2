---------------------------- MODULE CreateEvents ----------------------------
(***************************************************************************)
(* What src/src/tag_on_create.py reads from a CloudTrail event of a create *)
(* call: the ARNs of the new resources and the caller.                     *)
(*                                                                         *)
(* An event is a pair of a detail, a record of the fields below whose      *)
(* requestParameters and responseElements are functions from field paths   *)
(* to values (responseElements is None when the call failed), and the      *)
(* EventBridge envelope, a function from fields to values.  An ARN is a    *)
(* record; in an ARN that the service reports the fields are as they are.  *)
(***************************************************************************)
EXTENDS Naturals, FiniteSets

CONSTANTS
    None,            \* no value: a field that is missing, null or empty
    DEFAULT_REGION

Nothing == [f \in {} |-> None]
Field(fields, path) == IF path \in DOMAIN fields THEN fields[path] ELSE None
OneOf(v, w) == IF v # None THEN v ELSE w

NoDetail ==
    [eventName |-> None, userIdentity |-> None, requestParameters |-> None,
     responseElements |-> None, recipientAccountId |-> None, awsRegion |-> None]

_req(detail) == IF detail.requestParameters = None THEN Nothing ELSE detail.requestParameters
_resp(detail) == IF detail.responseElements = None THEN Nothing ELSE detail.responseElements
_account_id(detail, envelope) == OneOf(detail.recipientAccountId, Field(envelope, "account"))
_region(detail, envelope) ==
    OneOf(detail.awsRegion, OneOf(Field(envelope, "region"), DEFAULT_REGION))

\* The detail of an EventBridge event, which may come as JSON text, or an
\* event that was sent bare; nothing is recognized in anything else.
parse_detail(event) ==
    IF event.detail # None THEN [detail |-> event.detail, envelope |-> event.envelope]
    ELSE IF event.bare # None THEN [detail |-> event.bare, envelope |-> Nothing]
    ELSE [detail |-> NoDetail, envelope |-> event.envelope]

\* The region in an ARN; some services leave it empty.
get_region_from_arn(arn, default) == OneOf(arn.region, default)

-----------------------------------------------------------------------------
(***************************************************************************)
(* The forms of extraction                                                 *)
(***************************************************************************)
Arn(service, region, account, kind, id) ==
    [service |-> service, region |-> region, account |-> account, kind |-> kind, id |-> id]

\* An ARN built from an identifier, with the region and account of the event.
Built(d, e, service, kind, id) ==
    IF id = None THEN {} ELSE {Arn(service, _region(d, e), _account_id(d, e), kind, id)}

Reported(d, path) == {Field(_resp(d), path)} \ {None}
FromId(d, e, service, kind, path) == Built(d, e, service, kind, Field(_resp(d), path))
FromName(d, e, service, kind, path) == Built(d, e, service, kind, Field(_req(d), path))

\* The first of several alternatives that gives anything.
Else(arns, others) == IF arns # {} THEN arns ELSE others

-----------------------------------------------------------------------------
extract_run_instances(d, e) ==
    UNION {Built(d, e, "ec2", "instance", id) : id \in OneOf(Field(_resp(d), "instancesSet.items"), {})}

extract_create_volume(d, e) ==
    Else(FromId(d, e, "ec2", "volume", "volumeId"),
    Else(FromId(d, e, "ec2", "volume", "CreateVolumeResponse.volumeId"),
         {arn \in OneOf(Field(e, "resources"), {}) : arn.service = "ec2" /\ arn.kind = "volume"}))

extract_create_function(d, e) == Reported(d, "functionArn")

\* Bucket names are global: their ARNs have no region and no account.
extract_create_bucket(d, e) ==
    {Arn("s3", None, None, "bucket", n) : n \in {Field(_req(d), "bucketName")} \ {None}}

extract_create_db_instance(d, e) == Reported(d, "dBInstanceArn")
extract_create_db_cluster(d, e) == Reported(d, "dBClusterArn")
extract_create_topic(d, e) == Reported(d, "topicArn")

\* The region and account of a queue are those in its URL, if it can be parsed.
extract_create_queue(d, e) ==
    LET url == Field(_resp(d), "queueUrl")
    IN IF url = None \/ url.name = None THEN {}
       ELSE {Arn("sqs", url.region, url.account, "queue", url.name)}

extract_create_table(d, e) == Reported(d, "tableDescription.tableArn")
extract_create_secret(d, e) == Reported(d, "ARN")
extract_create_nat_gateway(d, e) == FromId(d, e, "ec2", "natgateway", "natGateway.natGatewayId")
extract_create_subnet(d, e) == FromId(d, e, "ec2", "subnet", "subnet.subnetId")
extract_create_security_group(d, e) == FromId(d, e, "ec2", "security-group", "groupId")

extract_create_elasticsearch_domain(d, e) ==
    Else(Reported(d, "domainStatus.arn"), Reported(d, "domainStatus.ARN"))

\* The name in the request serves when the response lists no load balancer.
extract_create_load_balancer(d, e) ==
    Else(Reported(d, "loadBalancers[0].loadBalancerArn"),
         FromName(d, e, "elasticloadbalancing", "loadbalancer", "loadBalancerName"))

extract_create_snapshot(d, e) == FromId(d, e, "ec2", "snapshot", "snapshotId")
extract_create_vpc(d, e) == FromId(d, e, "ec2", "vpc", "vpc.vpcId")
extract_create_internet_gateway(d, e) ==
    FromId(d, e, "ec2", "internet-gateway", "internetGateway.internetGatewayId")
extract_create_route_table(d, e) == FromId(d, e, "ec2", "route-table", "routeTable.routeTableId")
extract_create_network_interface(d, e) ==
    FromId(d, e, "ec2", "network-interface", "networkInterface.networkInterfaceId")

\* Mutant: EKS clusters are overlooked.
extract_ecs_or_redshift(d, e) ==
    Else(Reported(d, "cluster.clusterArn"),
         FromId(d, e, "redshift", "cluster", "cluster.clusterIdentifier"))

\* ECS, EKS and Redshift share one event name.
extract_create_cluster(d, e) ==
    Else(Reported(d, "cluster.clusterArn"),
    Else(Reported(d, "cluster.arn"),
         FromId(d, e, "redshift", "cluster", "cluster.clusterIdentifier")))

extract_create_service(d, e) == Reported(d, "service.serviceArn")
extract_create_repository(d, e) == Reported(d, "repository.repositoryArn")
extract_create_stream(d, e) == FromName(d, e, "kinesis", "stream", "streamName")
extract_create_key(d, e) == Reported(d, "keyMetadata.arn")
extract_create_log_group(d, e) == FromName(d, e, "logs", "log-group", "logGroupName")

\* API Gateway ARNs have no account.
extract_create_api(d, e) ==
    LET Api(kind, path) == {Arn("apigateway", _region(d, e), None, kind, id) :
                               id \in {Field(_resp(d), path)} \ {None}}
    IN Else(Api("restapis", "id"), Api("apis", "apiId"))

\* The cluster or group that the response has is taken even if it gives no id:
\* a path without value.
extract_create_elasticache(d, e) ==
    LET Of(kind, path) ==
            {Arn("elasticache", _region(d, e), _account_id(d, e), kind, Field(_resp(d), p)) :
                p \in {path} \cap DOMAIN _resp(d)}
    IN Else(Of("cluster", "cacheCluster.cacheClusterId"),
            Of("replicationgroup", "replicationGroup.replicationGroupId"))

extract_create_work_group(d, e) == FromName(d, e, "athena", "workgroup", "workGroup")

extract_create_glue_resource(d, e) ==
    LET kind == CASE d.eventName = "CreateCrawler" -> "crawler"
                  [] d.eventName = "CreateDatabase" -> "database"
                  [] OTHER -> "job"
        Named(path) == FromName(d, e, "glue", kind, path)
    IN Else(Named("name"), Else(Named("JobName"),
       Else(Named("CrawlerName"), Named("DatabaseInput.Name"))))

extract_create_state_machine(d, e) == Reported(d, "stateMachineArn")
extract_create_stack(d, e) == Reported(d, "stackId")
extract_create_emr_cluster(d, e) == FromId(d, e, "elasticmapreduce", "cluster", "clusterId")

extract_create_sagemaker_resource(d, e) ==
    Else(Reported(d, "NotebookInstanceArn"), Else(Reported(d, "ModelArn"),
    Else(Reported(d, "TrainingJobArn"), Reported(d, "EndpointArn"))))

-----------------------------------------------------------------------------
\* The ARNs that an event names; an event that is not in the table names none.
EVENT_EXTRACTORS(d, e) ==
    LET ev == d.eventName IN
    CASE ev = "RunInstances" -> extract_run_instances(d, e)
      [] ev = "CreateVolume" -> extract_create_volume(d, e)
      [] ev = "CreateSnapshot" -> extract_create_snapshot(d, e)
      [] ev = "CreateVpc" -> extract_create_vpc(d, e)
      [] ev = "CreateSubnet" -> extract_create_subnet(d, e)
      [] ev = "CreateSecurityGroup" -> extract_create_security_group(d, e)
      [] ev = "CreateInternetGateway" -> extract_create_internet_gateway(d, e)
      [] ev = "CreateNatGateway" -> extract_create_nat_gateway(d, e)
      [] ev = "CreateRouteTable" -> extract_create_route_table(d, e)
      [] ev = "CreateNetworkInterface" -> extract_create_network_interface(d, e)
      [] ev \in {"CreateFunction", "CreateFunction20150331"} -> extract_create_function(d, e)
      [] ev = "CreateCluster" -> extract_create_cluster(d, e)
      [] ev = "CreateService" -> extract_create_service(d, e)
      [] ev = "CreateRepository" -> extract_create_repository(d, e)
      [] ev = "CreateBucket" -> extract_create_bucket(d, e)
      [] ev = "CreateDBInstance" -> extract_create_db_instance(d, e)
      [] ev = "CreateDBCluster" -> extract_create_db_cluster(d, e)
      [] ev = "CreateTable" -> extract_create_table(d, e)
      [] ev \in {"CreateCacheCluster", "CreateReplicationGroup"} -> extract_create_elasticache(d, e)
      [] ev \in {"CreateElasticsearchDomain", "CreateDomain"} ->
            extract_create_elasticsearch_domain(d, e)
      [] ev = "CreateTopic" -> extract_create_topic(d, e)
      [] ev = "CreateQueue" -> extract_create_queue(d, e)
      [] ev = "CreateStream" -> extract_create_stream(d, e)
      [] ev = "CreateSecret" -> extract_create_secret(d, e)
      [] ev = "CreateKey" -> extract_create_key(d, e)
      [] ev = "CreateLogGroup" -> extract_create_log_group(d, e)
      [] ev \in {"CreateRestApi", "CreateApi"} -> extract_create_api(d, e)
      [] ev = "CreateLoadBalancer" -> extract_create_load_balancer(d, e)
      [] ev = "CreateWorkGroup" -> extract_create_work_group(d, e)
      [] ev \in {"CreateJob", "CreateCrawler", "CreateDatabase"} -> extract_create_glue_resource(d, e)
      [] ev = "RunJobFlow" -> extract_create_emr_cluster(d, e)
      [] ev = "CreateStateMachine" -> extract_create_state_machine(d, e)
      [] ev = "CreateStack" -> extract_create_stack(d, e)
      [] ev \in {"CreateNotebookInstance", "CreateModel", "CreateTrainingJob"} ->
            extract_create_sagemaker_resource(d, e)
      [] OTHER -> {}

(***************************************************************************)
(* The principal a userIdentity stands for.  principalName is the part of  *)
(* principalId after its last colon; sessionName is role/session of an     *)
(* assumed-role ARN, or its last part.  Names are cut at 256 characters.   *)
(***************************************************************************)
owner_from_user_identity(uid) ==
    IF uid = None THEN None
    ELSE CASE uid.type = "IAMUser" -> OneOf(uid.userName, uid.principalName)
           [] uid.type = "AssumedRole" ->
                 OneOf(uid.userName, OneOf(uid.sessionName, OneOf(uid.principalId, "assumed-role")))
           [] uid.type = "Root" -> "root"
           [] uid.type \in {"WebIdentityUser", "IdentityCenterUser", "SAMLUser"} ->
                 OneOf(uid.userName, OneOf(uid.principalId, "federated"))
           [] uid.type \in {"AWSService", "AWSAccount", "Unknown"} -> None
           [] OTHER -> uid.principalId
=============================================================================
