-------------------------- MODULE MCCostEvaluation --------------------------
(***************************************************************************)
(* A small instance of CostEvaluation for TLC.  A stack may have a launch   *)
(* template, which is free, a group, which costs what the template says,    *)
(* and a disk with a part billed by size and one billed by usage.  The      *)
(* threshold lies between the prices, and between their sums.               *)
(***************************************************************************)
EXTENDS CostEvaluation, TLC

MCAddress == {"template", "group", "disk"}

MCContent == {"empty", "small", "large", "disk"}

\* From small to large Terraform acts on the template alone.
MCSize ==
    "empty" :> <<>>
    @@ "small" :> [a \in {"template", "group"} |-> 1]
    @@ "large" :> [a \in {"template", "group"} |-> IF a = "template" THEN 2 ELSE 1]
    @@ "disk" :> [a \in MCAddress |-> 1]

Item(price, usage) == [price |-> price, usage |-> usage]

BillOf(a, groupPrice) ==
    CASE a = "template" -> <<>>
      [] a = "group" -> <<Item(groupPrice, FALSE)>>
      [] a = "disk" -> <<Item(1000, FALSE), Item(2000, TRUE)>>

MCBill ==
    [c \in MCContent |-> [a \in DOMAIN MCSize[c] |-> BillOf(a, IF c = "large" THEN 6000 ELSE 3000)]]

\* Within the five cents and beyond them, for one total and for the difference of two.
MCDrifts == {-3, 6}

MCRefers == [a \in MCAddress |-> IF a = "group" THEN "template" ELSE Null]

\* --- the registry ---

Stack(name, dir, cloud, environment, key, paths) ==
    [name |-> name, dir |-> dir, cloud |-> cloud, environment |-> environment, deployable |-> TRUE,
     key |-> [cloud |-> key, environment |-> environment, workload |-> name],
     paths |-> paths, fields |-> RequiredFields(cloud)]

AwsStack == Stack("aws", <<"terraform", "/", "aws">>, "aws", "dev", "none", <<>>)

\* Under the directory of aws, and a directory shared with platform.
WebStack ==
    Stack("web", <<"terraform", "/", "aws", "/", "web">>, "aws", "dev", "aws",
          <<<<"terraform", "/", "aws", "/", "web", "/">>, <<"modules", "/">>>>)

PlatformStack ==
    Stack("platform", <<"terraform", "/", "azure">>, "azure", "dev", "azure",
          <<<<"terraform", "/", "azure", "/">>, <<"modules", "/">>>>)

Registry == <<AwsStack, WebStack, PlatformStack>>

\* A key of the wrong cloud; two stacks of one key; a stack that says too little,
\* one outside of the repository; paths that are no directories.
WrongKey == <<AwsStack, [PlatformStack EXCEPT !.key.cloud = "gcp"]>>
SharedKey == <<AwsStack, [WebStack EXCEPT !.key = AwsStack.key]>>
Lacking == <<[PlatformStack EXCEPT !.fields = @ \ {"location"}]>>
Outside == <<[WebStack EXCEPT !.dir = <<"..", "/", "web">>]>>
Loose == <<AwsStack, [PlatformStack EXCEPT !.paths = <<<<"modules">>, <<".", "/", "azure", "/">>>>]>>

\* --- the triggers ---

InAws == <<"terraform", "/", "aws", "/", "main", ".tf">>
InWeb == <<"terraform", "/", "aws", "/", "web", "/", "main", ".tf">>
InModules == <<"modules", "/", "vars", ".tfvars">>
Notes == <<"terraform", "/", "azure", "/", "readme", ".md">>
Cached == <<"terraform", "/", "azure", "/", ".terraform", "/", "lock", ".hcl">>
AtTheTop == <<"main", ".tf">>

PullRequest(stacks, edited, moved, head) ==
    [event |-> "pull_request", registry |-> stacks, edited |-> edited, moved |-> moved,
     head |-> head]

Manual(stacks, name, cloud) ==
    [event |-> "workflow_dispatch", registry |-> stacks, name |-> name, cloud |-> cloud,
     environment |-> "dev", head |-> "empty"]

\* One stack at each content, and every way in to the evaluation.
MCTriggers ==
    {PullRequest(Registry, {InWeb}, {}, head) : head \in {"small", "large", "disk"}}
    \cup {PullRequest(Registry, {InAws, InModules, Notes}, {<<InWeb, InAws>>}, "empty"),
          PullRequest(Registry, {Notes, Cached}, {}, "empty"),
          PullRequest(Registry, {AtTheTop}, {}, "empty"),
          Manual(Registry, "platform", "azure"), Manual(Registry, "platform", "aws"),
          Manual(Registry, "none", "aws"), PullRequest(Lacking, {Notes}, {}, "empty")}
    \cup {PullRequest(stacks, {InModules}, {}, "empty") :
            stacks \in {WrongKey, SharedKey, Lacking, Outside, Loose}}

\* --- the policy ---

\* config/finops-policy.yaml with a threshold of 25, and one that blocks on what
\* could not be priced.
MCPolicies ==
    {[metric |-> "incremental_monthly_cost", threshold |-> 2500, currency |-> "USD",
      equalityIsPass |-> TRUE, allowReductions |-> TRUE, allowNonAuthoritative |-> FALSE,
      onUnsupported |-> treatment, onUnknown |-> treatment] : treatment \in {"WARN", "BLOCK"}}

=============================================================================
