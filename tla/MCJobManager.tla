---------------------------- MODULE MCJobManager ----------------------------
(* Instances of JobManager for TLC: how often each kind of request or failure *)
(* happens in a run (kinds that are not named do not happen).                 *)
EXTENDS JobManager, TLC

Never == [k \in RequestKind |-> 0]

LifeRequests == ("raise" :> 1 @@ "update" :> 1 @@ "stop" :> 1 @@ "exec" :> 1)
                @@ Never
AllocRequests == ("raise" :> 1 @@ "update" :> 1 @@ "sched" :> 1 @@ "error" :> 1
                  @@ "hello" :> 1) @@ Never
ResourceRequests == ("raise" :> 2 @@ "stop" :> 1) @@ Never
LiveRequests == ("raise" :> 1 @@ "update" :> 1 @@ "stop" :> 1 @@ "sched" :> 1
                 @@ "hello" :> 1) @@ Never
=============================================================================
