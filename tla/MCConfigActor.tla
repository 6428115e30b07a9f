--------------------------- MODULE MCConfigActor ---------------------------
(***************************************************************************)
(* Instances of ConfigActor for TLC: the bounds below are guards on Next.  *)
(***************************************************************************)
EXTENDS ConfigActor

CONSTANTS a,             \* a service name
          MaxGeneration, \* claims and stops per service
          MaxInstance,   \* processes spawned
          MaxSession     \* health-check sessions begun

MCRetries == [s \in Service |-> 2]
NoPolicy == [s \in Service |-> {}]
AlwaysPolicy == [s \in Service |-> {"on-failure", "on-success"}]
NoEdges == [e \in {} |-> {}]
WithinBounds ==
  /\ \A s \in Service : svc'[s].generation <= MaxGeneration
  /\ \A s \in Service : svc'[s].health_check_failures <= MCRetries[s]
  /\ \A s \in Service : Len(granted'[s]) <= MaxGeneration + 1
  /\ next_service_instance' <= MaxInstance
  /\ next_health_check' <= MaxSession

MCNext == Next /\ WithinBounds
MCSpec == Init /\ [][MCNext]_actorVars

=============================================================================
