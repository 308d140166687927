------------------------------ MODULE Delivery ------------------------------
(***************************************************************************)
(* OutputDelivery and AgentCalls side by side: they share no state.  A     *)
(* behaviour exercises one of them, the other stays as it begins.          *)
(***************************************************************************)
EXTENDS OutputDelivery

CONSTANTS Calls, Settings, ModelOf, maxRepeats, MaxUpsets, None, Default, Torn

ASSUME CallsAssumption == maxRepeats \in Nat /\ MaxUpsets \in Nat

VARIABLES
    part,   \* the component that is exercised
    agent, db, shared, call, held, agentsCancelled, upsets

callVars == <<agent, db, shared, call, held, agentsCancelled, upsets>>
allVars == <<part, vars, callVars>>

Agent == INSTANCE AgentCalls WITH cancelled <- agentsCancelled, maxRetries <- maxRepeats

\* Where a component is not exercised, one of its initial states is enough.
DeliveryInit ==
    /\ part \in {"outputs", "agents"}
    /\ Init
    /\ Agent!Init
    /\ part # "outputs" => service = (CHOOSE s \in Services : TRUE) /\ plan = CHOOSE q \in Plans : TRUE
    /\ part # "agents" => agent = "cursor" /\ db = CHOOSE s \in Settings : TRUE

DeliveryNext ==
    \/ part = "outputs" /\ Next /\ UNCHANGED <<part, callVars>>
    \/ part = "agents" /\ Agent!Next /\ UNCHANGED <<part, vars>>

\* The fairness of each component, while it is the one that is exercised.
Publishing(A) == part = "outputs" /\ A /\ UNCHANGED <<part, callVars>>
Calling(A) == part = "agents" /\ A /\ UNCHANGED <<part, vars>>
DeliveryFairness ==
    /\ \A p \in Pubs : WF_allVars(Publishing(Publish(p)))
    /\ \A x \in Calls : WF_allVars(Calling(Agent!Execute(x)))

DeliverySpec == DeliveryInit /\ [][DeliveryNext]_allVars /\ DeliveryFairness

\* Types.
DeliveryTypeOK == TypeOK /\ Agent!TypeOK

\* A pull request shows one comment of a rule, with the newest result, however
\* publications overlap and fail, as far as pages and failures let them.
CommentsKept == OneCommentShown /\ NoDuplicates /\ CommentStays

\* An undisturbed call runs with the settings it has read, and is repeated as
\* long as that may help and no longer.
CallsAsMeant == Agent!SettingsReachCall /\ Agent!RepeatedWhenUseful

\* Every publication and every call ends.
DeliveryEnds == PublishEnds /\ Agent!CallEnds

=============================================================================
