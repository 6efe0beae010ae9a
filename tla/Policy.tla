------------------------------- MODULE Policy -------------------------------
(***************************************************************************)
(* Permission rules and how a request is matched against them              *)
(* (crates/signer-core/src/policy.rs).  A rule is scoped to a method and,  *)
(* for sign_event only, an event kind.  The policies table has one row per *)
(* (client, method, kind), so the rules of a client are a function from    *)
(* scopes to a stored decision, "none" standing for the missing row.       *)
(***************************************************************************)

CONSTANTS
    Methods,    \* NIP-46 methods
    SignEvent,  \* the one method whose requests carry an event kind
    Kinds,      \* Nostr event kinds
    AnyKind     \* kind = None: any kind on a rule, no kind on a request

ASSUME PolicyAssumption ==
    /\ SignEvent \in Methods
    /\ AnyKind \notin Kinds
    /\ Kinds # {}

Scope(m, k) == [method |-> m, kind |-> k]

\* scope_for: the scope a parsed request needs covered.
RequestScopes ==
    {Scope(SignEvent, k) : k \in Kinds}
        \cup {Scope(m, AnyKind) : m \in Methods \ {SignEvent}}

\* What a stored rule may cover: also "sign_event, any kind".
RuleScopes == RequestScopes \cup {Scope(SignEvent, AnyKind)}

Decisions == {"allow", "deny"}
Verdicts == Decisions \cup {"none"}
Outcomes == Decisions \cup {"prompt"}

NoRules == [s \in RuleScopes |-> "none"]

\* PolicySet: the rules of one client with its two app-wide flags.
Policies == [rules : [RuleScopes -> Verdicts], allowAll : BOOLEAN, denyAll : BOOLEAN]

\* PolicySet::find on the scope that is the request's method with no kind.
Wide(request) == Scope(request.method, AnyKind)

\* PolicySet::evaluate: app-wide denial, then the exact rule, then the
\* method-wide rule, then app-wide approval, then the user.  For a request
\* with no kind the exact and the method-wide scope are the same.
Evaluate(policy, request) ==
    CASE policy.denyAll                         -> "deny"
      [] ~policy.denyAll
         /\ policy.rules[request] # "none"      -> policy.rules[request]
      [] ~policy.denyAll
         /\ policy.rules[request] = "none"
         /\ policy.rules[Wide(request)] # "none" -> policy.rules[Wide(request)]
      [] OTHER -> IF policy.allowAll THEN "allow" ELSE "prompt"
=============================================================================
