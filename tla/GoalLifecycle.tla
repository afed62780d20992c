----------------------------- MODULE GoalLifecycle -----------------------------
(***************************************************************************)
(* What the supervisor promises about the life of a goal: the transitions  *)
(* decideGoalTransition (domain.ts) allows, with the evidence each of them *)
(* asks for.  The states, plans and tokens are all there is: no units, no  *)
(* attempts, no leases and no sessions.  GoalStore implements it, with     *)
(* several daemons and operators calling and anything they call failing.   *)
(***************************************************************************)
EXTENDS Naturals

CONSTANTS
    Plans,      \* the revisions a plan can have; numbered from 1
    Tokens      \* the scopes of the single-use action tokens

NoPlan == 0

VARIABLES
    state,      \* the goal's state, or "absent"
    plan,       \* the plan it works by
    tokens,     \* the tokens operators issued and nothing used yet
    proven      \* all required work of the plan is accepted and its final
                \* verification has passed

vars == <<state, plan, tokens, proven>>

(* The states that neither are terminal nor wait for a recovery.           *)
Open == {"draft", "ready", "executing", "paused", "needs-replan",
         "awaiting-decision", "blocked"}

Init ==
    /\ state = "absent"
    /\ plan = NoPlan
    /\ tokens = {}
    /\ proven = FALSE

(* A transition that asks for nothing but the right state.                 *)
Move(from, to) ==
    /\ state \in from
    /\ state' = to
    /\ UNCHANGED <<plan, tokens, proven>>

(* A transition an operator has to issue a token for, which it uses up.    *)
Spend(token, from, to) ==
    /\ state \in from
    /\ token \in tokens
    /\ state' = to
    /\ tokens' = tokens \ {token}
    /\ UNCHANGED <<plan, proven>>

(* Adopting a plan forgets what was proven for the one before.             *)
Adopt(p, to) ==
    /\ plan' = p
    /\ proven' = FALSE
    /\ state' = to
    /\ UNCHANGED tokens

Create == Move({"absent"}, "draft")

(* The confirmed launch is creation, approval and start in one.            *)
Launch == state = "absent" /\ \E p \in Plans : Adopt(p, "executing")

(* Every plan adopted is a later revision than the one it replaces.        *)
PlanReady ==
    /\ state \in {"draft", "needs-replan"}
    /\ \E p \in Plans : p > plan /\ Adopt(p, "ready")

Start    == plan # NoPlan /\ Spend("start", {"ready"}, "executing")
Resume   == \E to \in {"ready", "executing"} :
                \/ Spend("resume", {"paused", "awaiting-decision"}, to)
                \/ Spend("blocked-resume", {"blocked"}, to)
Recover  == \E to \in (Open \ {"draft"}) \union {"cancelled"} :
                Spend("recover", {"unknown-outcome"}, to)

Pause    == Move({"ready", "executing", "awaiting-decision"}, "paused")
Cancel   == Move(Open, "cancelled")
Replan   == Move(Open \ {"needs-replan"}, "needs-replan")
Decide   == Move(Open \ {"awaiting-decision"}, "awaiting-decision")
Block    == Move(Open \ {"blocked"}, "blocked")
Lose     == Move(Open \ {"draft"}, "unknown-outcome")
Achieve  == proven /\ Move({"executing"}, "achieved")

(* Work, seen from here: it is done, once, by a goal that executes, and    *)
(* what is done stays done until another plan is adopted.                  *)
Prove ==
    /\ state = "executing"
    /\ plan # NoPlan
    /\ proven' = TRUE
    /\ UNCHANGED <<state, plan, tokens>>

Issue(token) ==
    /\ state # "absent"
    /\ tokens' = tokens \union {token}
    /\ UNCHANGED <<state, plan, proven>>

(* A token runs out, or is spent on something other than a transition.     *)
LoseToken(token) ==
    /\ tokens' = tokens \ {token}
    /\ UNCHANGED <<state, plan, proven>>

Next ==
    \/ \E token \in Tokens : LoseToken(token) \/ Issue(token)
    \/ Create \/ Launch \/ PlanReady \/ Start \/ Resume \/ Recover
    \/ Pause \/ Cancel \/ Replan \/ Decide \/ Block \/ Lose \/ Achieve \/ Prove

Spec == Init /\ [][Next]_vars
=============================================================================
