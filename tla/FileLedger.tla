----------------------------- MODULE FileLedger -----------------------------
(***************************************************************************)
(* What the landing zone promises for each file content: its rows are      *)
(* applied to the warehouse at most once, a claim is given back only while *)
(* nothing was applied, and a file is settled for good once it was.        *)
(***************************************************************************)
CONSTANTS
    Runs,       \* invocations that may apply a file
    Files       \* file contents, told apart by checksum

VARIABLES
    state,      \* "open", "claimed" or "settled", per file
    applied     \* the invocations that applied the file

ledgerVars == <<state, applied>>

LedgerInit ==
    /\ state = [f \in Files |-> "open"]
    /\ applied = [f \in Files |-> {}]

Claim(f) ==
    /\ state[f] = "open"
    /\ applied[f] = {}
    /\ state' = [state EXCEPT ![f] = "claimed"]
    /\ UNCHANGED applied

Apply(f, r) ==
    /\ state[f] = "claimed"
    /\ applied[f] = {}
    /\ applied' = [applied EXCEPT ![f] = {r}]
    /\ UNCHANGED state

GiveBack(f) ==
    /\ state[f] = "claimed"
    /\ applied[f] = {}
    /\ state' = [state EXCEPT ![f] = "open"]
    /\ UNCHANGED applied

Settle(f) ==
    /\ state[f] = "claimed"
    /\ applied[f] # {}
    /\ state' = [state EXCEPT ![f] = "settled"]
    /\ UNCHANGED applied

LedgerNext ==
    \E f \in Files :
        \/ Claim(f) \/ GiveBack(f) \/ Settle(f)
        \/ \E r \in Runs : Apply(f, r)

LedgerSpec == LedgerInit /\ [][LedgerNext]_ledgerVars
=============================================================================
