------------------------------ MODULE StoresMC ------------------------------
(***************************************************************************)
(* One run for components that share no state: in each behaviour one of    *)
(* them moves and the others keep their initial state.                     *)
(***************************************************************************)
EXTENDS ExactCommit, SavedKey, CatalogStore, FallbackLadder, TLC

CONSTANTS v1, v2, v3, t1, t2           \* contents, transactions
CONSTANTS bt, an, m1, m2, a1, a2       \* providers, models, accounts

MCContents == {v1, v2, v3}
MCTxns == {t1, t2}

MCOrder == <<an, bt>>
MCModels == {m1, m2}
MCPublic == <<[p \in {an, bt} |-> {m1, m2}], [p \in {an, bt} |-> {m1}]>>
MCAccounts == {a1, a2}
MCAccountModels == a1 :> {m1} @@ a2 :> {m2}
MCVendored == {m1}

VARIABLE part    \* the component that moves

Parts == {"commit", "key", "catalog", "ladder"}

StoresInit ==
    /\ part \in Parts
    /\ Init /\ (part # "commit" => path = v1)
    /\ KeyInit /\ (part # "key" => keychain = NoKey)
    /\ CatalogInit /\ (part # "catalog" => account = a1)
    /\ LadderInit /\ (part # "ladder" => baseten = "ok")

CommitMoves ==
    part = "commit" /\ Next /\ UNCHANGED <<part, keyVars, catalogVars, ladderVars>>
KeyMoves ==
    part = "key" /\ KeyNext /\ UNCHANGED <<part, vars, catalogVars, ladderVars>>
CatalogMoves ==
    part = "catalog" /\ CatalogNext /\ UNCHANGED <<part, vars, keyVars, ladderVars>>
LadderMoves ==
    part = "ladder" /\ LadderNext /\ UNCHANGED <<part, vars, keyVars, catalogVars>>

StoresNext == CommitMoves \/ KeyMoves \/ CatalogMoves \/ LadderMoves

\* The fairness of a component, as its module states it, while it moves.
FairCommit ==
    /\ WF_vars(part = "commit" /\ Begin)
    /\ WF_vars(part = "commit" /\ (Recover \/ Commit \/ Remove))
FairLadder ==
    /\ WF_ladderVars(part = "ladder" /\ TimePasses)
    /\ \A r \in Reqs : WF_ladderVars(part = "ladder" /\ Handle(r))

StoresSpec ==
    /\ StoresInit /\ [][StoresNext]_<<part, vars, keyVars, catalogVars, ladderVars>>
    /\ FairCommit /\ FairLadder

TypesOK == TypeOK /\ KeyTypeOK /\ CatalogTypeOK /\ LadderTypeOK

\* A saved key is not lost to a process that dies, and a cooldown has a failure behind it.
StoresSafe == KeySafe /\ CooldownsJustified
=============================================================================
