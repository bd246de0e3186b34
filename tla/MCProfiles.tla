----------------------------- MODULE MCProfiles -----------------------------
(***************************************************************************)
(* The safety of the profile store: a behaviour exercises the credential   *)
(* operations, the trust decisions or the store updates, chosen at the     *)
(* start, each against the edits and faults that concern it.  A part       *)
(* leaves operations, faults and values of the others out and changes no   *)
(* step.                                                                    *)
(***************************************************************************)
EXTENDS ProfileStore, TLC

VARIABLE focus

mcVars == <<focus, vars>>

PartKinds ==
    [credentials |-> {"save", "remember", "clear", "delete", "reject"},
     trust |-> {"save", "delete", "trust", "revoke", "groups"},
     updates |-> UpdateKinds]

InPart ==
    /\ \A i \in Ops : op'[i] # Idle => op'[i].kind \in PartKinds[focus]
    /\ "sync" \in faults' => focus = "updates"
    /\ \A p \in {mem'.prof} \cup {op'[i].new : i \in {j \in Ops : op'[j] # Idle}} :
           p # Gone =>
               /\ focus # "credentials" => p.auth = "password" /\ p.store = None
               /\ focus # "trust" => /\ p.host = CHOOSE h \in Hosts : TRUE
                                     /\ p.group = CHOOSE g \in Groups : TRUE
    /\ focus # "updates" => mem'.set = mem.set

\* The inputs whose profile InPart accepts.
PartInputs == [part \in DOMAIN PartKinds |->
    {in \in Inputs :
        /\ part # "credentials" => in.auth = "password" /\ in.store = None
        /\ part # "trust" => /\ in.host = CHOOSE h \in Hosts : TRUE
                             /\ in.group = CHOOSE g \in Groups : TRUE}]

MCInit ==
    /\ focus \in DOMAIN PartKinds
    /\ Init
    /\ focus # "updates" => mem.set = CHOOSE s \in Settings : TRUE
    /\ mem.prof # Gone =>
           /\ focus # "credentials" => mem.prof.auth = "password"
           /\ focus # "trust" => /\ mem.prof.host = CHOOSE h \in Hosts : TRUE
                                 /\ mem.prof.group = CHOOSE g \in Groups : TRUE

MCNext ==
    /\ \/ \E i \in Ops :
           \/ /\ focus # "updates"
              /\ \/ \E in \in PartInputs[focus], w \in Passwords : SaveInput(i, in, w)
                 \/ DeleteSession(i)
           \/ /\ focus = "credentials"
              /\ RememberPassword(i) \/ ClearSavedPassword(i) \/ RejectedPassword(i)
           \/ focus = "trust" /\ (TrustHostKey(i) \/ RemoveRevokedKey(i))
           \/ focus # "credentials" /\ RequestUpdate(i)
           \/ Acquire(i) \/ Step(i)
       \/ focus = "updates" /\ PreviewSettings
       \/ focus = "credentials" /\ LoseSecret
       \/ focus = "trust" /\ RevokeKey
       \/ focus # "updates" /\ Restart
    /\ InPart
    /\ UNCHANGED focus

MCSpec == MCInit /\ [][MCNext]_mcVars

\* The run for liveness: the operations that have to wait, all faults and values
\* of its cfg, and the fairness of ProfileStore.
LiveInit == focus = "live" /\ Init

LiveNext == Next /\ UNCHANGED focus

LiveSpec == LiveInit /\ [][LiveNext]_mcVars /\ Fairness

Symmetry == Permutations(Ops) \cup Permutations(Passwords)
=============================================================================
