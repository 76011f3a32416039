------------------------------ MODULE MCEgress ------------------------------
(* Small instances of Egress for TLC. *)
EXTENDS Egress, TLC

(* One known session, one that no durable row names. *)
MCTenantOf == [s \in Sessions |-> IF s = "known" THEN "acme" ELSE NULL]

(* Callable, superseded by a newer version, and registered without a binding. *)
MCCapabilities ==
    {[registered |-> 1, bound |-> {1}], [registered |-> 2, bound |-> {1, 2}],
     [registered |-> 1, bound |-> {}]}

MCRequest(purpose, session, claims, wrapped) ==
    [purpose |-> purpose, session |-> session, claims |-> claims, wrapped |-> wrapped]

Alone(request) == "first" :> request @@ "second" :> NULL

(* Two callers ask for a case of one session, the parameters of one naming    *)
(* another organisation; and each other kind of call by itself, since nothing *)
(* but a case is shared between calls.                                        *)
MCWorkloads ==
    {"first" :> MCRequest("case", "known", NULL, FALSE)
     @@ "second" :> MCRequest("case", "known", "globex", FALSE),
     Alone(MCRequest("case", "unknown", NULL, FALSE)),
     Alone(MCRequest("completion", "known", NULL, TRUE)),
     Alone(MCRequest("completion", "known", NULL, FALSE)),
     Alone(MCRequest("embedding", "known", NULL, TRUE)),
     Alone(MCRequest("search", "known", NULL, FALSE))}

MCDocument(tenant, length) == [tenant |-> tenant, content |-> Text(length), reference |-> NULL]

MCDocuments == {MCDocument("acme", 3), MCDocument("globex", 3)}

MCValues == {Text(3), [kind |-> "vector", length |-> 2]}

=============================================================================
