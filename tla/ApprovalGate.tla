---------------------------- MODULE ApprovalGate ----------------------------
(***************************************************************************)
(* The promise of the NOTAM workflow, without its statuses: a document is  *)
(* edited while it is open; someone who is not its author signs it; from   *)
(* then on it does not change; only a signed document is released, and a   *)
(* release is final.                                                       *)
(***************************************************************************)
CONSTANTS
  Requests,   \* one document for each request
  Users,
  None

VARIABLES
  stage,      \* "open", "signed" or "released"
  doc,        \* the document
  author,     \* who wrote it last, None until it is written
  signer      \* who signed it last, None until it is signed

vars == <<stage, doc, author, signer>>

Init ==
  /\ stage  = [r \in Requests |-> "open"]
  /\ author = [r \in Requests |-> None]
  /\ signer = [r \in Requests |-> None]

Prepare(r) ==
  /\ stage[r] = "open"
  /\ doc' = [doc EXCEPT ![r] = doc'[r]]
  /\ \E u \in Users : author' = [author EXCEPT ![r] = u]
  /\ UNCHANGED <<stage, signer>>

Sign(r, u) ==
  /\ stage[r] \in {"open", "signed"}
  /\ author[r] \in Users \ {u}
  /\ stage'  = [stage EXCEPT ![r] = "signed"]
  /\ signer' = [signer EXCEPT ![r] = u]
  /\ UNCHANGED <<doc, author>>

Release(r) ==
  /\ stage[r] = "signed"
  /\ stage' = [stage EXCEPT ![r] = "released"]
  /\ UNCHANGED <<doc, author, signer>>

Next == \E r \in Requests : Prepare(r) \/ Release(r) \/ \E u \in Users : Sign(r, u)

Spec == Init /\ [][Next]_vars
=============================================================================
